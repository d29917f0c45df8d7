---------------------------- MODULE ValueProofs ----------------------------
(***************************************************************************)
(* What Tuple, Column and Schema write is what they read, for any widths   *)
(* of the integers, any schema and any row; and what compare finds between *)
(* two values is their order, for any two values of any types and widths.  *)
(* The codec is made of recursive functions; each is shown to satisfy the  *)
(* equation that defines it before anything is said about its values.      *)
(***************************************************************************)
EXTENDS TupleCodec, Comparisons, FiniteSetTheorems, SequenceTheorems, WellFoundedInduction, TLAPS

(* A set of natural numbers that is not empty has a least one.             *)
LEMMA LeastNatural ==
    ASSUME NEW S \in SUBSET Nat, S # {}
    PROVE  \E m \in S : \A n \in S : m <= n
<1>1. PICK m \in S : \A n \in S : ~(<<n, m>> \in OpToRel(<, Nat))
  BY NatLessThanWellFounded, WFMin, Zenon
<1>2. \A n \in S : ~(n < m)
  BY <1>1 DEF OpToRel
<1> QED  BY <1>2

(* A set with 0 and with the successor of each of its members has every    *)
(* natural number.                                                         *)
LEMMA Induction ==
    ASSUME NEW S, 0 \in S, \A n \in Nat : n \in S => n + 1 \in S
    PROVE  \A n \in Nat : n \in S
<1> DEFINE Bad == Nat \ S
<1>1. SUFFICES ASSUME Bad # {} PROVE FALSE
  OBVIOUS
<1>2. PICK m \in Bad : \A n \in Bad : m <= n
  BY <1>1, LeastNatural
<1>3. m # 0 /\ m - 1 \in Nat /\ m - 1 \in Bad
  OBVIOUS
<1>4. m <= m - 1
  <2> HIDE DEF Bad
  <2> QED  BY <1>2, <1>3
<1> QED  BY <1>3, <1>4

(* A function on the numbers from 1 to n is a sequence of length n.        *)
LEMMA Sequence ==
    ASSUME NEW n \in Nat, NEW S, NEW q \in [1 .. n -> S]
    PROVE  q \in Seq(S) /\ Len(q) = n
OBVIOUS

(* A sequence over a set is one over every larger set.                     *)
LEMMA LargerSet ==
    ASSUME NEW S, NEW T, S \subseteq T, NEW q \in Seq(S)
    PROVE  q \in Seq(T)
<1>1. PICK n \in Nat : n = Len(q)
  OBVIOUS
<1>2. q \in [1 .. n -> T]
  BY <1>1
<1> QED  BY ONLY <1>2, Sequence

(* A first value and a step from each value to the next make a function.   *)
Steps(step, S) == \A x \in S, n \in Nat : step[<<x, n>>] \in S

Follows(g, base, step) == g[0] = base /\ \A n \in Nat : g[n + 1] = step[<<g[n], n>>]

(* There is a function that begins with the base and takes the steps.      *)
LEMMA Recursion ==
    ASSUME NEW S, NEW base \in S, NEW step, Steps(step, S)
    PROVE  \E g \in [Nat -> S] : Follows(g, base, step)
<1> DEFINE Good(k, e) == e[0] = base /\ \A i \in 0 .. k - 1 : e[i + 1] = step[<<e[i], i>>]
           Exists == {k \in Nat : \E e \in [0 .. k -> S] : Good(k, e)}
<1>1. 0 \in Exists
  <2>1. PICK e : e = [i \in 0 .. 0 |-> base]
    OBVIOUS
  <2>2. e \in [0 .. 0 -> S] /\ e[0] = base
    BY <2>1
  <2> QED  BY <2>2
<1>2. ASSUME NEW k \in Nat, k \in Exists PROVE k + 1 \in Exists
  <2>1. PICK d \in [0 .. k -> S] : Good(k, d)
    BY <1>2
  <2>2. PICK e : e = [i \in 0 .. k + 1 |-> IF i = k + 1 THEN step[<<d[k], k>>] ELSE d[i]]
    OBVIOUS
  <2>3. d[k] \in S /\ step[<<d[k], k>>] \in S
    BY DEF Steps
  <2>4. e \in [0 .. k + 1 -> S] /\ e[k + 1] = step[<<d[k], k>>] /\ \A i \in 0 .. k : e[i] = d[i]
    BY <2>2, <2>3
  <2>5. ASSUME NEW i \in 0 .. k PROVE e[i + 1] = step[<<e[i], i>>]
    <3>1. CASE i = k
      BY <2>4, <3>1
    <3>2. CASE i # k
      <4>1. i \in 0 .. k - 1 /\ i + 1 \in 0 .. k
        BY <3>2
      <4> QED  BY <2>1, <2>4, <4>1
    <3> QED  BY <3>1, <3>2
  <2>6. e[0] = base /\ (k + 1) - 1 = k
    BY <2>1, <2>4
  <2> QED  BY <2>4, <2>5, <2>6
<1>3. \A k \in Nat : \E e \in [0 .. k -> S] : Good(k, e)
  <2>1. \A k \in Nat : k \in Exists
    <3> HIDE DEF Exists
    <3> QED  BY <1>1, <1>2, Induction
  <2> QED  BY <2>1
<1> DEFINE Chosen(k) == CHOOSE e \in [0 .. k -> S] : Good(k, e)
<1>4. \A k \in Nat : Chosen(k) \in [0 .. k -> S] /\ Good(k, Chosen(k))
  BY <1>3
<1> DEFINE Same == {i \in Nat : \A k \in Nat, l \in Nat : i <= k /\ i <= l => Chosen(k)[i] = Chosen(l)[i]}
<1>5. 0 \in Same
  BY <1>4
<1>6. ASSUME NEW i \in Nat, i \in Same PROVE i + 1 \in Same
  <2> HIDE DEF Chosen
  <2> SUFFICES ASSUME NEW k \in Nat, NEW l \in Nat, i + 1 <= k, i + 1 <= l
               PROVE  Chosen(k)[i + 1] = Chosen(l)[i + 1]
    OBVIOUS
  <2>1. i \in 0 .. k - 1 /\ i \in 0 .. l - 1 /\ i <= k /\ i <= l
    OBVIOUS
  <2>2. Chosen(k)[i] = Chosen(l)[i]
    BY <1>6, <2>1
  <2>3. Chosen(k)[i + 1] = step[<<Chosen(k)[i], i>>] /\ Chosen(l)[i + 1] = step[<<Chosen(l)[i], i>>]
    BY <1>4, <2>1
  <2> QED  BY <2>2, <2>3
<1>7. \A i \in Nat : \A k \in Nat, l \in Nat : i <= k /\ i <= l => Chosen(k)[i] = Chosen(l)[i]
  <2>1. \A i \in Nat : i \in Same
    <3> HIDE DEF Same
    <3> QED  BY <1>5, <1>6, Induction
  <2> HIDE DEF Chosen
  <2> QED  BY <2>1
<1>8. PICK g : g = [n \in Nat |-> Chosen(n)[n]]
  OBVIOUS
<1>9. g \in [Nat -> S] /\ g[0] = base
  <2> HIDE DEF Chosen
  <2>1. \A n \in Nat : Chosen(n)[n] \in S
    BY <1>4
  <2> QED  BY <1>4, <1>8, <2>1
<1>10. ASSUME NEW n \in Nat PROVE g[n + 1] = step[<<g[n], n>>]
  <2> HIDE DEF Chosen
  <2>1. n + 1 \in Nat /\ n \in 0 .. (n + 1) - 1 /\ n <= n + 1 /\ n <= n
    OBVIOUS
  <2>2. Chosen(n + 1)[n + 1] = step[<<Chosen(n + 1)[n], n>>]
    BY <1>4, <2>1
  <2>3. Chosen(n + 1)[n] = Chosen(n)[n]
    BY <1>7, <2>1
  <2> QED  BY <1>8, <2>1, <2>2, <2>3
<1> QED  BY <1>9, <1>10 DEF Follows

-----------------------------------------------------------------------------
(* Powers of two satisfy their equations, and are positive.                *)
LEMMA PowersOfTwo ==
    /\ Pow2[0] = 1
    /\ \A n \in Nat : Pow2[n] \in Nat \ {0} /\ Pow2[n + 1] = 2 * Pow2[n]
<1>1. PICK step : step = [p \in Nat \X Nat |-> 2 * p[1]]
  OBVIOUS
<1>2. Steps(step, Nat)
  BY <1>1 DEF Steps
<1>3. PICK g \in [Nat -> Nat] : Follows(g, 1, step)
  <2>1. 1 \in Nat
    OBVIOUS
  <2> QED  BY ONLY <1>2, <2>1, Recursion, Zenon
<1>4. g[0] = 1 /\ \A n \in Nat : g[n + 1] = 2 * g[n]
  BY <1>1, <1>3 DEF Follows
<1>5. g = [n \in Nat |-> IF n = 0 THEN 1 ELSE 2 * g[n - 1]]
  <2>1. ASSUME NEW n \in Nat PROVE g[n] = IF n = 0 THEN 1 ELSE 2 * g[n - 1]
    <3>1. CASE n # 0
      <4>1. n - 1 \in Nat /\ (n - 1) + 1 = n
        BY <3>1
      <4> QED  BY <1>4, <3>1, <4>1
    <3> QED  BY <1>4, <3>1
  <2> QED  BY <2>1
<1>6. Pow2 = [n \in Nat |-> IF n = 0 THEN 1 ELSE 2 * Pow2[n - 1]]
  BY <1>5, Zenon DEF Pow2
<1>7. Pow2[0] = 1
  BY <1>6
<1>8. ASSUME NEW n \in Nat PROVE Pow2[n + 1] = 2 * Pow2[n]
  <2>1. n + 1 \in Nat /\ n + 1 # 0 /\ (n + 1) - 1 = n
    OBVIOUS
  <2> QED  BY <1>6, <2>1
<1> DEFINE Good == {n \in Nat : Pow2[n] \in Nat \ {0}}
<1>9. 0 \in Good
  BY <1>7
<1>10. ASSUME NEW n \in Nat, n \in Good PROVE n + 1 \in Good
  BY <1>8, <1>10
<1>11. \A n \in Nat : n \in Good
  <2> HIDE DEF Good
  <2> QED  BY <1>9, <1>10, Induction
<1> QED  BY <1>7, <1>8, <1>11

(* The power of a sum is the product of the powers.                        *)
LEMMA PowerOfSum ==
    ASSUME NEW m \in Nat, NEW n \in Nat
    PROVE  Pow2[m + n] = Pow2[m] * Pow2[n]
<1> DEFINE Good == {k \in Nat : Pow2[m + k] = Pow2[m] * Pow2[k]}
<1>1. 0 \in Good
  BY PowersOfTwo
<1>2. ASSUME NEW k \in Nat, k \in Good PROVE k + 1 \in Good
  <2>1. PICK a \in Nat, b \in Nat, c \in Nat : a = Pow2[m] /\ b = Pow2[k] /\ c = Pow2[m + k]
    <3>1. k \in Nat /\ m + k \in Nat
      OBVIOUS
    <3>2. Pow2[m] \in Nat /\ Pow2[k] \in Nat /\ Pow2[m + k] \in Nat
      BY <3>1, PowersOfTwo
    <3> QED  BY <3>2
  <2>2. Pow2[k + 1] = 2 * b /\ Pow2[m + (k + 1)] = 2 * c
    <3>1. m + k \in Nat /\ m + (k + 1) = (m + k) + 1
      OBVIOUS
    <3> QED  BY <2>1, <3>1, PowersOfTwo
  <2>3. c = a * b
    BY <1>2, <2>1
  <2>4. 2 * c = a * (2 * b)
    BY <2>3
  <2> QED  BY <2>1, <2>2, <2>4
<1>3. \A k \in Nat : k \in Good
  <2> HIDE DEF Good
  <2> QED  BY <1>1, <1>2, Induction
<1> QED  BY <1>3

(* A byte has at least two values, and one byte more holds Base times as   *)
(* many numbers.                                                           *)
LEMMA Spans ==
    /\ Base \in Nat /\ Base >= 2
    /\ Span(0) = 1 /\ Span(1) = Base
    /\ \A n \in Nat : Span(n) \in Nat \ {0} /\ Span(n + 1) = Base * Span(n)
<1>1. PICK b \in Nat \ {0} : b = Bits
  BY WidthAssumption
<1>2. Base \in Nat /\ Base >= 2
  <2>1. PICK c \in Nat : c = b - 1 /\ b = c + 1
    <3>1. b - 1 \in Nat /\ b = (b - 1) + 1
      OBVIOUS
    <3> QED  BY <3>1
  <2>2. Pow2[c] \in Nat \ {0} /\ Pow2[b] = 2 * Pow2[c]
    BY <2>1, PowersOfTwo
  <2> QED  BY <1>1, <2>2 DEF Base
<1>3. Span(0) = 1 /\ Span(1) = Base
  <2>1. b * 0 = 0 /\ b * 1 = b
    OBVIOUS
  <2> QED  BY <1>1, <2>1, PowersOfTwo DEF Span, Base
<1>4. ASSUME NEW n \in Nat PROVE Span(n) \in Nat \ {0} /\ Span(n + 1) = Base * Span(n)
  <2>1. PICK m \in Nat : m = b * n
    OBVIOUS
  <2>2. b * (n + 1) = b + m
    BY <2>1
  <2>3. Pow2[b + m] = Pow2[b] * Pow2[m]
    BY PowerOfSum
  <2> QED  BY <1>1, <2>1, <2>2, <2>3, PowersOfTwo DEF Span, Base
<1> QED  BY <1>2, <1>3, <1>4

(* A recursive function on the numbers up to n satisfies its equation.     *)
Satisfies(g, n, base, step) ==
    g = [i \in 0 .. n |-> IF i = 0 THEN base ELSE step[<<g[i - 1], i - 1>>]]

(* There is such a function for every base and step that stay in a set.    *)
LEMMA RecursionUpTo ==
    ASSUME NEW S, NEW base \in S, NEW step, Steps(step, S), NEW n \in Nat
    PROVE  \E g \in [0 .. n -> S] : Satisfies(g, n, base, step)
<1>1. PICK h \in [Nat -> S] : Follows(h, base, step)
  BY Recursion
<1>2. PICK g : g = [i \in 0 .. n |-> h[i]]
  OBVIOUS
<1>3. g \in [0 .. n -> S]
  BY <1>2
<1>4. ASSUME NEW i \in 0 .. n PROVE g[i] = IF i = 0 THEN base ELSE step[<<g[i - 1], i - 1>>]
  <2>1. CASE i = 0
    BY <1>1, <1>2, <2>1 DEF Follows
  <2>2. CASE i # 0
    <3>1. PICK j \in Nat : j = i - 1
      <4>1. i - 1 \in Nat
        BY <2>2
      <4> QED  BY <4>1
    <3>2. j + 1 = i /\ j \in 0 .. n
      BY <3>1
    <3>3. g[j] = h[j] /\ g[i] = h[i]
      BY <1>2, <3>2
    <3>4. h[j + 1] = step[<<h[j], j>>]
      BY <1>1 DEF Follows
    <3> QED  BY <2>2, <3>1, <3>2, <3>3, <3>4
  <2> QED  BY <2>1, <2>2
<1>5. g = [i \in 0 .. n |-> IF i = 0 THEN base ELSE step[<<g[i - 1], i - 1>>]]
  BY <1>2, <1>4
<1> QED  BY <1>3, <1>5 DEF Satisfies

-----------------------------------------------------------------------------
(* A quotient and a remainder that fit are the quotient and the remainder. *)
LEMMA Remainder ==
    ASSUME NEW a \in Int, NEW b \in Nat \ {0}, NEW q \in Int, NEW r \in 0 .. b - 1, a = b * q + r
    PROVE  a \div b = q /\ (a % b) = r
OBVIOUS

(* Products of three numbers, and products with a sum.                     *)
LEMMA Products ==
    ASSUME NEW a \in Int, NEW b \in Int, NEW c \in Int
    PROVE  a * (b * c) = (a * b) * c /\ a * (b + c) = a * b + a * c /\ a * b \in Int
OBVIOUS

(* The remainder by a product, from the remainders by its factors.         *)
LEMMA RemainderOfProduct ==
    ASSUME NEW k \in Int, NEW p \in Nat \ {0}, NEW b \in Nat \ {0}
    PROVE  (k % (p * b)) = (k % p) + p * ((k \div p) % b)
<1>1. PICK q \in Int, r \in 0 .. p - 1 : q = k \div p /\ r = (k % p) /\ k = p * q + r
  OBVIOUS
<1>2. PICK u \in Int, v \in 0 .. b - 1 : u = q \div b /\ v = (q % b) /\ q = b * u + v
  OBVIOUS
<1>3. PICK w \in Int : w = p * v
  OBVIOUS
<1>4. 0 <= w /\ w <= p * b - p
  <2>1. v <= b - 1 /\ 0 <= v
    BY <1>2
  <2>2. p * v <= p * (b - 1) /\ 0 <= p * v
    BY <2>1
  <2> QED  BY <1>3, <2>2
<1>5. PICK m \in Nat \ {0} : m = p * b
  OBVIOUS
<1>6. r + w \in 0 .. m - 1
  BY <1>1, <1>3, <1>4, <1>5
<1>7. k = m * u + (r + w)
  <2>1. PICK x \in Int : x = b * u
    OBVIOUS
  <2>2. PICK y \in Int, z \in Int : y = p * x /\ z = p * q
    OBVIOUS
  <2>3. z = y + w
    BY <1>2, <1>3, <2>1, <2>2, Products
  <2>4. y = m * u
    BY <1>5, <2>1, <2>2, Products
  <2> QED  BY <1>1, <2>2, <2>3, <2>4
<1>8. (k % m) = r + w
  BY <1>6, <1>7, Remainder
<1> QED  BY <1>1, <1>2, <1>3, <1>5, <1>8

(* The sum that FromBytes makes of a sequence of bytes.                    *)
LEMMA FromBytesSums ==
    ASSUME NEW s \in Seq(Int)
    PROVE  \E g \in [0 .. Len(s) -> Int] :
              /\ g[0] = 0 /\ \A i \in 1 .. Len(s) : g[i] = g[i - 1] + s[i] * Span(i - 1)
              /\ FromBytes(s) = g[Len(s)]
<1>1. PICK n \in Nat : n = Len(s)
  OBVIOUS
<1>2. PICK step : step = [p \in Int \X Nat |->
                            IF p[2] + 1 \in 1 .. n THEN p[1] + s[p[2] + 1] * Span(p[2]) ELSE 0]
  OBVIOUS
<1>3. Steps(step, Int)
  <2> SUFFICES ASSUME NEW x \in Int, NEW i \in Nat PROVE step[<<x, i>>] \in Int
    BY DEF Steps
  <2>1. Span(i) \in Int
    BY Spans
  <2>2. step[<<x, i>>] = IF i + 1 \in 1 .. n THEN x + s[i + 1] * Span(i) ELSE 0
    BY <1>2
  <2>3. i + 1 \in 1 .. n => s[i + 1] \in Int
    BY <1>1
  <2> QED  BY <2>1, <2>2, <2>3
<1>4. PICK h \in [0 .. n -> Int] : Satisfies(h, n, 0, step)
  <2>1. 0 \in Int /\ n \in Nat
    BY <1>1
  <2> QED  BY ONLY <1>3, <2>1, RecursionUpTo, Zenon
<1>5. ASSUME NEW i \in 0 .. n PROVE h[i] = IF i = 0 THEN 0 ELSE h[i - 1] + s[i] * Span(i - 1)
  <2> USE DEF Satisfies
  <2>1. CASE i # 0
    <3>1. PICK j \in 0 .. n : j = i - 1 /\ j + 1 = i
      <4>1. i - 1 \in 0 .. n /\ (i - 1) + 1 = i
        BY <2>1
      <4> QED  BY <4>1
    <3>2. h[j] \in Int /\ j \in Nat
      BY <1>4
    <3>3. step[<<h[j], j>>] = h[j] + s[i] * Span(j)
      BY <1>2, <3>1, <3>2
    <3> QED  BY <1>4, <2>1, <3>1, <3>3
  <2> QED  BY <1>4, <2>1
<1>6. h = [i \in 0 .. Len(s) |-> IF i = 0 THEN 0 ELSE h[i - 1] + s[i] * Span(i - 1)]
  BY <1>1, <1>4, <1>5 DEF Satisfies
<1>7. \E g : /\ g = [i \in 0 .. Len(s) |-> IF i = 0 THEN 0 ELSE g[i - 1] + s[i] * Span(i - 1)]
             /\ FromBytes(s) = g[Len(s)]
  BY ONLY <1>6, Zenon DEF FromBytes
<1>8. PICK g : /\ g = [i \in 0 .. n |-> IF i = 0 THEN 0 ELSE g[i - 1] + s[i] * Span(i - 1)]
               /\ FromBytes(s) = g[n]
  BY <1>1, <1>7
<1>9. g[0] = 0
  BY <1>8
<1>10. ASSUME NEW i \in 1 .. n PROVE g[i] = g[i - 1] + s[i] * Span(i - 1)
  <2>1. i \in 0 .. n /\ i # 0
    OBVIOUS
  <2> QED  BY <1>8, <2>1
<1> DEFINE Good == {i \in Nat : i <= n => g[i] \in Int}
<1>11. 0 \in Good
  BY <1>9
<1>12. ASSUME NEW i \in Nat, i \in Good PROVE i + 1 \in Good
  <2> SUFFICES ASSUME i + 1 <= n PROVE g[i + 1] \in Int
    OBVIOUS
  <2>1. g[i] \in Int
    BY <1>12
  <2>2. i + 1 \in 1 .. n /\ (i + 1) - 1 = i
    OBVIOUS
  <2>3. s[i + 1] \in Int /\ Span(i) \in Int
    BY <1>1, <2>2, Spans
  <2>4. g[i + 1] = g[i] + s[i + 1] * Span(i)
    BY <1>10, <2>2
  <2> QED  BY <2>1, <2>3, <2>4
<1>13. \A i \in Nat : i \in Good
  <2> HIDE DEF Good
  <2> QED  BY <1>11, <1>12, Induction
<1>14. g \in [0 .. n -> Int]
  <2>1. \A i \in 0 .. n : g[i] \in Int
    BY <1>13
  <2> QED  BY <1>8, <2>1
<1> QED  BY <1>1, <1>8, <1>9, <1>10, <1>14

(* The bytes of a number, lowest first, are as many as asked for.          *)
LEMMA BytesOfNumber ==
    ASSUME NEW k \in Int, NEW n \in Nat
    PROVE  /\ ToBytes(k, n) \in Seq(0 .. Base - 1) /\ Len(ToBytes(k, n)) = n
           /\ \A i \in 1 .. n : ToBytes(k, n)[i] = ((k \div Span(i - 1)) % Base)
<1>1. PICK t : t = ToBytes(k, n)
  OBVIOUS
<1>2. t = [i \in 1 .. n |-> (k \div Span(i - 1)) % Base]
  BY <1>1 DEF ToBytes
<1>3. ASSUME NEW i \in 1 .. n PROVE t[i] \in 0 .. Base - 1
  <2>1. PICK j \in Nat : j = i - 1
    <3>1. i - 1 \in Nat
      OBVIOUS
    <3> QED  BY <3>1
  <2>2. PICK p \in Nat \ {0}, b \in Nat \ {0} : p = Span(j) /\ b = Base
    BY Spans
  <2>3. ((k \div p) % b) \in 0 .. b - 1
    OBVIOUS
  <2> QED  BY <1>2, <2>1, <2>2, <2>3
<1>4. t \in [1 .. n -> 0 .. Base - 1]
  BY <1>2, <1>3
<1>5. t \in Seq(0 .. Base - 1) /\ Len(t) = n
  BY ONLY <1>4, n \in Nat, Sequence
<1> QED  BY <1>1, <1>2, <1>5

(* Reading the bytes of a number gives the number, without what does not   *)
(* fit.                                                                    *)
LEMMA NumberOfBytes ==
    ASSUME NEW k \in Int, NEW n \in Nat
    PROVE  FromBytes(ToBytes(k, n)) = (k % Span(n))
<1>1. PICK t \in Seq(Int) : t = ToBytes(k, n) /\ Len(t) = n
  <2>1. ToBytes(k, n) \in Seq(0 .. Base - 1) /\ Len(ToBytes(k, n)) = n
    BY BytesOfNumber
  <2>2. 0 .. Base - 1 \subseteq Int
    BY Spans
  <2>3. ToBytes(k, n) \in Seq(Int)
    BY ONLY <2>1, <2>2, LargerSet
  <2> QED  BY <2>1, <2>3
<1>2. PICK g \in [0 .. n -> Int] :
          /\ g[0] = 0 /\ \A i \in 1 .. n : g[i] = g[i - 1] + t[i] * Span(i - 1)
          /\ FromBytes(t) = g[n]
  BY <1>1, FromBytesSums
<1> DEFINE Good == {i \in Nat : i <= n => g[i] = (k % Span(i))}
<1>3. 0 \in Good
  <2>1. (k % 1) = 0
    OBVIOUS
  <2> QED  BY <1>2, <2>1, Spans
<1>4. ASSUME NEW i \in Nat, i \in Good PROVE i + 1 \in Good
  <2> SUFFICES ASSUME i + 1 <= n PROVE g[i + 1] = (k % Span(i + 1))
    OBVIOUS
  <2>1. i + 1 \in 1 .. n /\ (i + 1) - 1 = i /\ i <= n
    OBVIOUS
  <2>2. PICK p \in Nat \ {0}, b \in Nat \ {0} : p = Span(i) /\ b = Base /\ Span(i + 1) = b * p
    BY Spans
  <2>3. PICK d \in 0 .. b - 1 : d = ((k \div p) % b)
    <3>1. ((k \div p) % b) \in 0 .. b - 1
      OBVIOUS
    <3> QED  BY <3>1
  <2>4. t[i + 1] = d
    BY <1>1, <2>1, <2>2, <2>3, BytesOfNumber
  <2>5. g[i + 1] = g[i] + d * p
    BY <1>2, <2>1, <2>2, <2>4
  <2>6. g[i] = (k % p)
    BY <1>4, <2>1, <2>2
  <2>7. (k % (p * b)) = (k % p) + p * d
    BY <2>3, RemainderOfProduct
  <2>8. p * b = b * p /\ p * d = d * p
    OBVIOUS
  <2> QED  BY <2>2, <2>5, <2>6, <2>7, <2>8
<1>5. g[n] = (k % Span(n))
  <2>1. n \in Good
    <3> HIDE DEF Good
    <3>1. \A i \in Nat : i \in Good
      BY <1>3, <1>4, Induction
    <3> QED  BY <3>1
  <2> QED  BY <2>1
<1> QED  BY <1>1, <1>2, <1>5

(* An unsigned number that fits is read back.                              *)
LEMMA UnsignedBack ==
    ASSUME NEW n \in Nat, NEW k \in 0 .. Span(n) - 1
    PROVE  FromBytes(ToBytes(k, n)) = k
<1>1. PICK p \in Nat \ {0} : p = Span(n)
  BY Spans
<1>2. k \in Int /\ k \in 0 .. p - 1 /\ k = p * 0 + k
  BY <1>1
<1>3. (k % p) = k
  BY <1>2, Remainder
<1> QED  BY <1>1, <1>2, <1>3, NumberOfBytes

(* Half of the numbers of n bytes are an integer.                          *)
LEMMA EvenSpan ==
    ASSUME NEW n \in Nat \ {0}
    PROVE  \E h \in Nat \ {0} : Span(n) = 2 * h /\ Span(n) \div 2 = h
<1>1. PICK b \in Nat \ {0} : b = Bits
  BY WidthAssumption
<1>2. PICK m \in Nat : b * n = m + 1
  <2>1. b * n >= 1
    OBVIOUS
  <2>2. b * n - 1 \in Nat /\ b * n = (b * n - 1) + 1
    BY <2>1
  <2> QED  BY <2>2
<1>3. PICK h \in Nat \ {0} : h = Pow2[m]
  BY PowersOfTwo
<1>4. Span(n) = 2 * h
  BY <1>1, <1>2, <1>3, PowersOfTwo DEF Span
<1>5. (2 * h) \div 2 = h
  OBVIOUS
<1> QED  BY <1>4, <1>5

(* A signed number that fits is read back.                                 *)
LEMMA SignedBack ==
    ASSUME NEW n \in Nat \ {0}, NEW k \in -(Span(n) \div 2) .. Span(n) \div 2 - 1
    PROVE  FromBytesSigned(ToBytes(k, n)) = k
<1>1. PICK h \in Nat \ {0} : Span(n) = 2 * h /\ Span(n) \div 2 = h
  BY EvenSpan
<1>2. k \in Int /\ k >= -h /\ k <= h - 1
  BY <1>1
<1>3. Len(ToBytes(k, n)) = n /\ FromBytes(ToBytes(k, n)) = (k % (2 * h))
  BY <1>1, <1>2, BytesOfNumber, NumberOfBytes
<1>4. CASE k >= 0
  <2>1. k \in 0 .. 2 * h - 1 /\ k = (2 * h) * 0 + k
    BY <1>2, <1>4
  <2>2. (k % (2 * h)) = k
    BY <2>1, Remainder
  <2> QED  BY <1>1, <1>2, <1>3, <2>2 DEF FromBytesSigned
<1>5. CASE k < 0
  <2> DEFINE m == 2 * h
  <2>1. m \in Nat \ {0} /\ k + m \in 0 .. m - 1 /\ k = m * (-1) + (k + m) /\ -1 \in Int
    BY <1>2, <1>5
  <2>2. (k % m) = k + m
    <3> HIDE DEF m
    <3> QED  BY ONLY <1>2, <2>1, Remainder
  <2>3. 2 * (k + 2 * h) >= 2 * h
    BY <1>2
  <2> QED  BY <1>1, <1>2, <1>3, <2>2, <2>3 DEF FromBytesSigned
<1> QED  BY <1>2, <1>4, <1>5

(* Sequences of bytes, and how they are put together.                      *)
ByteValues == 0 .. Base - 1

(* What is put together is a sequence, as long as its two parts.           *)
LEMMA Joined ==
    ASSUME NEW S, NEW a \in Seq(S), NEW b \in Seq(S)
    PROVE  /\ a \o b \in Seq(S) /\ Len(a \o b) = Len(a) + Len(b)
           /\ \A i \in 1 .. Len(a) : (a \o b)[i] = a[i]
           /\ \A i \in 1 .. Len(b) : (a \o b)[Len(a) + i] = b[i]
OBVIOUS

(* The order in which sequences are put together does not matter.          *)
LEMMA JoinedThree ==
    ASSUME NEW S, NEW a \in Seq(S), NEW b \in Seq(S), NEW c \in Seq(S)
    PROVE  (a \o b) \o c = a \o (b \o c)
OBVIOUS

(* Nothing added changes nothing.                                          *)
LEMMA JoinedEmpty ==
    ASSUME NEW S, NEW a \in Seq(S)
    PROVE  <<>> \o a = a /\ a \o <<>> = a /\ <<>> \in Seq(S) /\ Len(<<>>) = 0
OBVIOUS

(* A part of a sequence is found where the parts before it end.            *)
LEMMA Piece ==
    ASSUME NEW S, NEW a \in Seq(S), NEW b \in Seq(S), NEW c \in Seq(S), NEW raw, raw = a \o (b \o c),
           NEW k \in Nat, NEW l \in Nat, k = Len(a) + 1, l = Len(a) + Len(b)
    PROVE  SubSeq(raw, k, l) = b
<1>1. PICK m \in Nat, n \in Nat, o \in Nat : m = Len(a) /\ n = Len(b) /\ o = Len(c)
  OBVIOUS
<1>2. PICK d \in Seq(S) : d = b \o c /\ Len(d) = n + o /\ \A i \in 1 .. n : d[i] = b[i]
  <2>1. /\ b \o c \in Seq(S) /\ Len(b \o c) = Len(b) + Len(c)
        /\ \A i \in 1 .. Len(b) : (b \o c)[i] = b[i]
    BY ONLY b \in Seq(S), c \in Seq(S), Joined
  <2> QED  BY <1>1, <2>1
<1>3. raw \in Seq(S) /\ Len(raw) = m + (n + o) /\ \A i \in 1 .. n + o : raw[m + i] = d[i]
  <2>1. /\ a \o d \in Seq(S) /\ Len(a \o d) = Len(a) + Len(d)
        /\ \A i \in 1 .. Len(d) : (a \o d)[Len(a) + i] = d[i]
    BY ONLY a \in Seq(S), d \in Seq(S), Joined
  <2> QED  BY <1>1, <1>2, <2>1
<1>4. PICK t : t = SubSeq(raw, k, l)
  OBVIOUS
<1>5. k = m + 1 /\ l = m + n
  BY <1>1
<1>6. t \in Seq(S) /\ Len(t) = n /\ \A i \in 1 .. n : t[i] = raw[m + i]
  <2>1. k \in 1 .. Len(raw) + 1 /\ l \in k - 1 .. Len(raw)
    BY <1>3, <1>5
  <2>2. /\ SubSeq(raw, k, l) \in Seq(S)
        /\ Len(SubSeq(raw, k, l)) = l - k + 1
        /\ \A i \in 1 .. l - k + 1 : SubSeq(raw, k, l)[i] = raw[k + i - 1]
    BY ONLY <1>3, <2>1, SubSeqProperties
  <2>3. l - k + 1 = n
    BY ONLY <1>5, k \in Nat, l \in Nat, m \in Nat, n \in Nat
  <2>4. \A i \in 1 .. n : k + i - 1 = m + i
    BY ONLY <1>5, m \in Nat, n \in Nat
  <2> QED  BY ONLY <1>4, <2>2, <2>3, <2>4
<1>7. ASSUME NEW i \in 1 .. n PROVE t[i] = b[i]
  <2>1. i \in 1 .. n + o
    OBVIOUS
  <2> QED  BY ONLY <1>2, <1>3, <1>6, <2>1, i \in 1 .. n
<1>8. t = b
  BY ONLY <1>1, <1>6, <1>7, b \in Seq(S), SeqEqual
<1> QED  BY <1>4, <1>8

-----------------------------------------------------------------------------
(* The numbers of two bytes.                                               *)
LEMMA Words == Word \in Nat /\ Word >= 4 /\ Word = Base * Base
<1>1. PICK b \in Nat : b = Base /\ b >= 2
  BY Spans
<1>2. Span(2) = b * b
  <2>1. 1 \in Nat /\ 1 + 1 = 2
    OBVIOUS
  <2>2. Span(1 + 1) = Base * Span(1)
    BY ONLY <2>1, Spans
  <2> QED  BY <1>1, <2>1, <2>2, Spans
<1>3. b * b >= 2 * b
  BY <1>1
<1> QED  BY <1>1, <1>2, <1>3 DEF Word

(* A number below 64 KiB in two bytes is read back wherever they are.      *)
LEMMA WordBack ==
    ASSUME NEW n \in 0 .. Word - 1
    PROVE  /\ WordBytes(n) \in Seq(ByteValues) /\ Len(WordBytes(n)) = 2
           /\ FromBytes(WordBytes(n)) = n
<1>1. n \in Int /\ 2 \in Nat /\ n \in 0 .. Span(2) - 1
  BY Words DEF Word
<1>2. /\ ToBytes(n, 2) \in Seq(0 .. Base - 1) /\ Len(ToBytes(n, 2)) = 2
  BY <1>1, BytesOfNumber
<1>3. FromBytes(ToBytes(n, 2)) = n
  BY <1>1, UnsignedBack
<1> QED  BY <1>2, <1>3 DEF WordBytes, ByteValues

(* A word is read where it was written.                                    *)
LEMMA WordFound ==
    ASSUME NEW n \in 0 .. Word - 1, NEW a \in Seq(ByteValues), NEW c \in Seq(ByteValues),
           NEW raw, raw = a \o (WordBytes(n) \o c)
    PROVE  WordAt(raw, Len(a)) = n
<1>1. PICK b \in Seq(ByteValues) : b = WordBytes(n) /\ Len(b) = 2 /\ FromBytes(b) = n
  BY WordBack
<1>2. PICK k \in Nat, l \in Nat : k = Len(a) + 1 /\ l = Len(a) + 2
  <2>1. Len(a) + 1 \in Nat /\ Len(a) + 2 \in Nat
    OBVIOUS
  <2> QED  BY <2>1
<1>3. k = Len(a) + 1 /\ l = Len(a) + Len(b) /\ raw = a \o (b \o c)
  BY <1>1, <1>2
<1>4. SubSeq(raw, k, l) = b
  BY <1>3, Piece
<1> QED  BY <1>1, <1>2, <1>4 DEF WordAt

-----------------------------------------------------------------------------
(* The sequences of q put together, one after the other.                   *)
Joins(p, q, S) ==
    /\ p \in [0 .. Len(q) -> Seq(S)] /\ p[0] = <<>>
    /\ \A i \in 1 .. Len(q) : p[i] = p[i - 1] \o q[i]

(* Every sequence of sequences can be put together.                        *)
LEMMA JoinExists ==
    ASSUME NEW S, NEW q \in Seq(Seq(S))
    PROVE  \E p : Joins(p, q, S)
<1>1. PICK n \in Nat : n = Len(q)
  OBVIOUS
<1>2. PICK T : T = Seq(S)
  OBVIOUS
<1>3. PICK step : step = [x \in T \X Nat |-> IF x[2] + 1 \in 1 .. n THEN x[1] \o q[x[2] + 1] ELSE <<>>]
  OBVIOUS
<1>4. Steps(step, T)
  <2> SUFFICES ASSUME NEW x \in T, NEW i \in Nat PROVE step[<<x, i>>] \in T
    BY DEF Steps
  <2>1. step[<<x, i>>] = IF i + 1 \in 1 .. n THEN x \o q[i + 1] ELSE <<>>
    BY <1>3
  <2>2. i + 1 \in 1 .. n => x \o q[i + 1] \in Seq(S)
    <3>1. i + 1 \in 1 .. n => q[i + 1] \in Seq(S)
      BY <1>1
    <3> QED  BY <1>2, <3>1
  <2> QED  BY <1>2, <2>1, <2>2
<1>5. PICK p \in [0 .. n -> T] : Satisfies(p, n, <<>>, step)
  <2>1. <<>> \in T
    BY <1>2
  <2> QED  BY ONLY <1>1, <1>4, <2>1, RecursionUpTo, Zenon
<1>6. p[0] = <<>>
  BY <1>5 DEF Satisfies
<1>7. ASSUME NEW i \in 1 .. n PROVE p[i] = p[i - 1] \o q[i]
  <2>1. PICK j \in 0 .. n : j = i - 1 /\ j + 1 = i
    <3>1. i - 1 \in 0 .. n /\ (i - 1) + 1 = i
      OBVIOUS
    <3> QED  BY <3>1
  <2>2. p[j] \in T /\ j \in Nat
    OBVIOUS
  <2>3. step[<<p[j], j>>] = p[j] \o q[i]
    BY <1>3, <2>1, <2>2
  <2>4. p[i] = step[<<p[j], j>>]
    <3>1. i \in 0 .. n /\ i # 0
      OBVIOUS
    <3> QED  BY <1>5, <2>1, <3>1 DEF Satisfies
  <2> QED  BY <2>1, <2>3, <2>4
<1>8. Joins(p, q, S)
  BY <1>1, <1>2, <1>5, <1>6, <1>7 DEF Joins
<1> QED  BY <1>8

(* FlattenSeq puts the sequences together.                                 *)
LEMMA FlattenJoins ==
    ASSUME NEW S, NEW q \in Seq(Seq(S)), NEW p, Joins(p, q, S)
    PROVE  FlattenSeq(q) = p[Len(q)]
<1>1. PICK n \in Nat : n = Len(q)
  OBVIOUS
<1>2. CASE n = 0
  <2>1. q = <<>>
    BY ONLY <1>1, <1>2, q \in Seq(Seq(S)), EmptySeq
  <2>2. FlattenSeq(q) = q
    BY <1>1, <1>2 DEF FlattenSeq
  <2> QED  BY <1>1, <1>2, <2>1, <2>2 DEF Joins
<1>3. CASE n # 0
  <2>1. PICK h : h = [i \in 1 .. n |-> p[i]]
    OBVIOUS
  <2>2. p[1] = q[1]
    <3>1. 1 \in 1 .. n /\ 1 - 1 = 0
      BY <1>3
    <3>2. p[1] = <<>> \o q[1]
      BY <1>1, <3>1 DEF Joins
    <3>3. q[1] \in Seq(S)
      BY <1>1, <3>1
    <3> QED  BY ONLY <3>2, <3>3, JoinedEmpty
  <2>3. ASSUME NEW i \in 1 .. n PROVE h[i] = IF i = 1 THEN q[i] ELSE h[i - 1] \o q[i]
    <3>1. CASE i = 1
      BY <2>1, <2>2, <3>1
    <3>2. CASE i # 1
      <4>1. i - 1 \in 1 .. n
        BY <3>2
      <4>2. p[i] = p[i - 1] \o q[i]
        BY <1>1 DEF Joins
      <4> QED  BY <2>1, <3>2, <4>1, <4>2
    <3> QED  BY <3>1, <3>2
  <2>4. h = [i \in 1 .. Len(q) |-> IF i = 1 THEN q[i] ELSE h[i - 1] \o q[i]]
    BY <1>1, <2>1, <2>3
  <2>5. Len(q) # 0
    BY <1>1, <1>3
  <2>6. \E g : /\ g = [i \in 1 .. Len(q) |-> IF i = 1 THEN q[i] ELSE g[i - 1] \o q[i]]
               /\ FlattenSeq(q) = g[Len(q)]
    BY ONLY <2>4, <2>5, Zenon DEF FlattenSeq
  <2>7. PICK g : /\ g = [i \in 1 .. n |-> IF i = 1 THEN q[i] ELSE g[i - 1] \o q[i]]
                 /\ FlattenSeq(q) = g[n]
    BY <1>1, <2>6
  <2> DEFINE Good == {i \in Nat : i + 1 <= n => g[i + 1] = p[i + 1]}
  <2>8. 0 \in Good
    BY <1>3, <2>2, <2>7
  <2>9. ASSUME NEW i \in Nat, i \in Good PROVE i + 1 \in Good
    <3> SUFFICES ASSUME (i + 1) + 1 <= n PROVE g[(i + 1) + 1] = p[(i + 1) + 1]
      OBVIOUS
    <3>1. PICK j \in 1 .. n : j = (i + 1) + 1 /\ j # 1 /\ j - 1 = i + 1
      <4>1. /\ (i + 1) + 1 \in 1 .. n /\ (i + 1) + 1 # 1 /\ ((i + 1) + 1) - 1 = i + 1
        OBVIOUS
      <4> QED  BY <4>1
    <3>2. g[i + 1] = p[i + 1]
      BY <2>9
    <3>3. g[j] = g[i + 1] \o q[j]
      BY <2>7, <3>1
    <3>4. p[j] = p[i + 1] \o q[j]
      BY <1>1, <3>1 DEF Joins
    <3> QED  BY <3>1, <3>2, <3>3, <3>4
  <2>10. \A i \in Nat : i \in Good
    <3> HIDE DEF Good
    <3> QED  BY <2>8, <2>9, Induction
  <2>11. g[n] = p[n]
    <3>1. PICK m \in Nat : m + 1 = n
      <4>1. n - 1 \in Nat /\ (n - 1) + 1 = n
        BY <1>3
      <4> QED  BY <4>1
    <3>2. m + 1 <= n => g[m + 1] = p[m + 1]
      BY <2>10
    <3> QED  BY <3>1, <3>2
  <2> QED  BY <1>1, <2>7, <2>11
<1> QED  BY <1>2, <1>3

(* What is put together up to i begins everything that goes further.       *)
Begins(s, t, S) == \E r \in Seq(S) : t = s \o r

(* What is put together up to i is a beginning of what is put together     *)
(* up to any j that is not less.                                           *)
LEMMA JoinPrefix ==
    ASSUME NEW S, NEW q \in Seq(Seq(S)), NEW p, Joins(p, q, S)
    PROVE  \A i \in 0 .. Len(q), j \in 0 .. Len(q) : i <= j => Begins(p[i], p[j], S)
<1> SUFFICES ASSUME NEW i \in 0 .. Len(q), NEW j \in 0 .. Len(q), i <= j
             PROVE  \E r \in Seq(S) : p[j] = p[i] \o r
  BY DEF Begins
<1>1. PICK n \in Nat : n = Len(q)
  OBVIOUS
<1>2. \A k \in 0 .. n : p[k] \in Seq(S)
  BY <1>1 DEF Joins
<1> DEFINE Good == {k \in Nat : i + k <= n => \E r \in Seq(S) : p[i + k] = p[i] \o r}
<1>3. 0 \in Good
  <2>1. p[i] \in Seq(S) /\ i + 0 = i
    BY <1>1, <1>2
  <2>2. p[i] = p[i] \o <<>> /\ <<>> \in Seq(S)
    BY ONLY <2>1, JoinedEmpty
  <2> QED  BY <2>1, <2>2
<1>4. ASSUME NEW k \in Nat, k \in Good PROVE k + 1 \in Good
  <2> SUFFICES ASSUME i + (k + 1) <= n PROVE \E r \in Seq(S) : p[i + (k + 1)] = p[i] \o r
    OBVIOUS
  <2>1. PICK r \in Seq(S) : p[i + k] = p[i] \o r
    <3>1. i + k <= n
      BY <1>1
    <3> QED  BY <1>4, <3>1
  <2>2. PICK l \in 1 .. n : l = i + (k + 1) /\ l - 1 = i + k
    <3>1. i + (k + 1) \in 1 .. n /\ (i + (k + 1)) - 1 = i + k
      BY <1>1
    <3> QED  BY <3>1
  <2>3. p[l] = p[i + k] \o q[l] /\ q[l] \in Seq(S)
    <3>1. p[l] = p[l - 1] \o q[l]
      BY <1>1 DEF Joins
    <3>2. q[l] \in Seq(S)
      BY <1>1
    <3> QED  BY <2>2, <3>1, <3>2
  <2>4. p[i] \in Seq(S)
    BY <1>1, <1>2
  <2>5. p[l] = p[i] \o (r \o q[l])
    <3>1. (p[i] \o r) \o q[l] = p[i] \o (r \o q[l])
      <4>1. PICK a \in Seq(S), b \in Seq(S) : a = p[i] /\ b = q[l]
        BY <2>3, <2>4
      <4>2. (a \o r) \o b = a \o (r \o b)
        BY ONLY a \in Seq(S), r \in Seq(S), b \in Seq(S), JoinedThree
      <4> QED  BY <4>1, <4>2
    <3> QED  BY <2>1, <2>3, <3>1
  <2>6. r \o q[l] \in Seq(S)
    BY <2>3, Joined
  <2> QED  BY <2>2, <2>5, <2>6
<1>5. \A k \in Nat : k \in Good
  <2> HIDE DEF Good
  <2> QED  BY <1>3, <1>4, Induction
<1>6. j - i \in Nat /\ i + (j - i) = j /\ j <= n
  BY <1>1
<1> QED  BY <1>5, <1>6


(* The sequences of q put together behind h.                               *)
Grown(a, h, q, S) ==
    /\ a \in [0 .. Len(q) -> Seq(S)] /\ a[0] = h
    /\ \A i \in 1 .. Len(q) : a[i] = a[i - 1] \o q[i]
    /\ a[Len(q)] = h \o FlattenSeq(q)
    /\ \A i \in 0 .. Len(q) : \E r \in Seq(S) : a[Len(q)] = a[i] \o r

(* There are such sequences, and every one begins the last.                *)
LEMMA GrownExists ==
    ASSUME NEW S, NEW h \in Seq(S), NEW q \in Seq(Seq(S))
    PROVE  \E a : Grown(a, h, q, S)
<1>7. PICK n \in Nat : n = Len(q)
  OBVIOUS
<1>8. PICK p : Joins(p, q, S)
  BY JoinExists
<1>9. /\ p \in [0 .. n -> Seq(S)] /\ p[0] = <<>>
      /\ \A i \in 1 .. n : p[i] = p[i - 1] \o q[i]
  BY <1>7, <1>8 DEF Joins
<1>10. FlattenSeq(q) = p[n]
  BY <1>7, <1>8, FlattenJoins
<1>11. \A i \in 1 .. n : q[i] \in Seq(S)
  BY <1>7
<1>12. PICK a : a = [i \in 0 .. n |-> h \o p[i]]
  OBVIOUS
<1>13. a \in [0 .. n -> Seq(S)]
  <2>1. ASSUME NEW i \in 0 .. n PROVE h \o p[i] \in Seq(S)
    <3>1. PICK t \in Seq(S) : t = p[i]
      BY <1>9
    <3> QED  BY <3>1
  <2> QED  BY <1>12, <2>1
<1>14. a[0] = h
  <2>1. h \o <<>> = h
    BY ONLY h \in Seq(S), JoinedEmpty
  <2>2. a[0] = h \o p[0]
    BY <1>12
  <2> QED  BY <1>9, <2>1, <2>2
<1>15. ASSUME NEW i \in 1 .. n PROVE a[i] = a[i - 1] \o q[i]
  <2>1. PICK j \in 0 .. n : j = i - 1
    <3>1. i - 1 \in 0 .. n
      OBVIOUS
    <3> QED  BY <3>1
  <2>2. PICK s \in Seq(S), t \in Seq(S) : s = p[j] /\ t = q[i]
    BY <1>9, <1>11
  <2>3. a[i] = h \o (s \o t) /\ a[j] = h \o s
    <3>1. p[i] = s \o t
      BY <1>9, <2>1, <2>2
    <3>2. i \in 0 .. n
      OBVIOUS
    <3>3. a[i] = h \o p[i] /\ a[j] = h \o p[j]
      BY ONLY <1>12, <3>2, j \in 0 .. n
    <3> QED  BY <2>2, <3>1, <3>3
  <2>4. (h \o s) \o t = h \o (s \o t)
    BY ONLY h \in Seq(S), s \in Seq(S), t \in Seq(S), JoinedThree
  <2> QED  BY <2>1, <2>2, <2>3, <2>4
<1>16. ASSUME NEW i \in 0 .. n PROVE \E r \in Seq(S) : a[n] = a[i] \o r
  <2>1. i \in 0 .. Len(q) /\ n \in 0 .. Len(q) /\ i <= n
    BY <1>7
  <2>2. \E r \in Seq(S) : p[n] = p[i] \o r
    <3>1. \A g \in 0 .. Len(q), k \in 0 .. Len(q) : g <= k => Begins(p[g], p[k], S)
      BY ONLY <1>7, <1>8, JoinPrefix
    <3> QED  BY <2>1, <3>1 DEF Begins
  <2>3. PICK r \in Seq(S) : p[n] = p[i] \o r
    BY <2>2
  <2>4. PICK s \in Seq(S) : s = p[i]
    BY <1>9
  <2>5. (h \o s) \o r = h \o (s \o r)
    BY ONLY h \in Seq(S), s \in Seq(S), r \in Seq(S), JoinedThree
  <2>6. a[n] = h \o p[n] /\ a[i] = h \o s
    <3>1. n \in 0 .. n
      OBVIOUS
    <3> QED  BY ONLY <1>12, <2>4, <3>1, i \in 0 .. n
  <2>7. a[n] = a[i] \o r
    BY <2>3, <2>4, <2>5, <2>6
  <2> QED  BY <2>7
<1>17. a[n] = h \o FlattenSeq(q)
  BY <1>10, <1>12
<1> QED  BY <1>7, <1>13, <1>14, <1>15, <1>16, <1>17 DEF Grown

-----------------------------------------------------------------------------
(* Powers of two grow.                                                     *)
LEMMA PowersGrow ==
    ASSUME NEW m \in Nat, NEW n \in Nat, m <= n
    PROVE  Pow2[m] <= Pow2[n]
<1>1. PICK d \in Nat : n = m + d
  <2>1. n - m \in Nat /\ n = m + (n - m)
    OBVIOUS
  <2> QED  BY <2>1
<1>2. PICK a \in Nat \ {0}, b \in Nat \ {0} : a = Pow2[m] /\ b = Pow2[d]
  BY PowersOfTwo
<1>3. Pow2[n] = a * b
  BY <1>1, <1>2, PowerOfSum
<1>4. a <= a * b
  BY <1>2
<1> QED  BY <1>2, <1>3, <1>4

(* A bit set above all the others is set, and leaves the others as they    *)
(* were.                                                                   *)
LEMMA TopBit ==
    ASSUME NEW x \in Nat, NEW k \in Nat, x < Pow2[k]
    PROVE  /\ ((x \div Pow2[k]) % 2) = 0
           /\ (((x + Pow2[k]) \div Pow2[k]) % 2) = 1
           /\ x + Pow2[k] < Pow2[k + 1]
<1>1. PICK p \in Nat \ {0} : p = Pow2[k] /\ Pow2[k + 1] = 2 * p
  BY PowersOfTwo
<1>2. x \in 0 .. p - 1 /\ x \in Int
  BY <1>1
<1>3. x \div p = 0
  <2>1. x = p * 0 + x
    OBVIOUS
  <2> QED  BY <1>2, <2>1, Remainder
<1>4. (x + p) \div p = 1
  <2>1. x + p = p * 1 + x /\ x + p \in Int /\ 1 \in Int
    OBVIOUS
  <2> QED  BY ONLY <1>2, <2>1, p \in Nat \ {0}, Remainder
<1>5. (0 % 2) = 0 /\ (1 % 2) = 1
  OBVIOUS
<1>6. x + p < 2 * p
  BY <1>1
<1> QED  BY <1>1, <1>3, <1>4, <1>5, <1>6

(* Adding a power of two does not change the bits below it.                *)
LEMMA LowerBit ==
    ASSUME NEW x \in Nat, NEW k \in Nat, NEW m \in Nat, m < k
    PROVE  (((x + Pow2[k]) \div Pow2[m]) % 2) = ((x \div Pow2[m]) % 2)
<1>1. PICK d \in Nat : k = m + (d + 1)
  <2>1. k - m - 1 \in Nat /\ k = m + ((k - m - 1) + 1)
    OBVIOUS
  <2> QED  BY <2>1
<1>2. PICK p \in Nat \ {0}, h \in Nat \ {0} : p = Pow2[m] /\ h = Pow2[d] /\ Pow2[d + 1] = 2 * h
  BY PowersOfTwo
<1>3. Pow2[k] = p * (2 * h)
  <2>1. d + 1 \in Nat
    OBVIOUS
  <2> QED  BY <1>1, <1>2, <2>1, PowerOfSum
<1>4. PICK q \in Int, r \in 0 .. p - 1 : q = x \div p /\ x = p * q + r
  OBVIOUS
<1>5. PICK e \in Int : e = 2 * h
  OBVIOUS
<1>6. x + p * e = p * (q + e) + r
  <2>1. p * (q + e) = p * q + p * e
    BY Products
  <2>2. PICK y \in Int, z \in Int : y = p * q /\ z = p * e
    BY Products
  <2> QED  BY <1>4, <2>1, <2>2
<1>7. (x + p * e) \div p = q + e
  <2>1. PICK a \in Int, f \in Int : a = x + p * e /\ f = q + e
    OBVIOUS
  <2>2. a = p * f + r
    BY <1>6, <2>1
  <2>3. a \div p = f
    BY ONLY <2>2, a \in Int, f \in Int, p \in Nat \ {0}, r \in 0 .. p - 1, Remainder
  <2> QED  BY <2>1, <2>3
<1>8. ((q + e) % 2) = (q % 2)
  <2>1. q + e = q + 2 * h
    BY <1>5
  <2>2. PICK u \in Int, v \in 0 .. 1 : q = 2 * u + v /\ v = (q % 2)
    <3>1. q = 2 * (q \div 2) + (q % 2) /\ (q % 2) \in 0 .. 1 /\ q \div 2 \in Int
      OBVIOUS
    <3> QED  BY <3>1
  <2>3. q + e = 2 * (u + h) + v
    BY <2>1, <2>2
  <2>4. ((q + e) % 2) = v
    BY <2>3
  <2> QED  BY <2>2, <2>4
<1> QED  BY <1>2, <1>3, <1>4, <1>5, <1>7, <1>8

(* The byte and the bit of a column in a bitmap.                           *)
ByteOf(c) == c \div Bits + 1

BitOf(c) == (c % Bits)

(* The byte and the bit are inside the bitmap, and a column before n in    *)
(* the same byte has a lower bit.                                          *)
LEMMA Places ==
    ASSUME NEW c \in Nat, NEW n \in Nat, c < n
    PROVE  /\ BitOf(c) \in Nat /\ BitOf(c) + 1 <= Bits /\ BitmapSize(n) \in Nat
           /\ ByteOf(c) \in 1 .. BitmapSize(n)
           /\ ByteOf(c) = ByteOf(n) => BitOf(c) + 1 <= BitOf(n)
<1>1. PICK b \in Nat \ {0} : b = Bits
  BY WidthAssumption
<1>2. PICK q \in Int, r \in 0 .. b - 1 : q = c \div b /\ r = (c % b) /\ c = b * q + r
  OBVIOUS
<1>3. PICK u \in Int, v \in 0 .. b - 1 : u = n \div b /\ v = (n % b) /\ n = b * u + v
  OBVIOUS
<1>4. PICK s \in Int, w \in 0 .. b - 1 : s = (n + b - 1) \div b /\ n + b - 1 = b * s + w
  <2>1. n + b - 1 \in Int
    OBVIOUS
  <2>2. PICK a \in Int : a = n + b - 1
    BY <2>1
  <2>3. a \div b \in Int /\ (a % b) \in 0 .. b - 1 /\ a = b * (a \div b) + (a % b)
    OBVIOUS
  <2> QED  BY <2>2, <2>3
<1>5. q >= 0
  <2>1. ASSUME q <= -1 PROVE FALSE
    <3>1. b * q <= b * (-1)
      BY <2>1
    <3> QED  BY <1>2, <3>1
  <2> QED  BY <2>1
<1>6. q + 1 <= s
  <2>1. ASSUME s <= q PROVE FALSE
    <3>1. b * s <= b * q
      BY <2>1
    <3> QED  BY <1>2, <1>4, <3>1
  <2> QED  BY <2>1
<1>7. q = u => r + 1 <= v
  BY <1>2, <1>3
<1>8. r \in Nat /\ r + 1 <= b
  BY <1>2
<1>9. BitmapSize(n) = s /\ ByteOf(c) = q + 1 /\ ByteOf(n) = u + 1 /\ BitOf(c) = r /\ BitOf(n) = v
  BY <1>1, <1>2, <1>3, <1>4 DEF BitmapSize, ByteOf, BitOf
<1> QED  BY <1>1, <1>5, <1>6, <1>7, <1>8, <1>9

(* A bitmap after the first j columns of a row: their bits are right, and  *)
(* the bits of the columns to come are still clear.                        *)
BitmapUpTo(g, row, j) ==
    /\ g \in [1 .. BitmapSize(Len(row)) -> ByteValues]
    /\ \A c \in 0 .. j - 1 : is_null(g, c) <=> row[c + 1].null
    /\ \A c \in j .. Len(row) - 1 : g[ByteOf(c)] < Pow2[BitOf(c)]

(* One more column.                                                        *)
LEMMA BitmapStep ==
    ASSUME NEW V, NEW row \in Seq(V), NEW j \in Nat, j < Len(row), row[j + 1].null \in BOOLEAN,
           NEW g, BitmapUpTo(g, row, j)
    PROVE  BitmapUpTo(IF row[j + 1].null THEN set_null(g, j) ELSE g, row, j + 1)
<1>1. PICK n \in Nat : n = Len(row)
  OBVIOUS
<1>2. PICK size \in Nat : size = BitmapSize(n)
  BY <1>1, Places
<1>3. PICK k \in Nat, y \in 1 .. size : k = BitOf(j) /\ y = ByteOf(j) /\ k + 1 <= Bits
  BY <1>1, <1>2, Places
<1>4. PICK x \in Nat : x = g[y] /\ x < Pow2[k] /\ x \in ByteValues
  <2>1. g[y] \in ByteValues
    BY <1>1, <1>2 DEF BitmapUpTo
  <2>2. j \in j .. n - 1
    BY <1>1
  <2>3. g[y] < Pow2[k]
    BY <1>1, <1>3, <2>2 DEF BitmapUpTo
  <2>4. ByteValues \subseteq Nat
    BY Spans DEF ByteValues
  <2> QED  BY <2>1, <2>3, <2>4
<1>5. PICK p \in Nat \ {0} : p = Pow2[k] /\ Pow2[k + 1] = 2 * p
  BY PowersOfTwo
<1>6. ((x \div p) % 2) = 0 /\ (((x + p) \div p) % 2) = 1 /\ x + p < 2 * p
  BY <1>4, <1>5, TopBit
<1>7. ~is_null(g, j)
  BY <1>3, <1>4, <1>5, <1>6 DEF is_null, ByteOf, BitOf
<1>8. CASE ~row[j + 1].null
  <2>1. ASSUME NEW c \in 0 .. (j + 1) - 1 PROVE is_null(g, c) <=> row[c + 1].null
    <3>1. CASE c = j
      BY <1>7, <1>8, <3>1
    <3>2. CASE c # j
      <4>1. c \in 0 .. j - 1
        BY <3>2
      <4> QED  BY <4>1 DEF BitmapUpTo
    <3> QED  BY <3>1, <3>2
  <2>2. \A c \in j + 1 .. Len(row) - 1 : c \in j .. Len(row) - 1
    BY <1>1
  <2> QED  BY <1>8, <2>1, <2>2 DEF BitmapUpTo
<1>9. CASE row[j + 1].null
  <2>1. PICK h : h = set_null(g, j)
    OBVIOUS
  <2>2. h = [b \in DOMAIN g |-> IF b = y THEN g[b] + p ELSE g[b]]
    BY <1>3, <1>5, <1>7, <2>1 DEF set_null, ByteOf, BitOf
  <2>3. DOMAIN g = 1 .. size
    BY <1>1, <1>2 DEF BitmapUpTo
  <2>4. h[y] = x + p /\ \A b \in 1 .. size : b # y => h[b] = g[b]
    BY <1>4, <2>2, <2>3
  <2>5. x + p \in ByteValues
    <3>1. k + 1 \in Nat /\ Bits \in Nat
      BY WidthAssumption
    <3>2. Pow2[k + 1] <= Base
      BY <1>3, <3>1, PowersGrow DEF Base
    <3>3. PICK b \in Nat : b = Base
      BY Spans
    <3>4. 2 * p <= b
      BY <1>5, <3>2, <3>3
    <3>5. x + p \in 0 .. b - 1
      BY <1>6, <3>4
    <3> QED  BY <3>3, <3>5 DEF ByteValues
  <2>6. h \in [1 .. size -> ByteValues]
    <3>1. \A b \in 1 .. size : g[b] \in ByteValues
      BY <1>1, <1>2 DEF BitmapUpTo
    <3>2. \A b \in 1 .. size : h[b] \in ByteValues
      BY <1>4, <2>4, <2>5, <3>1
    <3> QED  BY <2>2, <2>3, <3>2
  <2>7. ASSUME NEW c \in 0 .. (j + 1) - 1 PROVE is_null(h, c) <=> row[c + 1].null
    <3>1. CASE c = j
      <4>1. is_null(h, j)
        BY <1>3, <1>5, <1>6, <2>4 DEF is_null, ByteOf, BitOf
      <4> QED  BY <1>9, <3>1, <4>1
    <3>2. CASE c # j
      <4>1. c \in Nat /\ c \in 0 .. j - 1 /\ c < j /\ c < n
        BY <1>1, <3>2
      <4>2. PICK m \in Nat, z \in 1 .. size : m = BitOf(c) /\ z = ByteOf(c) /\ (z = y => m + 1 <= k)
        BY <1>2, <1>3, <4>1, Places
      <4>3. ((h[z] \div Pow2[m]) % 2) = ((g[z] \div Pow2[m]) % 2)
        <5>1. CASE z = y
          <6>1. (((x + p) \div Pow2[m]) % 2) = ((x \div Pow2[m]) % 2)
            BY <1>5, <4>2, <5>1, LowerBit
          <6> QED  BY <1>4, <2>4, <5>1, <6>1
        <5>2. CASE z # y
          BY <2>4, <5>2
        <5> QED  BY <5>1, <5>2
      <4>4. is_null(h, c) <=> is_null(g, c)
        BY <4>2, <4>3 DEF is_null, ByteOf, BitOf
      <4> QED  BY <4>1, <4>4 DEF BitmapUpTo
    <3> QED  BY <3>1, <3>2
  <2>8. ASSUME NEW c \in j + 1 .. n - 1 PROVE h[ByteOf(c)] < Pow2[BitOf(c)]
    <3>1. c \in Nat /\ c \in j .. n - 1 /\ j < c /\ c < n
      OBVIOUS
    <3>2. PICK m \in Nat, z \in 1 .. size : m = BitOf(c) /\ z = ByteOf(c)
      BY <1>2, <3>1, Places
    <3>3. z = y => k + 1 <= m
      BY <1>3, <3>1, <3>2, Places
    <3>4. CASE z = y
      <4>1. Pow2[k + 1] <= Pow2[m] /\ Pow2[m] \in Nat
        <5>1. k + 1 \in Nat
          OBVIOUS
        <5> QED  BY <3>3, <3>4, <5>1, PowersGrow, PowersOfTwo
      <4>2. PICK t \in Nat : t = Pow2[m] /\ 2 * p <= t
        BY <1>5, <4>1
      <4>3. x + p < t
        BY <1>6, <4>2
      <4> QED  BY <2>4, <3>2, <3>4, <4>2, <4>3
    <3>5. CASE z # y
      <4>1. h[z] = g[z]
        BY <2>4, <3>5
      <4>2. g[z] < Pow2[m]
        BY <1>1, <3>1, <3>2 DEF BitmapUpTo
      <4> QED  BY <3>2, <4>1, <4>2
    <3> QED  BY <3>4, <3>5
  <2>9. BitmapUpTo(h, row, j + 1)
    BY <1>1, <1>2, <2>6, <2>7, <2>8 DEF BitmapUpTo
  <2> QED  BY <1>9, <2>1, <2>9
<1> QED  BY <1>8, <1>9

(* The bitmap of a row: one bit for every column, set for a null.          *)
LEMMA BitmapIs ==
    ASSUME NEW V, NEW row \in Seq(V), \A i \in 1 .. Len(row) : row[i].null \in BOOLEAN,
           BitmapSize(Len(row)) \in Nat
    PROVE  /\ Bitmap(row) \in Seq(ByteValues) /\ Len(Bitmap(row)) = BitmapSize(Len(row))
           /\ \A c \in 0 .. Len(row) - 1 : is_null(Bitmap(row), c) <=> row[c + 1].null
<1>1. PICK n \in Nat, size \in Nat : n = Len(row) /\ size = BitmapSize(n)
  OBVIOUS
<1>2. PICK zero : zero = [b \in 1 .. size |-> 0]
  OBVIOUS
<1>3. PICK S : S = [1 .. size -> Nat]
  OBVIOUS
<1>4. PICK step : step = [p \in S \X Nat |->
                            IF p[2] + 1 \in 1 .. n /\ row[p[2] + 1].null THEN set_null(p[1], p[2]) ELSE p[1]]
  OBVIOUS
<1>5. Steps(step, S)
  <2> SUFFICES ASSUME NEW x \in S, NEW i \in Nat PROVE step[<<x, i>>] \in S
    BY DEF Steps
  <2>1. step[<<x, i>>] = IF i + 1 \in 1 .. n /\ row[i + 1].null THEN set_null(x, i) ELSE x
    BY <1>4
  <2>2. ASSUME i + 1 \in 1 .. n PROVE set_null(x, i) \in S
    <3>1. PICK k \in Nat : k = BitOf(i)
      <4>1. i < n
        BY <2>2
      <4> QED  BY <4>1, Places
    <3>2. Pow2[k] \in Nat
      BY PowersOfTwo
    <3>3. \A b \in 1 .. size : x[b] \in Nat
      BY <1>3
    <3>4. DOMAIN x = 1 .. size
      BY <1>3
    <3>5. PICK h : h = set_null(x, i)
      OBVIOUS
    <3>6. h = [b \in 1 .. size |-> IF b = ByteOf(i) /\ ~is_null(x, i) THEN x[b] + Pow2[k] ELSE x[b]]
      BY <3>1, <3>4, <3>5 DEF set_null, ByteOf, BitOf
    <3>7. \A b \in 1 .. size : h[b] \in Nat
      BY <3>2, <3>3, <3>6
    <3> QED  BY <1>3, <3>5, <3>6, <3>7
  <2> QED  BY <2>1, <2>2
<1>6. PICK h \in [0 .. n -> S] : Satisfies(h, n, zero, step)
  <2>1. zero \in S
    BY <1>2, <1>3
  <2> QED  BY ONLY n \in Nat, <1>5, <2>1, RecursionUpTo, Zenon
<1>7. ASSUME NEW i \in 0 .. n
      PROVE  h[i] = IF i = 0 THEN zero ELSE IF row[i].null THEN set_null(h[i - 1], i - 1) ELSE h[i - 1]
  <2> USE DEF Satisfies
  <2>1. CASE i # 0
    <3>1. PICK j \in 0 .. n : j = i - 1 /\ j + 1 = i
      <4>1. i - 1 \in 0 .. n /\ (i - 1) + 1 = i
        BY <2>1
      <4> QED  BY <4>1
    <3>2. h[j] \in S /\ j \in Nat /\ i \in 1 .. n
      <4>1. h[j] \in S
        BY <1>6
      <4> QED  BY <2>1, <4>1
    <3>3. step[<<h[j], j>>] = IF row[i].null THEN set_null(h[j], j) ELSE h[j]
      BY <1>4, <3>1, <3>2
    <3> QED  BY <1>6, <2>1, <3>1, <3>3
  <2> QED  BY <1>6, <2>1
<1>8. h = [i \in 0 .. Len(row) |->
              IF i = 0 THEN [b \in 1 .. BitmapSize(Len(row)) |-> 0]
              ELSE IF row[i].null THEN set_null(h[i - 1], i - 1) ELSE h[i - 1]]
  <2>1. h = [i \in 0 .. n |-> h[i]]
    BY <1>6
  <2>2. h = [i \in 0 .. n |->
                IF i = 0 THEN zero ELSE IF row[i].null THEN set_null(h[i - 1], i - 1) ELSE h[i - 1]]
    BY ONLY <1>7, <2>1
  <2> QED  BY <1>1, <1>2, <2>2
<1>9. \E g : /\ g = [i \in 0 .. Len(row) |->
                        IF i = 0 THEN [b \in 1 .. BitmapSize(Len(row)) |-> 0]
                        ELSE IF row[i].null THEN set_null(g[i - 1], i - 1) ELSE g[i - 1]]
             /\ Bitmap(row) = g[Len(row)]
  BY ONLY <1>8, Zenon DEF Bitmap
<1>10. PICK g : /\ g = [i \in 0 .. n |->
                          IF i = 0 THEN [b \in 1 .. size |-> 0]
                          ELSE IF row[i].null THEN set_null(g[i - 1], i - 1) ELSE g[i - 1]]
                /\ Bitmap(row) = g[n]
  BY <1>1, <1>9
<1> DEFINE Good == {j \in Nat : j <= n => BitmapUpTo(g[j], row, j)}
<1>11. 0 \in Good
  <2>1. g[0] = [b \in 1 .. size |-> 0]
    BY <1>10
  <2>2. g[0] \in [1 .. size -> ByteValues]
    <3>1. 0 \in ByteValues
      BY Spans DEF ByteValues
    <3> QED  BY <2>1, <3>1
  <2>3. ASSUME NEW c \in 0 .. n - 1 PROVE g[0][ByteOf(c)] < Pow2[BitOf(c)]
    <3>1. c \in Nat /\ c < n
      OBVIOUS
    <3>2. PICK z \in 1 .. size, m \in Nat : z = ByteOf(c) /\ m = BitOf(c)
      BY <1>1, <3>1, Places
    <3>3. PICK t \in Nat \ {0} : t = Pow2[m]
      BY PowersOfTwo
    <3>4. g[0][z] = 0
      BY <2>1
    <3> QED  BY <3>2, <3>3, <3>4
  <2> QED  BY <1>1, <2>2, <2>3 DEF BitmapUpTo
<1>12. ASSUME NEW j \in Nat, j \in Good PROVE j + 1 \in Good
  <2> SUFFICES ASSUME j + 1 <= n PROVE BitmapUpTo(g[j + 1], row, j + 1)
    OBVIOUS
  <2>1. j <= n /\ j < Len(row) /\ j + 1 \in 0 .. n /\ j + 1 # 0 /\ (j + 1) - 1 = j /\ j + 1 \in 1 .. Len(row)
    BY <1>1
  <2>2. BitmapUpTo(g[j], row, j)
    BY <1>12, <2>1
  <2>3. g[j + 1] = IF row[j + 1].null THEN set_null(g[j], j) ELSE g[j]
    BY <1>10, <2>1
  <2>4. BitmapUpTo(IF row[j + 1].null THEN set_null(g[j], j) ELSE g[j], row, j + 1)
    BY ONLY row \in Seq(V), j \in Nat, \A i \in 1 .. Len(row) : row[i].null \in BOOLEAN,
            <2>1, <2>2, BitmapStep
  <2> QED  BY <2>3, <2>4
<1>13. BitmapUpTo(g[n], row, n)
  <2> HIDE DEF Good
  <2>1. n \in Good
    BY <1>11, <1>12, Induction
  <2> QED  BY <2>1 DEF Good
<1>14. /\ g[n] \in [1 .. size -> ByteValues]
       /\ \A c \in 0 .. n - 1 : is_null(g[n], c) <=> row[c + 1].null
  BY <1>1, <1>13 DEF BitmapUpTo
<1>15. g[n] \in Seq(ByteValues) /\ Len(g[n]) = size
  BY ONLY <1>14, size \in Nat, Sequence
<1>16. PICK t : t = Bitmap(row) /\ t = g[n]
  BY <1>10
<1>17. t \in Seq(ByteValues) /\ Len(t) = BitmapSize(Len(row))
  BY <1>1, <1>15, <1>16
<1>18. \A c \in 0 .. Len(row) - 1 : is_null(t, c) <=> row[c + 1].null
  BY <1>1, <1>14, <1>16
<1> QED  BY <1>16, <1>17, <1>18

-----------------------------------------------------------------------------
(* The columns and values that are stored: any type, any number of the     *)
(* type, any string of bytes.                                              *)
TypeNames == {"INT32", "INT64", "UINT32", "UINT64", "FLOAT", "DOUBLE", "BOOL",
              "CHAR", "VARCHAR", "VARBINARY"}

ColumnOk(c) == c.type \in TypeNames /\ c.length \in 0 .. Word - 1

DataOf(c) ==
    CASE c.type \in {"CHAR", "VARCHAR", "VARBINARY"} -> Seq(ByteValues)
      [] c.type = "BOOL" -> BOOLEAN
      [] OTHER -> Numbers(c.type)

ValueOk(v, c) ==
    \/ v = NullOf(ValueType(c.type))
    \/ \E d \in DataOf(c) : v = Of(ValueType(c.type), d)

(* A value that serialize takes, and is not one that is spoilt.            *)
Stored(v, c) ==
    ColumnOk(c) /\ ValueOk(v, c) /\ (Declared(v, c) \/ Unchecked(v, c)) /\ ~Spoilt(v, c)

NumberTypes == LongTypes \cup IntTypes

(* The names of the types, and the types that have strings.                *)
LEMMA TypeNamesAre ==
    /\ {TypeIds[k] : k \in DOMAIN TypeIds} = TypeNames
    /\ \A c : ColumnOk(c) => (c.type \in NumberTypes \/ c.type \in {"BOOL", "CHAR", "VARCHAR", "VARBINARY"})
    /\ \A t \in NumberTypes : ValueType(t) = t
    /\ ValueType("BOOL") = "BOOL" /\ ValueType("CHAR") = "STRING"
    /\ ValueType("VARCHAR") = "STRING" /\ ValueType("VARBINARY") = "BYTES"
<1>1. DOMAIN TypeIds = 1 .. 10
  BY DEF TypeIds
<1>2. /\ TypeIds[1] = "INT32" /\ TypeIds[2] = "INT64" /\ TypeIds[3] = "UINT32" /\ TypeIds[4] = "UINT64"
      /\ TypeIds[5] = "FLOAT" /\ TypeIds[6] = "DOUBLE" /\ TypeIds[7] = "BOOL" /\ TypeIds[8] = "CHAR"
      /\ TypeIds[9] = "VARCHAR" /\ TypeIds[10] = "VARBINARY"
  BY DEF TypeIds
<1>3. {TypeIds[k] : k \in 1 .. 10} = TypeNames
  <2>1. \A k \in 1 .. 10 : k = 1 \/ k = 2 \/ k = 3 \/ k = 4 \/ k = 5 \/ k = 6 \/ k = 7 \/ k = 8 \/ k = 9 \/ k = 10
    OBVIOUS
  <2>2. \A k \in 1 .. 10 : TypeIds[k] \in TypeNames
    BY <1>2, <2>1 DEF TypeNames
  <2>3. \A t \in TypeNames : \E k \in 1 .. 10 : TypeIds[k] = t
    BY <1>2 DEF TypeNames
  <2> QED  BY <2>2, <2>3
<1> QED  BY <1>1, <1>3 DEF ColumnOk, TypeNames, NumberTypes, LongTypes, IntTypes, ValueType

(* A record of the value that is stored.                                   *)
LEMMA ValueParts ==
    ASSUME NEW c, NEW v, ValueOk(v, c)
    PROVE  /\ v.type = ValueType(c.type) /\ v.null \in BOOLEAN
           /\ v.null => v = NullOf(ValueType(c.type))
           /\ ~v.null => v.data \in DataOf(c) /\ v = Of(ValueType(c.type), v.data)
<1>1. CASE v = NullOf(ValueType(c.type))
  BY <1>1 DEF NullOf
<1>2. ASSUME NEW d \in DataOf(c), v = Of(ValueType(c.type), d)
      PROVE  v.type = ValueType(c.type) /\ v.null = FALSE /\ v.data = d
  BY <1>2 DEF Of
<1> QED  BY <1>1, <1>2 DEF ValueOk

(* The bytes of a type.                                                    *)
Width(t) == IF t \in LongTypes THEN LongBytes ELSE IntBytes

(* A number of a type is written in as many bytes as its type has, and     *)
(* these are read as the number.                                           *)
LEMMA NumbersBack ==
    ASSUME NEW t \in NumberTypes, NEW k \in Numbers(t)
    PROVE  /\ Width(t) \in Nat \ {0} /\ ToBytes(k, Width(t)) \in Seq(ByteValues)
           /\ Len(ToBytes(k, Width(t))) = Width(t) /\ ValueOf(t, ToBytes(k, Width(t))) = k
<1>1. PICK w \in Nat \ {0} : w = Width(t)
  BY WidthAssumption DEF Width
<1>2. PICK h \in Nat \ {0} : Span(w) = 2 * h /\ Span(w) \div 2 = h
  BY EvenSpan
<1>3. CASE t \in {"INT32", "INT64"}
  <2>1. k \in -(Span(w) \div 2) .. Span(w) \div 2 - 1
    BY <1>1, <1>3 DEF Numbers, Width
  <2>2. FromBytesSigned(ToBytes(k, w)) = k
    BY <2>1, SignedBack
  <2>3. k \in Int
    BY <1>2, <2>1
  <2>4. ToBytes(k, w) \in Seq(ByteValues) /\ Len(ToBytes(k, w)) = w
    BY <2>3, BytesOfNumber DEF ByteValues
  <2> QED  BY <1>1, <1>3, <2>2, <2>4 DEF ValueOf
<1>4. CASE t \notin {"INT32", "INT64"}
  <2>1. k \in 0 .. Span(w) - 1
    BY <1>1, <1>4 DEF Numbers, Width
  <2>2. FromBytes(ToBytes(k, w)) = k
    BY <2>1, UnsignedBack
  <2>3. k \in Int
    BY <1>2, <2>1
  <2>4. ToBytes(k, w) \in Seq(ByteValues) /\ Len(ToBytes(k, w)) = w
    BY <2>3, BytesOfNumber DEF ByteValues
  <2>5. t \in {"UINT32", "UINT64", "FLOAT", "DOUBLE"}
    BY <1>4 DEF NumberTypes, LongTypes, IntTypes
  <2> QED  BY <1>1, <1>4, <2>2, <2>4, <2>5 DEF ValueOf
<1> QED  BY <1>3, <1>4

(* Padding is added behind.                                                *)
LEMMA PaddedIs ==
    ASSUME NEW s \in Seq(ByteValues), NEW n \in Nat, Len(s) <= n
    PROVE  /\ Padded(s, n) \in Seq(ByteValues) /\ Len(Padded(s, n)) = n
           /\ \A i \in 1 .. Len(s) : Padded(s, n)[i] = s[i]
           /\ \A i \in 1 .. n : i > Len(s) => Padded(s, n)[i] = 0
           /\ Len(s) = n => Padded(s, n) = s
<1>1. PICK m \in Nat, d \in Nat : m = Len(s) /\ n = m + d /\ n - m = d
  <2>1. n - Len(s) \in Nat /\ n = Len(s) + (n - Len(s))
    OBVIOUS
  <2> QED  BY <2>1
<1>2. PICK z : z = [i \in 1 .. d |-> 0]
  OBVIOUS
<1>3. 0 \in ByteValues
  BY Spans DEF ByteValues
<1>4. z \in [1 .. d -> ByteValues]
  BY <1>2, <1>3
<1>5. z \in Seq(ByteValues) /\ Len(z) = d
  BY ONLY <1>4, d \in Nat, Sequence
<1>6. PICK t : t = s \o z /\ t = Padded(s, n)
  BY <1>1, <1>2 DEF Padded
<1>7. /\ t \in Seq(ByteValues) /\ Len(t) = m + d
      /\ \A i \in 1 .. m : t[i] = s[i]
      /\ \A i \in 1 .. d : t[m + i] = z[i]
  <2>1. /\ s \o z \in Seq(ByteValues) /\ Len(s \o z) = Len(s) + Len(z)
        /\ \A i \in 1 .. Len(s) : (s \o z)[i] = s[i]
        /\ \A i \in 1 .. Len(z) : (s \o z)[Len(s) + i] = z[i]
    <3>1. PICK a \in Seq(ByteValues) : a = z
      BY <1>5
    <3>2. /\ s \o a \in Seq(ByteValues) /\ Len(s \o a) = Len(s) + Len(a)
          /\ \A i \in 1 .. Len(s) : (s \o a)[i] = s[i]
          /\ \A i \in 1 .. Len(a) : (s \o a)[Len(s) + i] = a[i]
      BY ONLY s \in Seq(ByteValues), a \in Seq(ByteValues), Joined
    <3> QED  BY ONLY <3>1, <3>2
  <2> QED  BY <1>1, <1>5, <1>6, <2>1
<1>8. ASSUME NEW i \in 1 .. n, i > m PROVE t[i] = 0
  <2>1. PICK j \in 1 .. d : i = m + j
    <3>1. i - m \in 1 .. d /\ i = m + (i - m)
      BY <1>1, <1>8
    <3> QED  BY <3>1
  <2> QED  BY <1>2, <1>7, <2>1
<1>9. ASSUME m = n PROVE t = s
  <2>1. d = 0
    BY <1>1, <1>9
  <2>2. z = <<>>
    BY ONLY <1>5, <2>1, EmptySeq
  <2> QED  BY ONLY <1>6, <2>2, s \in Seq(ByteValues), JoinedEmpty
<1> QED  BY <1>1, <1>6, <1>7, <1>8, <1>9

(* The greatest of a set of numbers up to a bound.                         *)
LEMMA Greatest ==
    ASSUME NEW n \in Nat, NEW T \in SUBSET (0 .. n), T # {}
    PROVE  Max(T) \in T
<1>1. PICK U : U = {i \in Nat : i <= n /\ n - i \in T}
  OBVIOUS
<1>2. U \in SUBSET Nat /\ U # {}
  <2>1. PICK t \in T : TRUE
    OBVIOUS
  <2>2. n - t \in Nat /\ n - t <= n /\ n - (n - t) = t
    OBVIOUS
  <2> QED  BY <1>1, <2>1, <2>2
<1>3. PICK m \in U : \A i \in U : m <= i
  BY <1>2, LeastNatural
<1>4. n - m \in T
  BY <1>1, <1>3
<1>5. ASSUME NEW t \in T PROVE n - m >= t
  <2>1. n - t \in Nat /\ n - t <= n /\ n - (n - t) = t
    OBVIOUS
  <2>2. m <= n - t
    BY <1>1, <1>3, <2>1
  <2> QED  BY <1>1, <1>3, <2>2
<1>6. \E x \in T : \A y \in T : x >= y
  BY <1>4, <1>5
<1> QED  BY <1>6 DEF Max

(* The zeros of the padding are taken away again.                          *)
LEMMA TrimmedBack ==
    ASSUME NEW s \in Seq(ByteValues), NEW n \in Nat, Len(s) <= n, s = Trimmed(s)
    PROVE  Trimmed(Padded(s, n)) = s
<1>1. PICK m \in Nat : m = Len(s)
  OBVIOUS
<1>2. PICK t \in Seq(ByteValues) :
         /\ t = Padded(s, n) /\ Len(t) = n /\ \A i \in 1 .. m : t[i] = s[i]
         /\ \A i \in 1 .. n : i > m => t[i] = 0
  BY <1>1, PaddedIs
<1>3. PICK T, U : T = {0} \cup {i \in DOMAIN s : s[i] # 0} /\ U = {0} \cup {i \in DOMAIN t : t[i] # 0}
  OBVIOUS
<1>4. DOMAIN s = 1 .. m /\ DOMAIN t = 1 .. n
  BY <1>1, <1>2
<1>5. U = T
  <2>1. ASSUME NEW i PROVE i \in U <=> i \in T
    <3>1. CASE i \in 1 .. m
      <4>1. i \in 1 .. n /\ t[i] = s[i]
        BY <1>1, <1>2, <3>1
      <4> QED  BY <1>3, <1>4, <3>1, <4>1
    <3>2. CASE i \notin 1 .. m
      <4>1. i \in 1 .. n => i > m
        BY <3>2
      <4>2. i \in 1 .. n => t[i] = 0
        BY <1>2, <4>1
      <4> QED  BY <1>3, <1>4, <3>2, <4>2
    <3> QED  BY <3>1, <3>2
  <2> QED  BY <2>1
<1>6. PICK k \in 0 .. m : k = Max(T)
  <2>1. T \in SUBSET (0 .. m) /\ T # {}
    BY <1>3, <1>4
  <2>2. Max(T) \in T
    BY ONLY m \in Nat, <2>1, Greatest
  <2> QED  BY <2>1, <2>2
<1>7. s = SubSeq(s, 1, k) /\ Trimmed(t) = SubSeq(t, 1, k)
  BY <1>3, <1>5, <1>6 DEF Trimmed
<1>8. PICK u : u = SubSeq(t, 1, k)
  OBVIOUS
<1>9. k = m
  <2>1. 1 \in 1 .. m + 1 /\ k \in 1 - 1 .. m
    BY <1>6
  <2>2. Len(SubSeq(s, 1, k)) = k - 1 + 1
    BY ONLY <1>1, <2>1, s \in Seq(ByteValues), SubSeqProperties
  <2> QED  BY <1>1, <1>7, <2>2
<1>10. u \in Seq(ByteValues) /\ Len(u) = m /\ \A i \in 1 .. m : u[i] = t[i]
  <2>1. 1 \in 1 .. n + 1 /\ k \in 1 - 1 .. n /\ k - 1 + 1 = m
    BY <1>1, <1>9
  <2>2. /\ SubSeq(t, 1, k) \in Seq(ByteValues) /\ Len(SubSeq(t, 1, k)) = k - 1 + 1
        /\ \A i \in 1 .. k - 1 + 1 : SubSeq(t, 1, k)[i] = t[1 + i - 1]
    BY ONLY <1>2, <2>1, t \in Seq(ByteValues), SubSeqProperties
  <2>3. \A i \in 1 .. m : 1 + i - 1 = i
    OBVIOUS
  <2> QED  BY ONLY <1>8, <2>1, <2>2, <2>3
<1>11. \A i \in 1 .. m : u[i] = s[i]
  BY <1>2, <1>10
<1>12. u = s
  BY ONLY <1>1, <1>10, <1>11, s \in Seq(ByteValues), SeqEqual
<1> QED  BY <1>2, <1>7, <1>8, <1>12

-----------------------------------------------------------------------------
(* What is written for a column of fixed size: as many bytes as the column *)
(* has, from which the value is read back.                                 *)
LEMMA FixedField ==
    ASSUME NEW c, NEW v, Stored(v, c), is_fixed_size(c)
    PROVE  /\ fixed_size_of(c) \in Nat \ {0}
           /\ Field(v, c) \in Seq(ByteValues) /\ Len(Field(v, c)) = fixed_size_of(c)
           /\ ~v.null => ValueOf(c.type, Field(v, c)) = v.data
<1>1. PICK t : t = c.type
  OBVIOUS
<1>2. /\ v.type = ValueType(t) /\ v.null \in BOOLEAN
      /\ ~v.null => v.data \in DataOf(c)
  BY <1>1, ValueParts DEF Stored
<1>3. t \in NumberTypes \/ t \in {"BOOL", "CHAR"}
  BY <1>1, TypeNamesAre DEF Stored, is_fixed_size
<1>4. PICK n : n = fixed_size_of(c)
  OBVIOUS
<1>5. n \in Nat \ {0}
  <2>1. CASE t \in NumberTypes
    <3>1. LongBytes \in Nat \ {0} /\ IntBytes \in Nat \ {0}
      BY WidthAssumption
    <3>2. CASE t \in LongTypes
      BY <1>1, <1>4, <3>1, <3>2 DEF fixed_size_of, LongTypes, IntTypes
    <3>3. CASE t \notin LongTypes
      <4>1. t \in IntTypes
        BY <2>1, <3>3 DEF NumberTypes
      <4> QED  BY <1>1, <1>4, <3>1, <4>1 DEF fixed_size_of, LongTypes, IntTypes
    <3> QED  BY <3>2, <3>3
  <2>2. CASE t = "BOOL"
    BY <1>1, <1>4, <2>2 DEF fixed_size_of, LongTypes, IntTypes
  <2>3. CASE t = "CHAR"
    <3>1. n = c.length
      BY <1>1, <1>4, <2>3 DEF fixed_size_of, LongTypes, IntTypes
    <3>2. c.length \in Nat
      BY Words DEF Stored, ColumnOk
    <3>3. c.length # 0
      BY <1>1, <2>3 DEF Stored, Spoilt
    <3> QED  BY <3>1, <3>2, <3>3
  <2> QED  BY <1>3, <2>1, <2>2, <2>3
<1>6. CASE v.null
  <2>1. Field(v, c) = Padded(<<>>, n)
    BY <1>4, <1>6 DEF Field
  <2>2. <<>> \in Seq(ByteValues) /\ Len(<<>>) = 0 /\ 0 <= n
    BY <1>5
  <2>3. Padded(<<>>, n) \in Seq(ByteValues) /\ Len(Padded(<<>>, n)) = n
    BY <1>5, <2>2, PaddedIs
  <2> QED  BY <1>4, <1>5, <1>6, <2>1, <2>3
<1>7. CASE ~v.null
  <2>1. PICK s : s = serialize_to(v)
    OBVIOUS
  <2>2. Field(v, c) = Padded(s, n)
    BY <1>4, <1>7, <2>1 DEF Field
  <2>3. CASE t \in NumberTypes
    <3>1. v.data \in Numbers(t) /\ v.type = t
      <4>1. t \notin {"BOOL", "CHAR", "VARCHAR", "VARBINARY"}
        BY <2>3 DEF NumberTypes, LongTypes, IntTypes
      <4> QED  BY <1>1, <1>2, <1>7, <2>3, <4>1, TypeNamesAre DEF DataOf
    <3>2. n = Width(t) /\ serialized_size(v) = n
      <4>1. CASE t \in LongTypes
        BY <1>1, <1>4, <3>1, <4>1 DEF fixed_size_of, serialized_size, Width, LongTypes, IntTypes
      <4>2. CASE t \notin LongTypes
        <5>1. t \in IntTypes
          BY <2>3, <4>2 DEF NumberTypes
        <5> QED  BY <1>1, <1>4, <3>1, <5>1 DEF fixed_size_of, serialized_size, Width, LongTypes, IntTypes
      <4> QED  BY <4>1, <4>2
    <3>3. s = ToBytes(v.data, n)
      BY <2>1, <2>3, <3>1, <3>2 DEF serialize_to, NumberTypes, LongTypes, IntTypes
    <3>4. s \in Seq(ByteValues) /\ Len(s) = n /\ ValueOf(t, s) = v.data
      BY <2>3, <3>1, <3>2, <3>3, NumbersBack
    <3>5. Padded(s, n) = s
      BY <1>5, <3>4, PaddedIs
    <3> QED  BY <1>1, <1>4, <1>5, <2>2, <3>4, <3>5
  <2>4. CASE t = "BOOL"
    <3>1. v.data \in BOOLEAN /\ v.type = "BOOL" /\ n = 1
      BY <1>1, <1>2, <1>4, <1>7, <2>4, TypeNamesAre DEF DataOf, fixed_size_of, LongTypes, IntTypes
    <3>2. s = <<IF v.data THEN 1 ELSE 0>>
      BY <2>1, <3>1 DEF serialize_to
    <3>3. PICK b \in ByteValues : b = (IF v.data THEN 1 ELSE 0) /\ (v.data <=> b # 0)
      <4>1. 0 \in ByteValues /\ 1 \in ByteValues
        BY Spans DEF ByteValues
      <4> QED  BY <3>1, <4>1
    <3>4. s \in Seq(ByteValues) /\ Len(s) = 1 /\ s[1] = b
      BY <3>2, <3>3
    <3>5. Padded(s, n) = s
      BY <3>1, <3>4, PaddedIs
    <3>6. ValueOf(t, s) = (b # 0)
      BY <2>4, <3>4 DEF ValueOf
    <3>7. v.data = (b # 0)
      BY <3>1, <3>3
    <3> QED  BY <1>1, <1>4, <1>5, <2>2, <3>1, <3>4, <3>5, <3>6, <3>7
  <2>5. CASE t = "CHAR"
    <3>1. v.data \in Seq(ByteValues) /\ v.type = "STRING" /\ ValueType(c.type) = "STRING"
      BY <1>1, <1>2, <1>7, <2>5, TypeNamesAre DEF DataOf
    <3>2. s = v.data
      BY <2>1, <3>1 DEF serialize_to
    <3>3. n = c.length /\ Len(s) <= n
      BY <1>1, <1>4, <1>7, <2>5, <3>1, <3>2
         DEF Stored, Declared, Unchecked, fixed_size_of, LongTypes, IntTypes
    <3>4. s = Trimmed(s)
      BY <1>1, <1>7, <2>5, <3>2 DEF Stored, Spoilt
    <3>5. Padded(s, n) \in Seq(ByteValues) /\ Len(Padded(s, n)) = n
      BY <1>5, <3>1, <3>2, <3>3, PaddedIs
    <3>6. Trimmed(Padded(s, n)) = s
      BY <1>5, <3>1, <3>2, <3>3, <3>4, TrimmedBack
    <3>7. ValueOf(t, Padded(s, n)) = s
      BY <2>5, <3>6 DEF ValueOf
    <3> QED  BY <1>1, <1>4, <1>5, <2>2, <3>2, <3>5, <3>7
  <2> QED  BY <1>3, <2>3, <2>4, <2>5
<1> QED  BY <1>2, <1>6, <1>7

(* What is written for a column of variable size: the length in two bytes, *)
(* and the value.                                                          *)
LEMMA VariableField ==
    ASSUME NEW c, NEW v, Stored(v, c), ~is_fixed_size(c)
    PROVE  /\ fixed_size_of(c) = 0
           /\ \E s \in Seq(ByteValues) :
                 /\ Field(v, c) = WordBytes(Len(s)) \o s
                 /\ WordBytes(Len(s)) \in Seq(ByteValues) /\ Len(WordBytes(Len(s))) = 2
                 /\ ~v.null => ValueOf(c.type, s) = v.data
<1>1. PICK t : t = c.type
  OBVIOUS
<1>2. t \in {"VARCHAR", "VARBINARY"}
  BY <1>1 DEF is_fixed_size
<1>3. fixed_size_of(c) = 0
  BY <1>1, <1>2 DEF fixed_size_of, LongTypes, IntTypes
<1>4. /\ v.type = ValueType(t) /\ v.null \in BOOLEAN
      /\ ~v.null => v.data \in DataOf(c)
  BY <1>1, ValueParts DEF Stored
<1>5. PICK s : s = IF v.null THEN <<>> ELSE serialize_to(v)
  OBVIOUS
<1>6. ~v.null => v.data \in Seq(ByteValues) /\ s = v.data
  BY <1>1, <1>2, <1>4, <1>5, TypeNamesAre DEF DataOf, serialize_to
<1>7. s \in Seq(ByteValues)
  BY <1>4, <1>5, <1>6
<1>8. Field(v, c) = WordBytes(Len(s)) \o s
  BY <1>5 DEF Field
<1>9. WordBytes(Len(s)) \in Seq(ByteValues) /\ Len(WordBytes(Len(s))) = 2
  <2>1. PICK n \in Int : n = Len(s)
    BY <1>7
  <2>2. 2 \in Nat
    OBVIOUS
  <2> QED  BY ONLY <2>1, <2>2, n \in Int, BytesOfNumber DEF WordBytes, ByteValues
<1>10. ValueOf(t, s) = s
  BY <1>2 DEF ValueOf
<1> QED  BY <1>1, <1>3, <1>6, <1>7, <1>8, <1>9, <1>10

-----------------------------------------------------------------------------
(* A row that may be stored in the columns of a schema.                    *)
RowOk(row, sch) ==
    /\ Len(row) \in Nat \ {0} /\ Len(row) = Len(sch)
    /\ \E V : row \in Seq(V)
    /\ \E C : sch \in Seq(C)
    /\ \A i \in 1 .. Len(row) : Stored(row[i], sch[i])

(* The bytes of a row as they grow: the bitmap, then field after field.    *)
Grows(a, row, sch) ==
    /\ a \in [0 .. Len(row) -> Seq(ByteValues)]
    /\ Len(a[0]) = BitmapSize(Len(row))
    /\ \A c \in 0 .. Len(row) - 1 : is_null(a[0], c) <=> row[c + 1].null
    /\ \A c \in 0 .. Len(row) - 1 : ByteOf(c) \in 1 .. Len(a[0])
    /\ \A i \in 1 .. Len(row) : a[i] = a[i - 1] \o Field(row[i], sch[i])
    /\ a[Len(row)] = serialize(row, sch)
    /\ \A i \in 0 .. Len(row) : \E r \in Seq(ByteValues) : a[Len(row)] = a[i] \o r

(* Every field is a sequence of bytes that is not empty.                   *)
LEMMA FieldIs ==
    ASSUME NEW c, NEW v, Stored(v, c)
    PROVE  Field(v, c) \in Seq(ByteValues) /\ Len(Field(v, c)) \in Nat \ {0}
<1>1. CASE is_fixed_size(c)
  BY <1>1, FixedField
<1>2. CASE ~is_fixed_size(c)
  <2>1. PICK s \in Seq(ByteValues) :
            /\ Field(v, c) = WordBytes(Len(s)) \o s
            /\ WordBytes(Len(s)) \in Seq(ByteValues) /\ Len(WordBytes(Len(s))) = 2
    BY <1>2, VariableField
  <2>2. PICK a \in Seq(ByteValues) : a = WordBytes(Len(s)) /\ Len(a) = 2 /\ Field(v, c) = a \o s
    BY <2>1
  <2>3. a \o s \in Seq(ByteValues) /\ Len(a \o s) = Len(a) + Len(s)
    BY ONLY a \in Seq(ByteValues), s \in Seq(ByteValues), Joined
  <2>4. Len(s) \in Nat
    OBVIOUS
  <2> QED  BY <2>2, <2>3, <2>4
<1> QED  BY <1>1, <1>2

(* The bytes of a row grow by a field with each column.                    *)
LEMMA RowGrows ==
    ASSUME NEW row, NEW sch, RowOk(row, sch)
    PROVE  \E a : Grows(a, row, sch)
<1>1. PICK n \in Nat \ {0} : n = Len(row) /\ n = Len(sch)
  BY DEF RowOk
<1>2. PICK V : row \in Seq(V)
  BY DEF RowOk
<1>3. DOMAIN row = 1 .. n
  <2>1. DOMAIN row = 1 .. Len(row)
    BY ONLY <1>2
  <2> QED  BY <1>1, <2>1
<1>4. PICK bm \in Seq(ByteValues) :
         /\ bm = Bitmap(row) /\ Len(bm) = BitmapSize(n)
         /\ \A c \in 0 .. n - 1 : is_null(bm, c) <=> row[c + 1].null
  <2>1. \A i \in 1 .. Len(row) : row[i].null \in BOOLEAN
    BY ValueParts DEF RowOk, Stored
  <2>2. BitmapSize(Len(row)) \in Nat
    <3>1. 0 \in Nat /\ 0 < n
      OBVIOUS
    <3> QED  BY <1>1, <3>1, Places
  <2>3. /\ Bitmap(row) \in Seq(ByteValues) /\ Len(Bitmap(row)) = BitmapSize(Len(row))
        /\ \A c \in 0 .. Len(row) - 1 : is_null(Bitmap(row), c) <=> row[c + 1].null
    BY ONLY <1>2, <2>1, <2>2, BitmapIs
  <2>4. PICK b : b = Bitmap(row)
    OBVIOUS
  <2>5. b \in Seq(ByteValues) /\ Len(b) = BitmapSize(n) /\ \A c \in 0 .. n - 1 : is_null(b, c) <=> row[c + 1].null
    BY <1>1, <2>3, <2>4
  <2> QED  BY <2>4, <2>5
<1>5. PICK q : q = [i \in 1 .. n |-> Field(row[i], sch[i])]
  OBVIOUS
<1>6. \A i \in 1 .. n : q[i] \in Seq(ByteValues) /\ q[i] = Field(row[i], sch[i])
  BY <1>1, <1>5, FieldIs DEF RowOk
<1>7. q \in Seq(Seq(ByteValues)) /\ Len(q) = n
  <2>1. q \in [1 .. n -> Seq(ByteValues)]
    BY <1>5, <1>6
  <2>2. n \in Nat
    OBVIOUS
  <2> QED  BY ONLY <2>1, <2>2, Sequence
<1>8. PICK a : Grown(a, bm, q, ByteValues)
  BY <1>7, GrownExists
<1>9. /\ a \in [0 .. n -> Seq(ByteValues)] /\ a[0] = bm
      /\ \A i \in 1 .. n : a[i] = a[i - 1] \o Field(row[i], sch[i])
      /\ \A i \in 0 .. n : \E r \in Seq(ByteValues) : a[n] = a[i] \o r
  BY <1>6, <1>7, <1>8 DEF Grown
<1>17. ASSUME NEW c \in 0 .. n - 1 PROVE ByteOf(c) \in 1 .. Len(bm)
  <2>1. c \in Nat /\ c < n
    OBVIOUS
  <2> QED  BY <1>4, <2>1, Places
<1>18. a[n] = serialize(row, sch)
  BY <1>3, <1>4, <1>5, <1>7, <1>8 DEF serialize, Grown
<1>19. \A c \in 0 .. n - 1 : is_null(a[0], c) <=> row[c + 1].null
  BY <1>4, <1>9
<1>20. Len(a[0]) = BitmapSize(n) /\ \A c \in 0 .. n - 1 : ByteOf(c) \in 1 .. Len(a[0])
  BY <1>4, <1>9, <1>17
<1>21. Grows(a, row, sch)
  BY <1>1, <1>9, <1>18, <1>19, <1>20 DEF Grows
<1> QED  BY <1>21

(* A field f lies in the bytes of a row behind b, and ends at e.           *)
Lies(raw, b, f, r, e) ==
    /\ raw = b \o (f \o r) /\ raw \in Seq(ByteValues)
    /\ Len(f) # 0 /\ e = Len(b) + Len(f) /\ e <= Len(raw)

(* Field i of a row is f, and it lies between b and r.                     *)
PartOf(raw, a, row, sch, i, b, f, r) ==
    /\ b \in Seq(ByteValues) /\ f \in Seq(ByteValues) /\ r \in Seq(ByteValues)
    /\ b = a[i - 1] /\ f = Field(row[i], sch[i]) /\ Lies(raw, b, f, r, Len(a[i]))

(* Each field of a row lies in the bytes of the row.                       *)
LEMMA RawParts ==
    ASSUME NEW row, NEW sch, RowOk(row, sch), NEW a, Grows(a, row, sch), NEW i \in 1 .. Len(row),
           NEW raw, raw = serialize(row, sch)
    PROVE  \E b, f, r : PartOf(raw, a, row, sch, i, b, f, r)
<1>1. PICK n \in Nat \ {0} : n = Len(row)
  BY DEF RowOk
<1>2. PICK j \in 0 .. n : j = i - 1
  <2>1. i - 1 \in 0 .. n
    BY <1>1
  <2> QED  BY <2>1
<1>3. i \in 0 .. n /\ i \in 1 .. n
  BY <1>1
<1>4. PICK b \in Seq(ByteValues), c \in Seq(ByteValues) : b = a[j] /\ c = a[i]
  BY <1>1, <1>3 DEF Grows
<1>5. PICK f \in Seq(ByteValues) : f = Field(row[i], sch[i]) /\ Len(f) \in Nat \ {0}
  BY FieldIs DEF RowOk
<1>6. c = b \o f
  BY <1>1, <1>2, <1>3, <1>4, <1>5 DEF Grows
<1>7. PICK r \in Seq(ByteValues) : raw = c \o r
  BY <1>1, <1>3, <1>4 DEF Grows
<1>8. raw = b \o (f \o r)
  BY ONLY <1>6, <1>7, b \in Seq(ByteValues), f \in Seq(ByteValues), r \in Seq(ByteValues), JoinedThree
<1>9. Len(c) = Len(b) + Len(f)
  BY ONLY <1>6, b \in Seq(ByteValues), f \in Seq(ByteValues), Joined
<1>10. raw \in Seq(ByteValues) /\ Len(raw) = Len(c) + Len(r)
  BY ONLY <1>7, c \in Seq(ByteValues), r \in Seq(ByteValues), Joined
<1>11. Len(r) \in Nat /\ Len(b) \in Nat
  OBVIOUS
<1>12. Lies(raw, b, f, r, Len(a[i]))
  <2>1. PICK x \in Nat, y \in Nat, z \in Nat : x = Len(b) /\ y = Len(f) /\ z = Len(r)
    OBVIOUS
  <2>2. Len(a[i]) = x + y /\ Len(raw) = (x + y) + z
    BY <1>4, <1>9, <1>10, <2>1
  <2>3. x + y <= (x + y) + z
    OBVIOUS
  <2> QED  BY <1>5, <1>8, <1>10, <2>1, <2>2, <2>3 DEF Lies
<1>13. PartOf(raw, a, row, sch, i, b, f, r)
  BY <1>2, <1>4, <1>5, <1>12 DEF PartOf
<1> QED  BY <1>13

(* compute_offsets finds where every field of a row begins, if the row is  *)
(* not longer than 16 bits can say.                                        *)
LEMMA OffsetsFound ==
    ASSUME NEW row, NEW sch, RowOk(row, sch), NEW a, Grows(a, row, sch),
           NEW raw, raw = serialize(row, sch), Len(raw) <= Word
    PROVE  \A i \in 1 .. Len(row) :
              compute_offsets(raw, sch)[i] = Len(a[i - 1]) /\ Len(a[i - 1]) < Word
<1>1. PICK n \in Nat \ {0} : n = Len(row) /\ n = Len(sch)
  BY DEF RowOk
<1>2. PICK w \in Nat : w = Word
  BY Words
<1>3. PICK l : l = [i \in 0 .. n |-> Len(a[i])]
  OBVIOUS
<1>4. \A i \in 0 .. n : l[i] \in Nat /\ l[i] = Len(a[i])
  <2>1. \A i \in 0 .. n : a[i] \in Seq(ByteValues)
    BY <1>1 DEF Grows
  <2> QED  BY <1>3, <2>1
<1>5. ASSUME NEW i \in 1 .. n
      PROVE  /\ l[i - 1] < w
             /\ l[i] = l[i - 1] + IF fixed_size_of(sch[i]) > 0 THEN fixed_size_of(sch[i])
                                  ELSE WordAt(raw, (l[i - 1] % w)) + 2
  <2>1. PICK j \in 0 .. n : j = i - 1
    <3>1. i - 1 \in 0 .. n
      OBVIOUS
    <3> QED  BY <3>1
  <2>2. PICK b, f, r :
              /\ b \in Seq(ByteValues) /\ f \in Seq(ByteValues) /\ r \in Seq(ByteValues)
              /\ b = a[i - 1] /\ f = Field(row[i], sch[i]) /\ Lies(raw, b, f, r, Len(a[i]))
    <3>1. i \in 1 .. Len(row)
      BY <1>1
    <3>2. PICK b, f, r : PartOf(raw, a, row, sch, i, b, f, r)
      BY ONLY <3>1, RowOk(row, sch), Grows(a, row, sch), raw = serialize(row, sch), RawParts
    <3> QED  BY <3>2 DEF PartOf
  <2>3. PICK x \in Nat, y \in Nat \ {0} : x = Len(b) /\ y = Len(f)
    <3>1. Len(b) \in Nat /\ Len(f) \in Nat /\ Len(f) # 0
      BY <2>2 DEF Lies
    <3> QED  BY <3>1
  <2>4. l[j] = x /\ l[i] = x + y
    <3>1. i \in 0 .. n /\ Len(a[i]) = x + y
      BY <2>2, <2>3 DEF Lies
    <3> QED  BY <1>4, <2>1, <2>2, <2>3, <3>1
  <2>5. x + y <= w
    <3>1. PICK z \in Nat : z = Len(raw)
      <4>1. raw \in Seq(ByteValues)
        BY <2>2 DEF Lies
      <4>2. Len(raw) \in Nat
        BY ONLY <4>1
      <4> QED  BY <4>2
    <3>2. x + y <= z /\ z <= w
      BY <1>2, <2>2, <2>3, <3>1 DEF Lies
    <3> QED  BY ONLY <3>2, x \in Nat, y \in Nat \ {0}, z \in Nat, w \in Nat
  <2>6. x < w /\ w \in Nat \ {0} /\ x \in 0 .. w - 1
    BY <2>5
  <2>7. (x % w) = x
    <3>1. x = w * 0 + x /\ 0 \in Int /\ x \in Int
      OBVIOUS
    <3> QED  BY ONLY <2>6, <3>1, Remainder
  <2>8. Stored(row[i], sch[i])
    BY <1>1 DEF RowOk
  <2>9. CASE is_fixed_size(sch[i])
    <3>1. fixed_size_of(sch[i]) \in Nat \ {0} /\ y = fixed_size_of(sch[i])
      BY <2>2, <2>3, <2>8, <2>9, FixedField
    <3> QED  BY <2>1, <2>4, <2>6, <3>1
  <2>10. CASE ~is_fixed_size(sch[i])
    <3>1. PICK s :
              /\ s \in Seq(ByteValues) /\ f = WordBytes(Len(s)) \o s
              /\ WordBytes(Len(s)) \in Seq(ByteValues) /\ Len(WordBytes(Len(s))) = 2
      BY <2>2, <2>8, <2>10, VariableField
    <3>2. PICK m \in Nat : m = Len(s)
      <4>1. Len(s) \in Nat
        BY <3>1
      <4> QED  BY <4>1
    <3>3. PICK d : d \in Seq(ByteValues) /\ d = WordBytes(m) /\ Len(d) = 2 /\ f = d \o s
      BY <3>1, <3>2
    <3>11. s \in Seq(ByteValues) /\ d \in Seq(ByteValues)
           /\ b \in Seq(ByteValues) /\ r \in Seq(ByteValues)
      BY <2>2, <3>1, <3>3
    <3>4. Len(d \o s) = Len(d) + Len(s)
      BY ONLY <3>11, Joined
    <3>5. y = 2 + m
      BY <2>3, <3>2, <3>3, <3>4
    <3>6. m \in 0 .. Word - 1
      BY <1>2, <2>5, <3>5
    <3>7. PICK e : e \in Seq(ByteValues) /\ e = s \o r
      <4>1. s \o r \in Seq(ByteValues)
        BY ONLY <3>11, Joined
      <4> QED  BY <4>1
    <3>8. raw = b \o (WordBytes(m) \o e)
      <4>1. (d \o s) \o r = d \o (s \o r)
        BY ONLY <3>11, JoinedThree
      <4> QED  BY <2>2, <3>3, <3>7, <4>1 DEF Lies
    <3>9. WordAt(raw, x) = m
      <4>1. WordAt(b \o (WordBytes(m) \o e), Len(b)) = m
        BY ONLY <3>6, <3>7, <3>11, WordFound
      <4> QED  BY <2>3, <3>8, <4>1
    <3>10. fixed_size_of(sch[i]) = 0
      BY <2>8, <2>10, VariableField
    <3> QED  BY <2>1, <2>4, <2>6, <2>7, <3>5, <3>9, <3>10
  <2> QED  BY <2>9, <2>10
<1>6. l[0] = BitmapSize(n)
  BY <1>1, <1>4 DEF Grows
<1>7. l = [i \in 0 .. Len(sch) |->
              IF i = 0 THEN BitmapSize(Len(sch))
              ELSE l[i - 1] + IF fixed_size_of(sch[i]) > 0 THEN fixed_size_of(sch[i])
                              ELSE WordAt(raw, l[i - 1] % Word) + 2]
  <2>1. ASSUME NEW i \in 0 .. n
        PROVE  l[i] = IF i = 0 THEN BitmapSize(n)
                      ELSE l[i - 1] + IF fixed_size_of(sch[i]) > 0 THEN fixed_size_of(sch[i])
                                      ELSE WordAt(raw, l[i - 1] % Word) + 2
    <3>1. CASE i = 0
      BY <1>6, <3>1
    <3>2. CASE i # 0
      <4>1. i \in 1 .. n
        BY <3>2
      <4> QED  BY <1>2, <1>5, <3>2, <4>1
    <3> QED  BY <3>1, <3>2
  <2>2. l = [i \in 0 .. n |-> l[i]]
    BY <1>3
  <2>3. l = [i \in 0 .. n |->
                IF i = 0 THEN BitmapSize(n)
                ELSE l[i - 1] + IF fixed_size_of(sch[i]) > 0 THEN fixed_size_of(sch[i])
                                ELSE WordAt(raw, l[i - 1] % Word) + 2]
    BY ONLY <2>1, <2>2
  <2> QED  BY <1>1, <2>3
<1> DEFINE Following(g, i) == g[i - 1] + IF fixed_size_of(sch[i]) > 0 THEN fixed_size_of(sch[i])
                                          ELSE WordAt(raw, g[i - 1] % Word) + 2
           Chosen == CHOOSE g : g = [i \in 0 .. Len(sch) |->
                                        IF i = 0 THEN BitmapSize(Len(sch)) ELSE Following(g, i)]
<1>8. \E g : /\ g = [i \in 0 .. Len(sch) |->
                       IF i = 0 THEN BitmapSize(Len(sch))
                       ELSE g[i - 1] + IF fixed_size_of(sch[i]) > 0 THEN fixed_size_of(sch[i])
                                       ELSE WordAt(raw, g[i - 1] % Word) + 2]
             /\ compute_offsets(raw, sch) = [i \in DOMAIN sch |-> g[i - 1] % Word]
  <2>1. Chosen = [i \in 0 .. Len(sch) |->
                     IF i = 0 THEN BitmapSize(Len(sch)) ELSE Following(Chosen, i)]
    <3>1. \E g : g = [i \in 0 .. Len(sch) |->
                        IF i = 0 THEN BitmapSize(Len(sch)) ELSE Following(g, i)]
      BY ONLY <1>7, Zenon
    <3> HIDE DEF Following
    <3> QED  BY ONLY <3>1, Zenon
  <2>2. compute_offsets(raw, sch) = [i \in DOMAIN sch |-> Chosen[i - 1] % Word]
    BY ONLY Zenon DEF compute_offsets
  <2> QED  BY ONLY <2>1, <2>2, Zenon
<1>9. PICK g : /\ g = [i \in 0 .. n |->
                       IF i = 0 THEN BitmapSize(n)
                       ELSE g[i - 1] + IF fixed_size_of(sch[i]) > 0 THEN fixed_size_of(sch[i])
                                       ELSE WordAt(raw, g[i - 1] % w) + 2]
               /\ compute_offsets(raw, sch) = [i \in DOMAIN sch |-> g[i - 1] % w]
  BY <1>1, <1>2, <1>8
<1> DEFINE Good == {i \in Nat : i <= n => g[i] = l[i]}
<1>10. 0 \in Good
  BY <1>6, <1>9
<1>11. ASSUME NEW i \in Nat, i \in Good PROVE i + 1 \in Good
  <2> SUFFICES ASSUME i + 1 <= n PROVE g[i + 1] = l[i + 1]
    OBVIOUS
  <2>1. PICK k \in 1 .. n : k = i + 1 /\ k - 1 = i /\ k \in 0 .. n /\ k # 0
    <3>1. i + 1 \in 1 .. n /\ (i + 1) - 1 = i /\ i + 1 \in 0 .. n /\ i + 1 # 0
      OBVIOUS
    <3> QED  BY <3>1
  <2>2. g[i] = l[i]
    BY <1>11, <2>1
  <2>3. g[k] = g[i] + IF fixed_size_of(sch[k]) > 0 THEN fixed_size_of(sch[k])
                      ELSE WordAt(raw, g[i] % w) + 2
    BY <1>9, <2>1
  <2>4. l[k] = l[i] + IF fixed_size_of(sch[k]) > 0 THEN fixed_size_of(sch[k])
                      ELSE WordAt(raw, l[i] % w) + 2
    BY <1>5, <2>1
  <2> QED  BY <2>1, <2>2, <2>3, <2>4
<1>12. \A i \in Nat : i <= n => g[i] = l[i]
  <2>1. \A i \in Nat : i \in Good
    <3> HIDE DEF Good
    <3> QED  BY <1>10, <1>11, Induction
  <2> QED  BY <2>1
<1>13. ASSUME NEW i \in 1 .. n PROVE compute_offsets(raw, sch)[i] = Len(a[i - 1]) /\ Len(a[i - 1]) < Word
  <2>1. PICK j \in 0 .. n : j = i - 1 /\ j \in Nat
    <3>1. i - 1 \in 0 .. n /\ i - 1 \in Nat
      OBVIOUS
    <3> QED  BY <3>1
  <2>2. PICK x \in Nat : x = l[j] /\ x = g[j] /\ x = Len(a[j]) /\ x < w
    <3>1. l[j] \in Nat /\ l[j] = Len(a[j]) /\ g[j] = l[j]
      BY <1>4, <1>12, <2>1
    <3>2. l[j] < w
      BY <1>5, <2>1
    <3> QED  BY <3>1, <3>2
  <2>3. (x % w) = x
    <3>1. x \in 0 .. w - 1 /\ w \in Nat \ {0}
      BY ONLY <2>2, x \in Nat, w \in Nat
    <3>2. x = w * 0 + x /\ 0 \in Int /\ x \in Int
      OBVIOUS
    <3> QED  BY ONLY <3>1, <3>2, Remainder
  <2>4. i \in DOMAIN sch
    <3>1. PICK C : sch \in Seq(C)
      BY DEF RowOk
    <3>2. DOMAIN sch = 1 .. Len(sch)
      BY ONLY <3>1
    <3> QED  BY <1>1, <3>2
  <2>5. compute_offsets(raw, sch)[i] = (g[i - 1] % w)
    BY <1>9, <2>4
  <2> QED  BY <1>2, <2>1, <2>2, <2>3, <2>5
<1> QED  BY <1>1, <1>13

(* A field is read as the value that was written.                          *)
LEMMA FieldBack ==
    ASSUME NEW c, NEW v, Stored(v, c), ~v.null,
           NEW b, NEW f, NEW r, NEW raw, NEW e,
           b \in Seq(ByteValues), f \in Seq(ByteValues), r \in Seq(ByteValues),
           Lies(raw, b, f, r, e), f = Field(v, c), Len(raw) <= Word
    PROVE  deserialize_value(raw, Len(b), c) = v
<1> raw = b \o (f \o r) /\ Len(b) + Len(f) <= Word
  <2>1. PICK x \in Nat, y \in Nat, z \in Nat, w \in Nat :
            x = Len(b) /\ y = Len(f) /\ z = Len(raw) /\ w = Word
    <3>1. raw \in Seq(ByteValues)
      BY DEF Lies
    <3>2. Len(raw) \in Nat
      BY ONLY <3>1
    <3> QED  BY <3>2, Words
  <2>2. x + y <= z /\ z <= w
    BY <2>1 DEF Lies
  <2>3. x + y <= w
    BY <2>2
  <2> QED  BY <2>1, <2>3 DEF Lies
<1>1. v.data \in DataOf(c) /\ v = Of(ValueType(c.type), v.data)
  BY ValueParts DEF Stored
<1>2. PICK w \in Nat : w = Word
  BY Words
<1>3. PICK x \in Nat, y \in Nat : x = Len(b) /\ y = Len(f)
  OBVIOUS
<1>4. CASE is_fixed_size(c)
  <2>1. y = fixed_size_of(c) /\ ValueOf(c.type, f) = v.data
    BY <1>3, <1>4, FixedField
  <2>2. PICK k \in Nat, l \in Nat : k = x + 1 /\ l = x + y
    <3>1. x + 1 \in Nat /\ x + y \in Nat
      OBVIOUS
    <3> QED  BY <3>1
  <2>3. k = Len(b) + 1 /\ l = Len(b) + Len(f)
    BY <1>3, <2>2
  <2>4. SubSeq(raw, k, l) = f
    BY ONLY <2>3, raw = b \o (f \o r), b \in Seq(ByteValues), f \in Seq(ByteValues), r \in Seq(ByteValues),
            k \in Nat, l \in Nat, Piece
  <2>5. deserialize_value(raw, x, c) = Of(ValueType(c.type), ValueOf(c.type, SubSeq(raw, x + 1, x + y)))
    BY <1>4, <2>1 DEF deserialize_value
  <2> QED  BY <1>1, <1>3, <2>1, <2>2, <2>4, <2>5
<1>5. CASE ~is_fixed_size(c)
  <2>1. PICK s :
            /\ s \in Seq(ByteValues) /\ f = WordBytes(Len(s)) \o s
            /\ WordBytes(Len(s)) \in Seq(ByteValues) /\ Len(WordBytes(Len(s))) = 2
            /\ ValueOf(c.type, s) = v.data
    BY <1>5, VariableField
  <2>2. PICK m \in Nat : m = Len(s)
    BY <2>1
  <2>3. PICK d : d \in Seq(ByteValues) /\ d = WordBytes(m) /\ Len(d) = 2 /\ f = d \o s
    BY <2>1, <2>2
  <2>4. Len(d \o s) = Len(d) + Len(s)
    BY ONLY <2>1, <2>3, Joined
  <2>5. y = 2 + m
    BY <1>3, <2>2, <2>3, <2>4
  <2>6. x + (2 + m) <= w
    BY <1>2, <1>3, <2>5
  <2>7. m \in 0 .. Word - 1
    BY <1>2, <2>6
  <2>8. PICK t : t \in Seq(ByteValues) /\ t = s \o r
    <3>1. s \o r \in Seq(ByteValues)
      BY ONLY <2>1, r \in Seq(ByteValues), Joined
    <3> QED  BY <3>1
  <2>9. raw = b \o (d \o t)
    <3>1. (d \o s) \o r = d \o (s \o r)
      <4>1. d \in Seq(ByteValues) /\ s \in Seq(ByteValues)
        BY <2>1, <2>3
      <4> QED  BY ONLY <4>1, r \in Seq(ByteValues), JoinedThree
    <3> QED  BY <2>3, <2>8, <3>1
  <2>10. WordAt(raw, x) = m
    <3>1. WordAt(b \o (WordBytes(m) \o t), Len(b)) = m
      BY ONLY <2>7, <2>8, b \in Seq(ByteValues), WordFound
    <3> QED  BY <1>3, <2>3, <2>9, <3>1
  <2>11. deserialize_value(raw, x, c) =
            Of(ValueType(c.type),
               ValueOf(c.type, SubSeq(raw, ((x + 2) % w) + 1, ((x + 2) % w) + m)))
    BY <1>2, <1>5, <2>10 DEF deserialize_value
  <2>12. SubSeq(raw, ((x + 2) % w) + 1, ((x + 2) % w) + m) = s
    <3>1. CASE m = 0
      <4>1. s = <<>>
        BY ONLY <2>1, <2>2, <3>1, EmptySeq
      <4>2. PICK z \in Int : z = ((x + 2) % w)
        <5>1. w \in Nat \ {0} /\ x + 2 \in Int
          BY <2>6
        <5>2. ((x + 2) % w) \in Int
          BY ONLY <5>1
        <5> QED  BY <5>2
      <4>3. z + 1 \in Int /\ z + m \in Int /\ z + m < z + 1
        BY <3>1
      <4>4. SubSeq(raw, z + 1, z + m) = <<>>
        BY ONLY <4>3, SubSeqEmpty
      <4> QED  BY <4>1, <4>2, <4>4
    <3>2. CASE m # 0
      <4>1. PICK z \in Nat : z = x + 2
        <5>1. x + 2 \in Nat
          OBVIOUS
        <5> QED  BY <5>1
      <4>2. z < w
        BY <2>6, <3>2, <4>1
      <4>3. (z % w) = z
        <5>1. z \in 0 .. w - 1 /\ w \in Nat \ {0}
          BY <4>2
        <5>2. z = w * 0 + z /\ 0 \in Int /\ z \in Int
          OBVIOUS
        <5> QED  BY ONLY <5>1, <5>2, Remainder
      <4>4. PICK h : h \in Seq(ByteValues) /\ h = b \o d /\ Len(h) = z
        <5>1. b \o d \in Seq(ByteValues) /\ Len(b \o d) = Len(b) + Len(d)
          BY ONLY b \in Seq(ByteValues), <2>3, Joined
        <5> QED  BY <1>3, <2>3, <4>1, <5>1
      <4>5. raw = h \o (s \o r)
        <5>1. (b \o d) \o t = b \o (d \o t)
          <6>1. d \in Seq(ByteValues) /\ t \in Seq(ByteValues)
            BY <2>3, <2>8
          <6> QED  BY ONLY b \in Seq(ByteValues), <6>1, JoinedThree
        <5> QED  BY <2>8, <2>9, <4>4, <5>1
      <4>6. PICK k \in Nat, l \in Nat : k = z + 1 /\ l = z + m
        <5>1. z + 1 \in Nat /\ z + m \in Nat
          OBVIOUS
        <5> QED  BY <5>1
      <4>7. k = Len(h) + 1 /\ l = Len(h) + Len(s)
        BY <2>2, <4>4, <4>6
      <4>8. SubSeq(raw, k, l) = s
        <5>1. h \in Seq(ByteValues) /\ s \in Seq(ByteValues)
          BY <2>1, <4>4
        <5> QED  BY ONLY <4>5, <4>7, <5>1, r \in Seq(ByteValues), k \in Nat, l \in Nat, Piece
      <4> QED  BY <4>1, <4>3, <4>6, <4>8
    <3> QED  BY <3>1, <3>2
  <2> QED  BY <1>1, <1>3, <2>1, <2>11, <2>12
<1> QED  BY <1>4, <1>5

(* A row that may be stored and takes at most 64 KiB is read back as it    *)
(* was.                                                                    *)
LEMMA RowBack ==
    ASSUME NEW row, NEW sch, RowOk(row, sch), NEW raw, raw = serialize(row, sch), Len(raw) <= Word
    PROVE  deserialize(raw, sch) = row
<1>1. PICK n \in Nat \ {0} : n = Len(row) /\ n = Len(sch)
  BY DEF RowOk
<1>2. DOMAIN row = 1 .. n /\ DOMAIN sch = 1 .. n /\ row = [i \in 1 .. n |-> row[i]]
  <2>1. PICK V : row \in Seq(V)
    BY DEF RowOk
  <2>2. PICK C : sch \in Seq(C)
    BY DEF RowOk
  <2>3. DOMAIN row = 1 .. Len(row) /\ row = [i \in 1 .. Len(row) |-> row[i]]
    BY ONLY <2>1
  <2>4. DOMAIN sch = 1 .. Len(sch)
    BY ONLY <2>2
  <2> QED  BY <1>1, <2>3, <2>4
<1>3. PICK a : Grows(a, row, sch)
  BY RowGrows
<1>4. \A i \in 1 .. n : compute_offsets(raw, sch)[i] = Len(a[i - 1])
  <2>1. \A i \in 1 .. Len(row) : compute_offsets(raw, sch)[i] = Len(a[i - 1]) /\ Len(a[i - 1]) < Word
    BY ONLY <1>3, RowOk(row, sch), raw = serialize(row, sch), Len(raw) <= Word, OffsetsFound
  <2> QED  BY <1>1, <2>1
<1>5. ASSUME NEW i \in 1 .. n PROVE is_null(raw, i - 1) <=> row[i].null
  <2>1. PICK c \in 0 .. n - 1 : c = i - 1 /\ c + 1 = i
    <3>1. i - 1 \in 0 .. n - 1 /\ (i - 1) + 1 = i
      OBVIOUS
    <3> QED  BY <3>1
  <2>2. PICK s \in Seq(ByteValues) : s = a[0]
    <3>1. 0 \in 0 .. n
      OBVIOUS
    <3> QED  BY <1>1, <1>3, <3>1 DEF Grows
  <2>3. PICK r \in Seq(ByteValues) : raw = s \o r
    <3>1. 0 \in 0 .. n
      OBVIOUS
    <3> QED  BY <1>1, <1>3, <2>2, <3>1 DEF Grows
  <2>4. (is_null(s, c) <=> row[c + 1].null) /\ ByteOf(c) \in 1 .. Len(s)
    BY <1>1, <1>3, <2>2 DEF Grows
  <2>5. \A k \in 1 .. Len(s) : (s \o r)[k] = s[k]
    BY ONLY s \in Seq(ByteValues), r \in Seq(ByteValues), Joined
  <2>6. raw[ByteOf(c)] = s[ByteOf(c)]
    BY <2>3, <2>4, <2>5
  <2>7. is_null(raw, c) <=> is_null(s, c)
    BY <2>6 DEF is_null, ByteOf
  <2> QED  BY <2>1, <2>4, <2>7
<1>6. ASSUME NEW i \in 1 .. n
      PROVE  row[i] = IF is_null(raw, i - 1) THEN NullOf(ValueType(sch[i].type))
                      ELSE deserialize_value(raw, compute_offsets(raw, sch)[i], sch[i])
  <2>1. Stored(row[i], sch[i])
    BY <1>1 DEF RowOk
  <2>2. row[i].null \in BOOLEAN /\ (row[i].null => row[i] = NullOf(ValueType(sch[i].type)))
    BY <2>1, ValueParts DEF Stored
  <2>3. ASSUME ~row[i].null
        PROVE  deserialize_value(raw, compute_offsets(raw, sch)[i], sch[i]) = row[i]
    <3>1. PICK b, f, r :
              /\ b \in Seq(ByteValues) /\ f \in Seq(ByteValues) /\ r \in Seq(ByteValues)
              /\ b = a[i - 1] /\ f = Field(row[i], sch[i]) /\ Lies(raw, b, f, r, Len(a[i]))
      <4>1. i \in 1 .. Len(row) /\ raw = serialize(row, sch)
        BY <1>1, <1>3
      <4>2. PICK b, f, r : PartOf(raw, a, row, sch, i, b, f, r)
        BY ONLY <4>1, RowOk(row, sch), Grows(a, row, sch), RawParts
      <4> QED  BY <4>2 DEF PartOf
    <3>2. PICK c, v : c = sch[i] /\ v = row[i]
      OBVIOUS
    <3>3. Stored(v, c) /\ ~v.null /\ f = Field(v, c)
      BY <2>1, <2>3, <3>1, <3>2
    <3>5. PICK e : Lies(raw, b, f, r, e)
      BY <3>1
    <3>6. b \in Seq(ByteValues) /\ f \in Seq(ByteValues) /\ r \in Seq(ByteValues)
      BY <3>1
    <3>7. deserialize_value(raw, Len(b), c) = v
      BY ONLY <3>3, <3>5, <3>6, Len(raw) <= Word, FieldBack
    <3>4. deserialize_value(raw, Len(b), sch[i]) = row[i]
      BY <3>2, <3>7
    <3> QED  BY <1>4, <3>1, <3>4
  <2> QED  BY <1>5, <2>2, <2>3
<1>7. deserialize(raw, sch) = [i \in 1 .. n |->
          IF is_null(raw, i - 1) THEN NullOf(ValueType(sch[i].type))
          ELSE deserialize_value(raw, compute_offsets(raw, sch)[i], sch[i])]
  BY <1>2 DEF deserialize
<1> QED  BY <1>2, <1>6, <1>7

-----------------------------------------------------------------------------
(* A schema is a sequence of columns.                                      *)
LEMMA SchemaTyped ==
    ASSUME NEW sch \in Schemas
    PROVE  /\ sch \in Seq(Columns) /\ Len(sch) \in Nat \ {0} /\ DOMAIN sch = 1 .. Len(sch)
           /\ \A i \in 1 .. Len(sch) : ColumnOk(sch[i]) /\ sch[i].name \in Seq(ByteValues)
<1>1. PICK n \in 1 .. MaxColumns : sch \in [1 .. n -> Columns]
  BY DEF Schemas
<1>2. n \in Nat \ {0}
  BY CodecAssumption
<1>3. sch \in Seq(Columns) /\ Len(sch) = n
  BY <1>1, <1>2, Sequence
<1>4. DOMAIN sch = 1 .. n
  BY <1>1
<1>5. ASSUME NEW c \in Columns PROVE ColumnOk(c) /\ c.name \in Seq(ByteValues)
  <2>1. c \in [name : Strings, type : TypeNames, length : 0 .. Word - 1]
    BY CodecAssumption, TypeNamesAre
  <2>2. c.name \in Strings /\ c.type \in TypeNames /\ c.length \in 0 .. Word - 1
    BY <2>1
  <2> QED  BY <2>2, CodecAssumption DEF ColumnOk, ByteValues
<1> QED  BY <1>1, <1>2, <1>3, <1>4, <1>5

(* A value for one column is one for every column with values of its type. *)
LEMMA InputOk ==
    ASSUME NEW c, NEW e, NEW v, ColumnOk(c), ColumnOk(e), v \in Inputs(e), v.type = ValueType(c.type)
    PROVE  ValueOk(v, c)
<1>1. CASE v = NullOf(ValueType(e.type))
  <2>1. v.type = ValueType(e.type)
    BY <1>1 DEF NullOf
  <2> QED  BY <1>1, <2>1 DEF ValueOk
<1>2. CASE v # NullOf(ValueType(e.type))
  <2>1. PICK d : /\ v = Of(ValueType(e.type), d)
                 /\ ValueType(e.type) \in {"STRING", "BYTES"} => d \in Strings
                 /\ ValueType(e.type) \notin {"STRING", "BYTES"} /\ e.type = "BOOL" => d \in BOOLEAN
                 /\ ValueType(e.type) \notin {"STRING", "BYTES"} /\ e.type # "BOOL" => d \in Numbers(e.type)
    <3> DEFINE X == CASE ValueType(e.type) \in {"STRING", "BYTES"} -> Strings
                      [] e.type = "BOOL" -> BOOLEAN
                      [] OTHER -> {Min(Numbers(e.type)), -1, 0, Max(Numbers(e.type))} \cap Numbers(e.type)
    <3>1. Inputs(e) = {NullOf(ValueType(e.type))} \cup {Of(ValueType(e.type), d) : d \in X}
      BY Zenon DEF Inputs
    <3>3. PICK d \in X : v = Of(ValueType(e.type), d)
      <4> HIDE DEF X
      <4> QED  BY <1>2, <3>1
    <3>4. ValueType(e.type) \in {"STRING", "BYTES"} => e.type # "BOOL"
      BY TypeNamesAre
    <3>5. /\ ValueType(e.type) \in {"STRING", "BYTES"} => X = Strings
          /\ e.type = "BOOL" => X = BOOLEAN
          /\ ValueType(e.type) \notin {"STRING", "BYTES"} /\ e.type # "BOOL" => X \subseteq Numbers(e.type)
      BY <3>4
    <3> QED  BY <3>3, <3>5
  <2>2. v.type = ValueType(e.type)
    BY <2>1 DEF Of
  <2>3. /\ c.type \in NumberTypes \/ c.type \in {"BOOL", "CHAR", "VARCHAR", "VARBINARY"}
        /\ e.type \in NumberTypes \/ e.type \in {"BOOL", "CHAR", "VARCHAR", "VARBINARY"}
    BY TypeNamesAre
  <2>4. d \in DataOf(c)
    <3>1. CASE e.type \in {"CHAR", "VARCHAR", "VARBINARY"}
      <4>1. ValueType(e.type) \in {"STRING", "BYTES"}
        BY <3>1, TypeNamesAre
      <4>2. c.type \in {"CHAR", "VARCHAR", "VARBINARY"}
        BY <2>2, <2>3, <4>1, TypeNamesAre DEF NumberTypes, LongTypes, IntTypes
      <4>3. d \in Strings
        BY <2>1, <4>1
      <4>4. DataOf(c) = Seq(ByteValues)
        BY <4>2 DEF DataOf
      <4> QED  BY <4>3, <4>4, CodecAssumption DEF ByteValues
    <3>2. CASE e.type = "BOOL"
      <4>1. c.type = "BOOL"
        BY <2>2, <2>3, <3>2, TypeNamesAre DEF NumberTypes, LongTypes, IntTypes
      <4>2. d \in BOOLEAN
        <5>1. ValueType(e.type) \notin {"STRING", "BYTES"}
          BY <3>2, TypeNamesAre
        <5> QED  BY <2>1, <3>2, <5>1
      <4> QED  BY <4>1, <4>2 DEF DataOf
    <3>3. CASE e.type \in NumberTypes
      <4>1. c.type = e.type
        BY <2>2, <2>3, <3>3, TypeNamesAre DEF NumberTypes, LongTypes, IntTypes
      <4>2. ValueType(e.type) \notin {"STRING", "BYTES"} /\ e.type # "BOOL"
            /\ e.type \notin {"CHAR", "VARCHAR", "VARBINARY"}
        BY <3>3, TypeNamesAre DEF NumberTypes, LongTypes, IntTypes
      <4>3. d \in Numbers(e.type)
        BY <2>1, <4>2
      <4> QED  BY <4>1, <4>2, <4>3 DEF DataOf
    <3> QED  BY <2>3, <3>1, <3>2, <3>3
  <2> QED  BY <2>1, <2>2, <2>4 DEF ValueOk
<1> QED  BY <1>1, <1>2

(* A row of a schema has a value of its column in every place.             *)
LEMMA RowTyped ==
    ASSUME NEW sch \in Schemas, NEW row \in Rows(sch)
    PROVE  /\ \E V : row \in Seq(V)
           /\ Len(row) = Len(sch) /\ DOMAIN row = 1 .. Len(sch)
           /\ \A i \in 1 .. Len(sch) : ValueOk(row[i], sch[i])
<1>1. PICK n \in Nat \ {0} : n = Len(sch) /\ DOMAIN sch = 1 .. n
  BY SchemaTyped
<1>2. PICK V : V = UNION {Inputs(sch[i]) : i \in 1 .. n} /\ row \in [1 .. n -> V]
  BY <1>1 DEF Rows
<1>3. row \in Seq(V) /\ Len(row) = n
  BY <1>2, Sequence
<1>4. ASSUME NEW i \in 1 .. n PROVE ValueOk(row[i], sch[i])
  <2>1. row[i].type = ValueType(sch[i].type)
    BY <1>2 DEF Rows, Constructs
  <2>2. PICK j \in 1 .. n : row[i] \in Inputs(sch[j])
    BY <1>2
  <2>3. ColumnOk(sch[i]) /\ ColumnOk(sch[j])
    BY <1>1, SchemaTyped
  <2> QED  BY ONLY <2>1, <2>2, <2>3, InputOk
<1> QED  BY <1>1, <1>2, <1>3, <1>4

(* serialize accepts exactly the rows that are as declared, but for a      *)
(* VARBINARY: a column's length is below 64 KiB.                           *)
LEMMA AcceptsDeclared ==
    ASSUME NEW sch \in Schemas, NEW row \in Rows(sch)
    PROVE  Accepts(row, sch) <=>
              \A i \in DOMAIN row : Declared(row[i], sch[i]) \/ Unchecked(row[i], sch[i])
<1>1. PICK n \in Nat \ {0} : n = Len(sch) /\ DOMAIN row = 1 .. n
  BY SchemaTyped, RowTyped
<1>2. PICK w \in Nat : w = Word
  BY Words
<1>3. ASSUME NEW i \in 1 .. n
      PROVE  Declared(row[i], sch[i]) \/ Unchecked(row[i], sch[i]) <=>
                (~row[i].null =>
                    /\ sch[i].type = "CHAR" => serialized_size(row[i]) <= sch[i].length
                    /\ sch[i].type = "VARCHAR" =>
                          /\ sch[i].length > 0 => serialized_size(row[i]) <= sch[i].length
                          /\ serialized_size(row[i]) < Word)
  <2>1. PICK v, c : v = row[i] /\ c = sch[i]
    OBVIOUS
  <2>2. ColumnOk(c) /\ ValueOk(v, c)
    BY <1>1, <2>1, SchemaTyped, RowTyped
  <2>3. /\ v.type = ValueType(c.type) /\ v.null \in BOOLEAN
        /\ ~v.null => v.data \in DataOf(c)
    BY <2>2, ValueParts
  <2>4. CASE v.null
    BY <2>1, <2>4 DEF Declared
  <2>5. CASE ~v.null /\ c.type \notin {"CHAR", "VARCHAR"}
    <3>1. CASE c.type = "VARBINARY"
      BY <2>1, <2>5, <3>1 DEF Unchecked
    <3>2. CASE c.type # "VARBINARY"
      <4>1. ValueType(c.type) \notin {"STRING", "BYTES"}
        BY <2>2, <2>5, <3>2, TypeNamesAre DEF NumberTypes, LongTypes, IntTypes
      <4> QED  BY <2>1, <2>5, <4>1 DEF Declared
    <3> QED  BY <3>1, <3>2
  <2>6. CASE ~v.null /\ c.type \in {"CHAR", "VARCHAR"}
    <3>1. ValueType(c.type) = "STRING" /\ v.type = "STRING"
      BY <2>3, <2>6, TypeNamesAre
    <3>2. v.data \in Seq(ByteValues)
      BY <2>3, <2>6 DEF DataOf
    <3>3. PICK k \in Nat, l \in Nat : k = Len(v.data) /\ l = c.length /\ l < w
      <4>1. Len(v.data) \in Nat
        BY ONLY <3>2
      <4>2. c.length \in Nat /\ c.length < w
        BY <1>2, <2>2 DEF ColumnOk
      <4> QED  BY <4>1, <4>2
    <3>4. serialized_size(v) = k
      BY <3>1, <3>3 DEF serialized_size, LongTypes, IntTypes
    <3>5. Declared(v, c) <=> k <= (IF c.type = "VARCHAR" /\ l = 0 THEN w - 1 ELSE l)
      BY <1>2, <2>6, <3>1, <3>3 DEF Declared
    <3>6. CASE c.type = "CHAR"
      BY <1>2, <2>1, <2>6, <3>3, <3>4, <3>5, <3>6 DEF Unchecked
    <3>7. CASE c.type = "VARCHAR"
      <4>1. Declared(v, c) <=> (l > 0 => k <= l) /\ k < w
        BY <3>3, <3>5, <3>7
      <4> QED  BY <1>2, <2>1, <2>6, <3>3, <3>4, <3>7, <4>1 DEF Unchecked
    <3> QED  BY <2>6, <3>6, <3>7
  <2> QED  BY <2>3, <2>4, <2>5, <2>6
<1> QED  BY <1>1, <1>3 DEF Accepts

(* A row that is accepted, not spoilt and of at most 64 KiB is read back   *)
(* as it was.                                                              *)
LEMMA AcceptedBack ==
    ASSUME NEW sch \in Schemas, NEW row \in Rows(sch),
           \A i \in DOMAIN row : Declared(row[i], sch[i]) \/ Unchecked(row[i], sch[i]),
           \A i \in DOMAIN row : ~Spoilt(row[i], sch[i]),
           Len(serialize(row, sch)) <= Word
    PROVE  deserialize(serialize(row, sch), sch) = row
<1>1. RowOk(row, sch)
  BY SchemaTyped, RowTyped DEF RowOk, Stored
<1>2. PICK raw : raw = serialize(row, sch)
  OBVIOUS
<1> QED  BY <1>1, <1>2, RowBack

-----------------------------------------------------------------------------
(* Two bytes of any number, too large ones included.                       *)
LEMMA WordBytesAre ==
    ASSUME NEW n \in Int
    PROVE  WordBytes(n) \in Seq(ByteValues) /\ Len(WordBytes(n)) = 2
BY BytesOfNumber DEF WordBytes, ByteValues

(* The bytes of a column: the length of the name, the name, the number k   *)
(* of the type and the length.                                             *)
Parts(c, d, s, t, l, k) ==
    /\ d = WordBytes(Len(s)) /\ s = c.name /\ t = WordBytes(k) /\ l = WordBytes(c.length)
    /\ Len(d) = 2 /\ Len(t) = 2 /\ Len(l) = 2
    /\ k \in 0 .. Word - 1 /\ TypeIds[k + 1] = c.type
    /\ ColumnBytes(c) = d \o (s \o (t \o l))

(* A column has such parts.                                                *)
LEMMA ColumnParts ==
    ASSUME NEW c, ColumnOk(c), c.name \in Seq(ByteValues)
    PROVE  /\ \E d \in Seq(ByteValues), s \in Seq(ByteValues), t \in Seq(ByteValues),
                 l \in Seq(ByteValues), k \in 0 .. Word - 1 : Parts(c, d, s, t, l, k)
           /\ ColumnBytes(c) \in Seq(ByteValues) /\ Len(ColumnBytes(c)) = Len(c.name) + 6
<1>1. PICK s, m : s \in Seq(ByteValues) /\ m \in Nat /\ s = c.name /\ m = Len(s)
  <2>1. Len(c.name) \in Nat
    OBVIOUS
  <2> QED  BY <2>1
<1>2. PICK h \in DOMAIN TypeIds : h = (CHOOSE k \in DOMAIN TypeIds : TypeIds[k] = c.type) /\ TypeIds[h] = c.type
  <2>1. c.type \in {TypeIds[k] : k \in DOMAIN TypeIds}
    BY TypeNamesAre DEF ColumnOk
  <2> QED  BY <2>1
<1>3. PICK k \in 0 .. Word - 1 : k = h - 1 /\ k + 1 = h
  <2>1. h \in 1 .. 10 /\ 10 <= Word
    BY CodecAssumption DEF TypeIds
  <2>2. h - 1 \in 0 .. Word - 1 /\ (h - 1) + 1 = h
    BY <2>1, Words
  <2> QED  BY <2>2
<1>4. PICK d : d \in Seq(ByteValues) /\ d = WordBytes(m) /\ Len(d) = 2
  <2>1. m \in Int
    BY <1>1
  <2> QED  BY <2>1, WordBytesAre
<1>5. PICK t : t \in Seq(ByteValues) /\ t = WordBytes(k) /\ Len(t) = 2
  BY Words, WordBytesAre
<1>6. PICK l : l \in Seq(ByteValues) /\ l = WordBytes(c.length) /\ Len(l) = 2
  BY Words, WordBytesAre DEF ColumnOk
<1>7. PICK x : x \in Seq(ByteValues) /\ x = t \o l /\ Len(x) = 4
  <2>1. t \o l \in Seq(ByteValues) /\ Len(t \o l) = Len(t) + Len(l)
    BY ONLY <1>5, <1>6, Joined
  <2>2. Len(t) + Len(l) = 4
    BY <1>5, <1>6
  <2> QED  BY <2>1, <2>2, Zenon
<1>8. PICK y : y \in Seq(ByteValues) /\ y = s \o x /\ Len(y) = m + 4
  <2>1. s \o x \in Seq(ByteValues) /\ Len(s \o x) = Len(s) + Len(x)
    BY ONLY <1>1, <1>7, Joined
  <2>2. Len(s) + Len(x) = m + 4
    BY <1>1, <1>7
  <2> QED  BY <2>1, <2>2, Zenon
<1>9. PICK z : z \in Seq(ByteValues) /\ z = d \o y /\ Len(z) = m + 6
  <2>1. d \o y \in Seq(ByteValues) /\ Len(d \o y) = Len(d) + Len(y)
    BY ONLY <1>4, <1>8, Joined
  <2>2. Len(d) + Len(y) = m + 6
    BY <1>1, <1>4, <1>8
  <2> QED  BY <2>1, <2>2, Zenon
<1>10. ColumnBytes(c) = ((d \o s) \o t) \o l
  <2>1. (CHOOSE j \in DOMAIN TypeIds : TypeIds[j] = c.type) - 1 = k
    BY <1>2, <1>3
  <2> QED  BY <1>1, <1>4, <1>5, <1>6, <2>1 DEF ColumnBytes
<1>11. ColumnBytes(c) = z
  <2>1. PICK ds : ds \in Seq(ByteValues) /\ ds = d \o s
    <3>1. d \o s \in Seq(ByteValues)
      BY ONLY <1>1, <1>4, Joined
    <3> QED  BY <3>1
  <2>2. (ds \o t) \o l = ds \o (t \o l)
    <3>1. ds \in Seq(ByteValues) /\ t \in Seq(ByteValues) /\ l \in Seq(ByteValues)
      BY <1>5, <1>6, <2>1
    <3> QED  BY ONLY <3>1, JoinedThree
  <2>3. (d \o s) \o x = d \o (s \o x)
    <3>1. d \in Seq(ByteValues) /\ s \in Seq(ByteValues) /\ x \in Seq(ByteValues)
      BY <1>1, <1>4, <1>7
    <3> QED  BY ONLY <3>1, JoinedThree
  <2> QED  BY <1>7, <1>8, <1>9, <1>10, <2>1, <2>2, <2>3
<1>12. Parts(c, d, s, t, l, k)
  BY <1>1, <1>2, <1>3, <1>4, <1>5, <1>6, <1>7, <1>8, <1>9, <1>11 DEF Parts
<1>13. \E d1 \in Seq(ByteValues), s1 \in Seq(ByteValues), t1 \in Seq(ByteValues),
         l1 \in Seq(ByteValues), k1 \in 0 .. Word - 1 : Parts(c, d1, s1, t1, l1, k1)
  <2>1. d \in Seq(ByteValues) /\ s \in Seq(ByteValues) /\ t \in Seq(ByteValues) /\ l \in Seq(ByteValues)
    BY <1>1, <1>4, <1>5, <1>6
  <2>2. k \in 0 .. Word - 1
    BY <1>3
  <2> QED  BY ONLY <1>12, <2>1, <2>2, Zenon
<1> QED  BY <1>1, <1>9, <1>11, <1>13

(* A column is read where it was written, with the bytes it takes.         *)
LEMMA ColumnBack ==
    ASSUME NEW c, ColumnOk(c), c.name \in Seq(ByteValues),
           c = [name |-> c.name, type |-> c.type, length |-> c.length],
           NEW b, NEW f, NEW r, NEW raw, NEW e, b \in Seq(ByteValues), f \in Seq(ByteValues),
           r \in Seq(ByteValues), Lies(raw, b, f, r, e), f = ColumnBytes(c), Len(raw) <= Word
    PROVE  ColumnAt(raw, Len(b)) = <<c, Len(f)>>
<1>1. PICK d, s, t, l, k :
          /\ d \in Seq(ByteValues) /\ s \in Seq(ByteValues) /\ t \in Seq(ByteValues) /\ l \in Seq(ByteValues)
          /\ Parts(c, d, s, t, l, k)
  BY ColumnParts
<1>2. PICK x, m, w, z :
          /\ x \in Nat /\ m \in Nat /\ w \in Nat /\ z \in Nat
          /\ x = Len(b) /\ m = Len(s) /\ w = Word /\ z = Len(raw)
          /\ Len(f) = m + 6 /\ x + (m + 6) <= z /\ z <= w
  <2>1. raw \in Seq(ByteValues) /\ Len(b) + Len(f) <= Len(raw)
    BY DEF Lies
  <2>2. Len(raw) \in Nat /\ Len(b) \in Nat
    BY <2>1
  <2>3. Len(s) \in Nat
    BY <1>1
  <2>4. Len(f) = Len(s) + 6
    BY <1>1, ColumnParts DEF Parts
  <2> QED  BY <2>1, <2>2, <2>3, <2>4, Words
<1>3. PICK z3 : z3 \in Seq(ByteValues) /\ z3 = l \o r
  <2>1. l \o r \in Seq(ByteValues)
    BY ONLY <1>1, r \in Seq(ByteValues), Joined
  <2> QED  BY <2>1
<1>4. PICK z2 : z2 \in Seq(ByteValues) /\ z2 = t \o z3
  <2>1. t \o z3 \in Seq(ByteValues)
    BY ONLY <1>1, <1>3, Joined
  <2> QED  BY <2>1
<1>5. PICK z1 : z1 \in Seq(ByteValues) /\ z1 = s \o z2
  <2>1. s \o z2 \in Seq(ByteValues)
    BY ONLY <1>1, <1>4, Joined
  <2> QED  BY <2>1
<1>6. raw = b \o (d \o z1)
  <2>1. PICK g2 : g2 \in Seq(ByteValues) /\ g2 = t \o l
    <3>1. t \o l \in Seq(ByteValues)
      BY ONLY <1>1, Joined
    <3> QED  BY <3>1
  <2>2. PICK g1 : g1 \in Seq(ByteValues) /\ g1 = s \o g2
    <3>1. s \o g2 \in Seq(ByteValues)
      BY ONLY <1>1, <2>1, Joined
    <3> QED  BY <3>1
  <2>3. g2 \o r = t \o z3
    <3>1. t \in Seq(ByteValues) /\ l \in Seq(ByteValues) /\ r \in Seq(ByteValues)
      BY <1>1
    <3>2. (t \o l) \o r = t \o (l \o r)
      BY ONLY <3>1, JoinedThree
    <3> QED  BY ONLY <1>3, <2>1, <3>2
  <2>4. g1 \o r = s \o z2
    <3>1. s \in Seq(ByteValues) /\ g2 \in Seq(ByteValues) /\ r \in Seq(ByteValues)
      BY <1>1, <2>1
    <3>2. (s \o g2) \o r = s \o (g2 \o r)
      BY ONLY <3>1, JoinedThree
    <3> QED  BY ONLY <1>4, <2>2, <2>3, <3>2
  <2>5. f \o r = d \o z1
    <3>1. d \in Seq(ByteValues) /\ g1 \in Seq(ByteValues) /\ r \in Seq(ByteValues)
      BY <1>1, <2>2
    <3>2. (d \o g1) \o r = d \o (g1 \o r)
      BY ONLY <3>1, JoinedThree
    <3>3. f = d \o g1
      BY <1>1, <2>1, <2>2 DEF Parts
    <3> QED  BY ONLY <1>5, <2>4, <3>2, <3>3
  <2> QED  BY <2>5 DEF Lies
<1>7. PICK b1 : b1 \in Seq(ByteValues) /\ Len(b1) = x + 2 /\ raw = b1 \o z1
  <2>1. b \o d \in Seq(ByteValues) /\ Len(b \o d) = Len(b) + Len(d)
    BY ONLY <1>1, b \in Seq(ByteValues), Joined
  <2>2. (b \o d) \o z1 = b \o (d \o z1)
    <3>1. b \in Seq(ByteValues) /\ d \in Seq(ByteValues) /\ z1 \in Seq(ByteValues)
      BY <1>1, <1>5
    <3> QED  BY ONLY <3>1, JoinedThree
  <2>3. Len(b) + Len(d) = x + 2
    BY <1>1, <1>2 DEF Parts
  <2> QED  BY ONLY <1>6, <2>1, <2>2, <2>3, Zenon
<1>8. PICK b2 : b2 \in Seq(ByteValues) /\ Len(b2) = (x + 2) + m /\ raw = b2 \o z2
  <2>1. b1 \o s \in Seq(ByteValues) /\ Len(b1 \o s) = Len(b1) + Len(s)
    BY ONLY <1>1, <1>7, Joined
  <2>2. (b1 \o s) \o z2 = b1 \o (s \o z2)
    <3>1. b1 \in Seq(ByteValues) /\ s \in Seq(ByteValues) /\ z2 \in Seq(ByteValues)
      BY <1>1, <1>4, <1>7
    <3> QED  BY ONLY <3>1, JoinedThree
  <2>3. raw = b1 \o (s \o z2)
    BY ONLY <1>5, <1>7
  <2>4. Len(b1) + Len(s) = (x + 2) + m
    BY <1>2, <1>7
  <2> QED  BY ONLY <2>1, <2>2, <2>3, <2>4, Zenon
<1>9. PICK b3 : b3 \in Seq(ByteValues) /\ Len(b3) = ((x + 2) + m) + 2 /\ raw = b3 \o z3
  <2>1. b2 \o t \in Seq(ByteValues) /\ Len(b2 \o t) = Len(b2) + Len(t)
    BY ONLY <1>1, <1>8, Joined
  <2>2. (b2 \o t) \o z3 = b2 \o (t \o z3)
    <3>1. b2 \in Seq(ByteValues) /\ t \in Seq(ByteValues) /\ z3 \in Seq(ByteValues)
      BY <1>1, <1>3, <1>8
    <3> QED  BY ONLY <3>1, JoinedThree
  <2>3. raw = b2 \o (t \o z3)
    BY ONLY <1>4, <1>8
  <2>4. Len(b2) + Len(t) = ((x + 2) + m) + 2
    BY <1>1, <1>2, <1>8 DEF Parts
  <2> QED  BY ONLY <2>1, <2>2, <2>3, <2>4, Zenon
<1>10. WordAt(raw, x) = m
  <2>1. m \in 0 .. Word - 1
    BY <1>2
  <2>2. WordAt(b \o (WordBytes(m) \o z1), Len(b)) = m
    BY ONLY <1>5, <2>1, b \in Seq(ByteValues), WordFound
  <2>3. WordBytes(m) = d
    BY <1>1, <1>2 DEF Parts
  <2> QED  BY ONLY <1>2, <1>6, <2>2, <2>3
<1>11. WordAt(raw, (x + 2) + m) = k
  <2>1. k \in 0 .. Word - 1 /\ WordBytes(k) = t
    BY <1>1 DEF Parts
  <2>2. WordAt(b2 \o (WordBytes(k) \o z3), Len(b2)) = k
    BY ONLY <1>3, <1>8, <2>1, WordFound
  <2>3. raw = b2 \o (WordBytes(k) \o z3)
    BY ONLY <1>4, <1>8, <2>1
  <2> QED  BY ONLY <1>8, <2>2, <2>3
<1>12. WordAt(raw, ((x + 2) + m) + 2) = c.length
  <2>1. c.length \in 0 .. Word - 1 /\ WordBytes(c.length) = l
    BY <1>1 DEF Parts, ColumnOk
  <2>2. WordAt(b3 \o (WordBytes(c.length) \o r), Len(b3)) = c.length
    BY ONLY <1>9, <2>1, r \in Seq(ByteValues), WordFound
  <2>3. raw = b3 \o (WordBytes(c.length) \o r)
    BY ONLY <1>3, <1>9, <2>1
  <2> QED  BY ONLY <1>9, <2>2, <2>3
<1>13. SubSeq(raw, x + 3, (x + 2) + m) = c.name
  <2>1. PICK g, h : g \in Nat /\ h \in Nat /\ g = x + 3 /\ h = (x + 2) + m
    BY <1>2
  <2>2. g = Len(b1) + 1 /\ h = Len(b1) + Len(s)
    BY <1>2, <1>7, <2>1
  <2>3. raw = b1 \o (s \o z2)
    BY <1>5, <1>7
  <2>4. SubSeq(raw, g, h) = s
    <3>1. b1 \in Seq(ByteValues) /\ s \in Seq(ByteValues) /\ z2 \in Seq(ByteValues) /\ g \in Nat /\ h \in Nat
      BY <1>1, <1>4, <1>7, <2>1
    <3> QED  BY ONLY <2>2, <2>3, <3>1, Piece
  <2> QED  BY <1>1, <2>1, <2>4 DEF Parts
<1>14. ColumnAt(raw, x) =
          <<[name |-> c.name, type |-> TypeIds[k + 1], length |-> c.length], m + 6>>
  <2>1. ~(Len(raw) < x + 2 \/ Len(raw) < ((x + 2) + m) + 4)
    BY <1>2
  <2>2. ((x + 2) + m) + 0 = (x + 2) + m
    BY <1>2
  <2> QED  BY <1>10, <1>11, <1>12, <1>13, <2>1, <2>2 DEF ColumnAt
<1> QED  BY <1>1, <1>2, <1>14 DEF Parts

(* The bytes of a schema as they grow: its number of columns, then column  *)
(* after column.                                                           *)
SchemaGrows(a, sch) ==
    /\ a \in [0 .. Len(sch) -> Seq(ByteValues)]
    /\ a[0] = WordBytes(Len(sch)) /\ Len(a[0]) = 2
    /\ \A i \in 1 .. Len(sch) : a[i] = a[i - 1] \o ColumnBytes(sch[i])
    /\ a[Len(sch)] = SchemaBytes(sch)
    /\ \A i \in 0 .. Len(sch) : \E r \in Seq(ByteValues) : a[Len(sch)] = a[i] \o r

(* They do grow in this way.                                               *)
LEMMA SchemaIsGrown ==
    ASSUME NEW sch \in Schemas
    PROVE  \E a : SchemaGrows(a, sch)
<1>1. PICK n \in Nat \ {0} : n = Len(sch) /\ DOMAIN sch = 1 .. n
  BY SchemaTyped
<1>2. PICK h : h \in Seq(ByteValues) /\ h = WordBytes(n) /\ Len(h) = 2
  BY WordBytesAre
<1>3. PICK q : q = [i \in 1 .. n |-> ColumnBytes(sch[i])]
  OBVIOUS
<1>4. ASSUME NEW i \in 1 .. n PROVE q[i] \in Seq(ByteValues) /\ q[i] = ColumnBytes(sch[i])
  BY <1>1, <1>3, SchemaTyped, ColumnParts
<1>5. q \in Seq(Seq(ByteValues)) /\ Len(q) = n
  <2>1. q \in [1 .. n -> Seq(ByteValues)]
    BY <1>3, <1>4
  <2>2. n \in Nat
    OBVIOUS
  <2> QED  BY ONLY <2>1, <2>2, Sequence
<1>6. PICK a : Grown(a, h, q, ByteValues)
  BY <1>2, <1>5, GrownExists
<1>7. /\ a \in [0 .. n -> Seq(ByteValues)] /\ a[0] = h
      /\ \A i \in 1 .. n : a[i] = a[i - 1] \o ColumnBytes(sch[i])
      /\ \A i \in 0 .. n : \E r \in Seq(ByteValues) : a[n] = a[i] \o r
  BY <1>4, <1>5, <1>6 DEF Grown
<1>8. a[n] = SchemaBytes(sch)
  BY <1>1, <1>2, <1>3, <1>5, <1>6 DEF SchemaBytes, Grown
<1>9. SchemaGrows(a, sch)
  BY <1>1, <1>2, <1>7, <1>8 DEF SchemaGrows
<1> QED  BY <1>9

(* Each column lies among the bytes, behind those before it.               *)
LEMMA SchemaParts ==
    ASSUME NEW sch \in Schemas, NEW a, SchemaGrows(a, sch), NEW i \in 1 .. Len(sch),
           NEW raw, raw = SchemaBytes(sch)
    PROVE  \E b \in Seq(ByteValues), f \in Seq(ByteValues), r \in Seq(ByteValues) :
              b = a[i - 1] /\ f = ColumnBytes(sch[i]) /\ Lies(raw, b, f, r, Len(a[i]))
<1>1. PICK n \in Nat \ {0} : n = Len(sch)
  BY SchemaTyped
<1>2. PICK j \in 0 .. n : j = i - 1
  <2>1. i - 1 \in 0 .. n
    BY <1>1
  <2> QED  BY <2>1
<1>3. i \in 0 .. n /\ i \in 1 .. n
  BY <1>1
<1>4. PICK b, c : b \in Seq(ByteValues) /\ c \in Seq(ByteValues) /\ b = a[j] /\ c = a[i]
  BY <1>1, <1>3 DEF SchemaGrows
<1>5. PICK f : f \in Seq(ByteValues) /\ f = ColumnBytes(sch[i]) /\ Len(f) \in Nat \ {0}
  <2>1. ColumnOk(sch[i]) /\ sch[i].name \in Seq(ByteValues)
    BY SchemaTyped
  <2>2. ColumnBytes(sch[i]) \in Seq(ByteValues) /\ Len(ColumnBytes(sch[i])) = Len(sch[i].name) + 6
    BY <2>1, ColumnParts
  <2>3. Len(sch[i].name) \in Nat
    BY <2>1
  <2>4. Len(sch[i].name) + 6 \in Nat \ {0}
    BY ONLY <2>3
  <2> QED  BY <2>2, <2>4
<1>6. c = b \o f
  BY <1>1, <1>2, <1>3, <1>4, <1>5 DEF SchemaGrows
<1>7. PICK r : r \in Seq(ByteValues) /\ raw = c \o r
  BY <1>1, <1>3, <1>4 DEF SchemaGrows
<1>8. raw = b \o (f \o r)
  <2>1. b \in Seq(ByteValues) /\ f \in Seq(ByteValues) /\ r \in Seq(ByteValues)
    BY <1>4, <1>5, <1>7
  <2>2. (b \o f) \o r = b \o (f \o r)
    BY ONLY <2>1, JoinedThree
  <2> QED  BY ONLY <1>6, <1>7, <2>2
<1>9. Len(c) = Len(b) + Len(f)
  BY ONLY <1>4, <1>5, <1>6, Joined
<1>10. raw \in Seq(ByteValues) /\ Len(raw) = Len(c) + Len(r)
  BY ONLY <1>4, <1>7, Joined
<1>11. PICK x, y, z : x \in Nat /\ y \in Nat /\ z \in Nat /\ x = Len(b) /\ y = Len(f) /\ z = Len(r)
  <2>1. Len(b) \in Nat /\ Len(f) \in Nat /\ Len(r) \in Nat
    BY <1>4, <1>5, <1>7
  <2> QED  BY ONLY <2>1
<1>12. Len(c) = x + y /\ Len(raw) = (x + y) + z /\ x + y <= (x + y) + z
  BY <1>9, <1>10, <1>11
<1>13. Lies(raw, b, f, r, Len(a[i]))
  BY <1>4, <1>5, <1>8, <1>10, <1>11, <1>12 DEF Lies
<1>14. b = a[i - 1]
  BY <1>2, <1>4
<1> QED  BY ONLY <1>4, <1>5, <1>7, <1>13, <1>14, Zenon

(* A schema of at most 64 KiB is read back as it was: every name, and the  *)
(* number of columns, is then less than two bytes hold.                    *)
LEMMA SchemaBack ==
    ASSUME NEW sch \in Schemas, NEW raw, raw = SchemaBytes(sch), Len(raw) <= Word
    PROVE  SchemaOf(raw) = sch
<1>1. PICK n, w : n \in Nat \ {0} /\ w \in Nat \ {0} /\ w >= 4 /\ n = Len(sch) /\ w = Word
  BY SchemaTyped, Words
<1>2. PICK a : SchemaGrows(a, sch)
  BY SchemaIsGrown
<1>3. PICK l : l = [i \in 0 .. n |-> Len(a[i])]
  OBVIOUS
<1>4. \A i \in 0 .. n : l[i] \in Nat /\ l[i] = Len(a[i])
  <2>1. \A i \in 0 .. n : a[i] \in Seq(ByteValues)
    BY <1>1, <1>2 DEF SchemaGrows
  <2> QED  BY <1>3, <2>1
<1>5. ASSUME NEW i \in 1 .. n
      PROVE  \E y \in Nat \ {0} : /\ ColumnAt(raw, l[i - 1]) = <<sch[i], y>>
                                  /\ l[i] = l[i - 1] + y /\ l[i] <= w
  <2>1. PICK j : j \in 0 .. n /\ j = i - 1
    <3>1. i - 1 \in 0 .. n
      BY <1>1
    <3> QED  BY <3>1
  <2>2. PICK b, f, r : /\ b \in Seq(ByteValues) /\ f \in Seq(ByteValues) /\ r \in Seq(ByteValues)
                       /\ b = a[i - 1] /\ f = ColumnBytes(sch[i]) /\ Lies(raw, b, f, r, Len(a[i]))
    BY <1>1, <1>2, SchemaParts
  <2>3. PICK c : c = sch[i]
    OBVIOUS
  <2>4. /\ ColumnOk(c) /\ c.name \in Seq(ByteValues)
        /\ c = [name |-> c.name, type |-> c.type, length |-> c.length]
    <3>1. c \in Columns
      BY <1>1, <2>3, SchemaTyped
    <3>2. c \in [name : Strings, type : {TypeIds[k] : k \in DOMAIN TypeIds}, length : 0 .. Word - 1]
      BY <3>1, CodecAssumption
    <3>3. c = [name |-> c.name, type |-> c.type, length |-> c.length]
      BY ONLY <3>2
    <3> QED  BY <1>1, <2>3, <3>3, SchemaTyped
  <2>5. ColumnAt(raw, Len(b)) = <<c, Len(f)>>
    <3>1. PICK e : Lies(raw, b, f, r, e)
      BY <2>2
    <3>2. f = ColumnBytes(c)
      BY <2>2, <2>3
    <3> QED  BY ONLY <2>2, <2>4, <3>1, <3>2, Len(raw) <= Word, ColumnBack
  <2>6. PICK x, y, z : x \in Nat /\ y \in Nat \ {0} /\ z \in Nat /\ x = Len(b) /\ y = Len(f) /\ z = Len(raw)
    <3>1. raw \in Seq(ByteValues) /\ Len(f) # 0
      BY <2>2 DEF Lies
    <3>2. Len(raw) \in Nat /\ Len(b) \in Nat /\ Len(f) \in Nat
      BY ONLY <2>2, <3>1
    <3>3. Len(f) \in Nat \ {0}
      BY ONLY <3>1, <3>2
    <3> QED  BY ONLY <3>2, <3>3, Zenon
  <2>7. i \in 0 .. n
    BY <1>1
  <2>8. l[i - 1] = x /\ l[i] = x + y /\ x + y <= z /\ z <= w
    <3>1. l[i - 1] = Len(a[i - 1]) /\ l[i] = Len(a[i])
      BY <1>4, <2>1, <2>7
    <3>2. Len(a[i]) = Len(b) + Len(f) /\ Len(a[i]) <= Len(raw)
      BY <2>2 DEF Lies
    <3> QED  BY <1>1, <2>2, <2>6, <3>1, <3>2
  <2>9. x + y <= w
    BY ONLY <1>1, <2>6, <2>8
  <2> QED  BY <2>3, <2>5, <2>6, <2>8, <2>9
<1>6. PICK s : s = [i \in 1 .. n |-> ColumnAt(raw, l[i - 1])[2]]
  OBVIOUS
<1>7. \A i \in 1 .. n : /\ s[i] \in Nat \ {0} /\ ColumnAt(raw, l[i - 1]) = <<sch[i], s[i]>>
                        /\ l[i] = l[i - 1] + s[i] /\ l[i] <= w
  BY <1>5, <1>6
<1>8. l[0] = 2
  <2>1. 0 \in 0 .. n /\ Len(a[0]) = 2
    BY <1>1, <1>2 DEF SchemaGrows
  <2> QED  BY <1>4, <2>1
<1>9. WordAt(raw, 0) = n
  <2> DEFINE Good == {i \in Nat : i <= n => l[i] >= i + 2}
  <2>1. 0 \in Good
    BY <1>8
  <2>2. ASSUME NEW i \in Nat, i \in Good PROVE i + 1 \in Good
    <3> SUFFICES ASSUME i + 1 <= n PROVE l[i + 1] >= (i + 1) + 2
      OBVIOUS
    <3>1. PICK k : k \in 1 .. n /\ k = i + 1 /\ k - 1 = i
      <4>1. i + 1 \in 1 .. n /\ (i + 1) - 1 = i
        BY <1>1
      <4> QED  BY <4>1
    <3>2. i \in 0 .. n /\ l[i] >= i + 2
      BY <1>1, <2>2, <3>1
    <3>3. s[k] \in Nat \ {0} /\ l[k] = l[i] + s[k] /\ l[i] \in Nat
      BY <1>4, <1>7, <3>1, <3>2
    <3> QED  BY <3>1, <3>2, <3>3
  <2>3. \A i \in Nat : i \in Good
    <3> HIDE DEF Good
    <3> QED  BY <2>1, <2>2, Induction
  <2>4. l[n] >= n + 2 /\ l[n] <= w /\ l[n] \in Nat
    <3>1. n \in 1 .. n /\ n \in 0 .. n /\ n \in Nat
      BY <1>1
    <3> QED  BY <1>4, <1>7, <2>3, <3>1
  <2>5. n \in 0 .. Word - 1
    BY <1>1, <2>4
  <2>6. PICK r : r \in Seq(ByteValues) /\ raw = WordBytes(n) \o r
    <3>1. 0 \in 0 .. n
      BY <1>1
    <3> QED  BY <1>1, <1>2, <3>1 DEF SchemaGrows
  <2>7. WordAt(<<>> \o (WordBytes(n) \o r), Len(<<>>)) = n
    <3>1. <<>> \in Seq(ByteValues)
      OBVIOUS
    <3> QED  BY ONLY <2>5, <2>6, <3>1, WordFound
  <2>8. raw \in Seq(ByteValues)
    <3>1. WordBytes(n) \in Seq(ByteValues)
      BY <2>5, WordBack
    <3> QED  BY ONLY <2>6, <3>1, Joined
  <2>9. <<>> \o raw = raw /\ Len(<<>>) = 0
    BY ONLY <2>8, JoinedEmpty
  <2> QED  BY <2>6, <2>7, <2>9
<1>10. PICK R : R = [i \in 0 .. n |-> [columns |-> [k \in 1 .. i |-> sch[k]], offset |-> (l[i] % w)]]
  OBVIOUS
<1>11. R[0] = [columns |-> <<>>, offset |-> 2]
  <2>1. (2 % w) = 2
    <3>1. 2 \in 0 .. w - 1 /\ 2 = w * 0 + 2 /\ 0 \in Int /\ 2 \in Int
      BY <1>1
    <3> QED  BY ONLY <1>1, <3>1, Remainder
  <2>2. 0 \in 0 .. n
    BY <1>1
  <2>3. [k \in 1 .. 0 |-> sch[k]] = <<>>
    OBVIOUS
  <2> QED  BY <1>8, <1>10, <2>1, <2>2, <2>3
<1>12. ASSUME NEW i \in 1 .. n
       PROVE  R[i] = LET c == ColumnAt(raw, R[i - 1].offset)
                     IN  IF c = <<>> THEN R[i - 1]
                         ELSE [columns |-> Append(R[i - 1].columns, c[1]),
                               offset |-> (R[i - 1].offset + c[2]) % Word]
  <2>1. PICK j : j \in 0 .. n /\ j \in Nat /\ j = i - 1 /\ j + 1 = i /\ i \in 0 .. n
    <3>1. i - 1 \in 0 .. n /\ i - 1 \in Nat /\ (i - 1) + 1 = i /\ i \in 0 .. n
      BY <1>1
    <3> QED  BY <3>1
  <2>2. PICK x, y : /\ x \in Nat /\ y \in Nat \ {0} /\ x = l[j] /\ y = s[i]
                    /\ ColumnAt(raw, x) = <<sch[i], y>> /\ l[i] = x + y /\ x < w
    <3>1. l[j] \in Nat
      BY <1>4, <2>1
    <3>2. /\ s[i] \in Nat \ {0} /\ ColumnAt(raw, l[j]) = <<sch[i], s[i]>>
          /\ l[i] = l[j] + s[i] /\ l[i] <= w
      BY <1>7, <2>1
    <3>3. l[j] < w
      BY <1>1, <3>1, <3>2
    <3> QED  BY <3>1, <3>2, <3>3
  <2>3. (x % w) = x
    <3>1. x \in 0 .. w - 1 /\ w \in Nat \ {0} /\ x = w * 0 + x /\ 0 \in Int /\ x \in Int
      BY <1>1, <2>2
    <3> QED  BY ONLY <3>1, Remainder
  <2>4. R[j] = [columns |-> [k \in 1 .. j |-> sch[k]], offset |-> x]
    BY <1>10, <2>1, <2>2, <2>3
  <2>5. R[i] = [columns |-> [k \in 1 .. i |-> sch[k]], offset |-> ((x + y) % w)]
    BY <1>10, <2>1, <2>2
  <2>6. Append([k \in 1 .. j |-> sch[k]], sch[i]) = [k \in 1 .. i |-> sch[k]]
    <3>1. \A k \in 1 .. i : sch[k] \in Columns
      BY <1>1, SchemaTyped
    <3>2. PICK t : t \in Seq(Columns) /\ Len(t) = j /\ t = [k \in 1 .. j |-> sch[k]]
      <4>1. [k \in 1 .. j |-> sch[k]] \in [1 .. j -> Columns]
        BY <2>1, <3>1
      <4> QED  BY ONLY <2>1, <4>1, Sequence
    <3>3. PICK u : u \in Seq(Columns) /\ Len(u) = i /\ u = [k \in 1 .. i |-> sch[k]]
      <4>1. [k \in 1 .. i |-> sch[k]] \in [1 .. i -> Columns] /\ i \in Nat
        BY <3>1
      <4> QED  BY ONLY <4>1, Sequence
    <3>4. /\ Append(t, sch[i]) \in Seq(Columns) /\ Len(Append(t, sch[i])) = j + 1
          /\ \A k \in 1 .. j : Append(t, sch[i])[k] = t[k]
          /\ Append(t, sch[i])[j + 1] = sch[i]
      <4>1. sch[i] \in Columns
        BY <3>1
      <4> QED  BY ONLY <2>1, <3>2, <4>1, AppendProperties
    <3>5. PICK v : v = Append(t, sch[i])
      OBVIOUS
    <3>6. v \in Seq(Columns) /\ Len(v) = Len(u) /\ \A k \in 1 .. Len(v) : v[k] = u[k]
      BY ONLY <2>1, <3>2, <3>3, <3>4, <3>5
    <3>7. v = u
      BY ONLY <3>3, <3>6, SeqEqual
    <3> QED  BY <3>2, <3>3, <3>5, <3>7
  <2>7. ColumnAt(raw, R[j].offset) = <<sch[i], y>>
    BY <2>2, <2>4
  <2>8. R[i] = [columns |-> Append(R[j].columns, sch[i]), offset |-> ((R[j].offset + y) % w)]
    <3>1. R[j].columns = [k \in 1 .. j |-> sch[k]] /\ R[j].offset = x
      BY ONLY <2>4
    <3> QED  BY ONLY <2>5, <2>6, <3>1
  <2>9. <<sch[i], y>> # <<>> /\ <<sch[i], y>>[1] = sch[i] /\ <<sch[i], y>>[2] = y
    OBVIOUS
  <2> QED  BY <1>1, <2>1, <2>7, <2>8, <2>9
<1> DEFINE After(g, i) == LET c == ColumnAt(raw, g[i - 1].offset)
                          IN  IF c = <<>> THEN g[i - 1]
                              ELSE [columns |-> Append(g[i - 1].columns, c[1]),
                                    offset |-> (g[i - 1].offset + c[2]) % Word]
           Chosen == CHOOSE g : g = [i \in 0 .. WordAt(raw, 0) |->
                                        IF i = 0 THEN [columns |-> <<>>, offset |-> 2] ELSE After(g, i)]
<1>13. R = [i \in 0 .. WordAt(raw, 0) |-> IF i = 0 THEN [columns |-> <<>>, offset |-> 2] ELSE After(R, i)]
  <2>1. ASSUME NEW i \in 0 .. n
        PROVE  R[i] = IF i = 0 THEN [columns |-> <<>>, offset |-> 2] ELSE After(R, i)
    <3>1. CASE i = 0
      BY <1>11, <3>1
    <3>2. CASE i # 0
      <4>1. i \in 1 .. n
        BY <1>1, <3>2
      <4>2. R[i] = After(R, i)
        BY <1>12, <4>1
      <4> QED  BY <3>2, <4>2
    <3> QED  BY <3>1, <3>2
  <2>2. R = [i \in 0 .. n |-> R[i]]
    BY <1>10
  <2>3. R = [i \in 0 .. n |-> IF i = 0 THEN [columns |-> <<>>, offset |-> 2] ELSE After(R, i)]
    <3> HIDE DEF After
    <3> QED  BY ONLY <2>1, <2>2
  <2> QED  BY <1>9, <2>3
<1>14. /\ Chosen = [i \in 0 .. WordAt(raw, 0) |->
                       IF i = 0 THEN [columns |-> <<>>, offset |-> 2] ELSE After(Chosen, i)]
       /\ SchemaOf(raw) = Chosen[WordAt(raw, 0)].columns
  <2>1. \E g : g = [i \in 0 .. WordAt(raw, 0) |->
                       IF i = 0 THEN [columns |-> <<>>, offset |-> 2] ELSE After(g, i)]
    <3> HIDE DEF After
    <3> QED  BY ONLY <1>13, Zenon
  <2>2. Chosen = [i \in 0 .. WordAt(raw, 0) |->
                     IF i = 0 THEN [columns |-> <<>>, offset |-> 2] ELSE After(Chosen, i)]
    <3> HIDE DEF After
    <3> QED  BY ONLY <2>1, Zenon
  <2>3. SchemaOf(raw) = Chosen[WordAt(raw, 0)].columns
    BY ONLY Zenon DEF SchemaOf
  <2> QED  BY <2>2, <2>3
<1>15. PICK g : /\ g = [i \in 0 .. n |-> IF i = 0 THEN [columns |-> <<>>, offset |-> 2] ELSE After(g, i)]
                /\ SchemaOf(raw) = g[n].columns
  <2> HIDE DEF After, Chosen
  <2> QED  BY <1>9, <1>14
<1> DEFINE Good == {i \in Nat : i <= n => g[i] = R[i]}
<1>16. 0 \in Good
  <2>1. 0 \in 0 .. n
    BY <1>1
  <2> HIDE DEF After
  <2> QED  BY <1>11, <1>15, <2>1
<1>17. ASSUME NEW i \in Nat, i \in Good PROVE i + 1 \in Good
  <2> SUFFICES ASSUME i + 1 <= n PROVE g[i + 1] = R[i + 1]
    OBVIOUS
  <2>1. PICK k : k \in 1 .. n /\ k = i + 1 /\ k - 1 = i /\ k \in 0 .. n /\ k # 0
    <3>1. i + 1 \in 1 .. n /\ (i + 1) - 1 = i /\ i + 1 \in 0 .. n /\ i + 1 # 0
      BY <1>1
    <3> QED  BY <3>1
  <2>2. g[k - 1] = R[k - 1]
    BY <1>1, <1>17, <2>1
  <2>3. After(g, k) = After(R, k)
    BY ONLY <2>2, Zenon
  <2>4. g[k] = After(g, k) /\ R[k] = After(R, k)
    <3>1. WordAt(raw, 0) = n
      BY <1>9
    <3> HIDE DEF After
    <3> QED  BY <1>13, <1>15, <2>1, <3>1
  <2> HIDE DEF After
  <2> QED  BY <2>1, <2>3, <2>4
<1>18. g[n] = R[n]
  <2>1. \A i \in Nat : i \in Good
    <3> HIDE DEF Good
    <3> QED  BY <1>16, <1>17, Induction
  <2> QED  BY <1>1, <2>1
<1>19. R[n].columns = sch
  <2>1. n \in 0 .. n
    BY <1>1
  <2>2. R[n].columns = [k \in 1 .. n |-> sch[k]]
    BY <1>10, <2>1
  <2>3. sch = [k \in 1 .. n |-> sch[k]]
    BY <1>1, SchemaTyped
  <2> QED  BY <2>2, <2>3
<1> QED  BY <1>15, <1>18, <1>19

-----------------------------------------------------------------------------
(* The whole numbers that a double holds: at most Mantissa bits and zeros. *)
Doubles == {k \in Int : \E m \in Int, d \in Nat :
                -Pow2[Mantissa] <= m /\ m <= Pow2[Mantissa] /\ k = m * Pow2[d]}

(* The bits of k beyond those of a double.                                 *)
Beyond(k, e) ==
    /\ e \in 0 .. Bits * LongBytes
    /\ k < Pow2[Mantissa + e]
    /\ e = 0 \/ k >= Pow2[Mantissa + e - 1]

(* Every integer of 64 bits has such a number of bits.                     *)
LEMMA BeyondExists ==
    ASSUME NEW k \in 0 .. LongRange - 1
    PROVE  \E e \in 0 .. Bits * LongBytes : Beyond(k, e)
<1>1. PICK b \in Nat : b = Bits * LongBytes
  <2>1. PICK x \in Nat, y \in Nat : x = Bits /\ y = LongBytes
    BY WidthAssumption
  <2>2. x * y \in Nat
    OBVIOUS
  <2> QED  BY <2>1, <2>2
<1>2. PICK M \in Nat : M = Mantissa
  BY ComparisonAssumption
<1>3. k < Pow2[M + b]
  <2>1. b \in Nat /\ M + b \in Nat /\ b <= M + b
    OBVIOUS
  <2>2. PICK p, q : p \in Nat /\ q \in Nat /\ p = Pow2[b] /\ q = Pow2[M + b] /\ p <= q
    BY ONLY <2>1, PowersOfTwo, PowersGrow
  <2>3. k < p
    BY <1>1, <2>2 DEF LongRange, Span
  <2> QED  BY <2>2, <2>3
<1>4. PICK S : S = {e \in Nat : k < Pow2[M + e]}
  OBVIOUS
<1>5. PICK e \in S : \A n \in S : e <= n
  <2>1. S \in SUBSET Nat /\ S # {}
    BY <1>3, <1>4
  <2> QED  BY ONLY <2>1, LeastNatural
<1>6. e \in Nat /\ k < Pow2[M + e] /\ e <= b
  BY <1>3, <1>4, <1>5
<1>7. e = 0 \/ k >= Pow2[M + e - 1]
  <2>1. CASE e = 0
    BY <2>1
  <2>2. CASE e # 0
    <3>1. PICK h \in Nat : h = e - 1 /\ M + h = M + e - 1 /\ h < e
      <4>1. e - 1 \in Nat /\ M + (e - 1) = M + e - 1 /\ e - 1 < e
        BY <1>6, <2>2
      <4> QED  BY <4>1
    <3>2. h \notin S
      BY <1>5, <1>6, <3>1
    <3>3. PICK p \in Nat : p = Pow2[M + h]
      BY PowersOfTwo
    <3>4. ~(k < p)
      BY <1>4, <3>2, <3>3
    <3>5. k >= p
      BY ONLY <3>4, p \in Nat, k \in 0 .. LongRange - 1
    <3> QED  BY <3>1, <3>3, <3>5
  <2> QED  BY <2>1, <2>2
<1> QED  BY <1>1, <1>2, <1>6, <1>7 DEF Beyond

(* A 64-bit integer as a double is one of the two multiples of a power of  *)
(* two around it, and the integer itself if that is such a multiple.       *)
Rounds(k, e, u, q, x) ==
    /\ e \in Nat /\ u = Pow2[e] /\ u \in Nat \ {0} /\ q \in Nat
    /\ q * u <= k /\ k < q * u + u
    /\ x \in Int /\ q * u <= x /\ x <= q * u + u
    /\ k = q * u => x = k
    /\ e = 0 \/ k >= Pow2[Mantissa + e - 1]

(* The rounding of an integer.                                             *)
LEMMA DoubleIs ==
    ASSUME NEW k \in 0 .. LongRange - 1
    PROVE  \E e, u, q : Rounds(k, e, u, q, ToDouble(k))
<1> DEFINE E == CHOOSE e \in 0 .. Bits * LongBytes :
                   /\ k < Pow2[Mantissa + e]
                   /\ e = 0 \/ k >= Pow2[Mantissa + e - 1]
<1>1. Beyond(k, E)
  <2>1. \E e \in 0 .. Bits * LongBytes :
            /\ k < Pow2[Mantissa + e]
            /\ e = 0 \/ k >= Pow2[Mantissa + e - 1]
    BY BeyondExists DEF Beyond
  <2> QED  BY ONLY <2>1, Zenon DEF Beyond
<1> DEFINE Up(q, r, u) == 2 * r > u \/ (2 * r = u /\ q % 2 = 1)
           Rounded(q, r, u) == (IF Up(q, r, u) THEN q + 1 ELSE q) * u
<1>12. ToDouble(k) = Rounded(k \div Pow2[E], k % Pow2[E], Pow2[E])
  BY ONLY Zenon DEF ToDouble
<1> HIDE DEF E, Up, Rounded
<1>13. PICK e : e = E /\ Beyond(k, e)
  BY <1>1
<1>2. e \in Nat /\ k \in Nat
  BY <1>13 DEF Beyond
<1>3. PICK u \in Nat \ {0} : u = Pow2[e]
  BY <1>2, PowersOfTwo
<1>4. PICK q \in Nat, r \in Nat : q = k \div u /\ r = (k % u) /\ k = u * q + r /\ r < u
  <2>1. k \div u \in Nat /\ (k % u) \in Nat /\ k = u * (k \div u) + (k % u) /\ (k % u) < u
    BY <1>2
  <2> QED  BY <2>1
<1>5. PICK p \in Nat : p = q * u
  <2>1. q * u \in Nat
    OBVIOUS
  <2> QED  BY <2>1
<1>6. k = p + r
  <2>1. u * q = q * u
    OBVIOUS
  <2> QED  BY <1>4, <1>5, <2>1
<1>7. ToDouble(k) = Rounded(q, r, u)
  BY ONLY <1>3, <1>4, <1>12, <1>13
<1>8. (q + 1) * u = p + u
  BY <1>5
<1>9. ToDouble(k) = IF Up(q, r, u) THEN p + u ELSE p
  BY <1>5, <1>7, <1>8 DEF Rounded
<1>10. r = 0 => ~Up(q, r, u)
  BY <1>3 DEF Up
<1>11. Rounds(k, e, u, q, ToDouble(k))
  <2>1. p <= k /\ k < p + u /\ (k = p => r = 0)
    BY <1>4, <1>6
  <2>2. ToDouble(k) \in Int /\ p <= ToDouble(k) /\ ToDouble(k) <= p + u /\ (k = p => ToDouble(k) = k)
    BY <1>9, <1>10, <2>1
  <2> QED  BY <1>2, <1>3, <1>5, <1>13, <2>1, <2>2 DEF Rounds, Beyond
<1> QED  BY <1>11

(* Multiples of a number lie apart.                                        *)
LEMMA Multiples ==
    ASSUME NEW u \in Nat \ {0}, NEW a \in Int, NEW b \in Int
    PROVE  /\ a * u \in Int /\ b * u \in Int
           /\ a * u < b * u + u => a * u <= b * u
           /\ b * u < a * u => b * u + u <= a * u
<1>1. a * u \in Int /\ b * u \in Int
  OBVIOUS
<1>2. CASE a <= b
  <2>1. PICK c \in Nat : b = a + c
    <3>1. b - a \in Nat /\ b = a + (b - a)
      BY <1>2
    <3> QED  BY <3>1
  <2>2. c * u \in Nat /\ b * u = a * u + c * u
    BY <2>1
  <2> QED  BY <1>1, <2>2
<1>3. CASE b < a
  <2>1. PICK c \in Nat : a = b + 1 + c
    <3>1. a - b - 1 \in Nat /\ a = b + 1 + (a - b - 1)
      BY <1>3
    <3> QED  BY <3>1
  <2>2. c * u \in Nat /\ a * u = b * u + u + c * u
    BY <2>1
  <2> QED  BY <1>1, <2>2
<1> QED  BY <1>2, <1>3

(* Rounding an integer moves it past no number that a double holds.        *)
LEMMA DoubleOrder ==
    ASSUME NEW k \in 0 .. LongRange - 1, NEW f \in Doubles
    PROVE  /\ ToDouble(k) \in Int
           /\ f < k => f <= ToDouble(k)
           /\ k < f => ToDouble(k) <= f
           /\ f = k => ToDouble(k) = k
<1>1. PICK e, u, q, x : x = ToDouble(k) /\ Rounds(k, e, u, q, x)
  BY DoubleIs
<1>2. PICK M \in Nat \ {0} : M = Mantissa
  BY ComparisonAssumption
<1>3. PICK m \in Int, d \in Nat : -Pow2[M] <= m /\ m <= Pow2[M] /\ f = m * Pow2[d]
  BY <1>2 DEF Doubles
<1>4. PICK p : p \in Int /\ p = q * u /\ p <= k /\ k < p + u /\ p <= x /\ x <= p + u /\ (k = p => x = k)
  <2>1. q \in Nat /\ u \in Nat
    BY <1>1 DEF Rounds
  <2>2. q * u \in Int
    BY ONLY <2>1
  <2> QED  BY <1>1, <2>2 DEF Rounds
<1>5. /\ e \in Nat /\ u = Pow2[e] /\ u \in Nat \ {0} /\ q \in Nat /\ x \in Int /\ k \in Int
      /\ e = 0 \/ k >= Pow2[M + e - 1]
  BY <1>1, <1>2 DEF Rounds
<1>6. CASE e <= d
  <2>1. PICK c \in Nat : d = c + e
    <3>1. d - e \in Nat /\ d = (d - e) + e
      BY <1>5, <1>6
    <3> QED  BY <3>1
  <2>2. PICK v \in Nat : v = Pow2[c] /\ Pow2[d] = v * u
    BY <1>5, <2>1, PowerOfSum, PowersOfTwo
  <2>3. PICK g \in Int : g = m * v /\ f = g * u
    <3>1. m * v \in Int /\ m * (v * u) = (m * v) * u
      BY ONLY m \in Int, v \in Nat, <1>5
    <3> QED  BY <1>3, <2>2, <3>1
  <2>4. f \in Int /\ (f < p + u => f <= p) /\ (p < f => p + u <= f)
    BY <1>4, <1>5, <2>3, Multiples
  <2> QED  BY ONLY <1>1, <1>4, <1>5, <2>4
<1>7. CASE d < e
  <2>1. PICK h \in Nat : h = M + e - 1 /\ M + d <= h /\ h = (M - 1) + e /\ M - 1 \in Nat /\ M + d \in Nat
    <3>1. M + e - 1 \in Nat /\ M + d <= M + e - 1 /\ M + e - 1 = (M - 1) + e /\ M - 1 \in Nat /\ M + d \in Nat
      BY <1>5, <1>7
    <3> QED  BY <3>1
  <2>2. PICK b : b \in Nat /\ b = Pow2[h] /\ b <= k
    <3>1. e # 0
      BY <1>5, <1>7
    <3> QED  BY <1>5, <2>1, <3>1, PowersOfTwo
  <2>3. f \in Int /\ f <= b
    <3>1. PICK s, t : s \in Nat /\ t \in Nat /\ s = Pow2[M] /\ t = Pow2[d]
      BY PowersOfTwo
    <3>2. Pow2[M + d] = s * t /\ Pow2[M + d] <= b
      BY <2>1, <2>2, <3>1, PowerOfSum, PowersGrow
    <3>3. m <= s
      BY <1>3, <3>1
    <3>4. m * t <= s * t /\ m * t \in Int /\ s * t \in Int
      BY ONLY <3>1, <3>3, m \in Int
    <3> QED  BY <1>3, <2>2, <3>1, <3>2, <3>4
  <2>4. b <= p
    <3>1. PICK g : g \in Nat /\ b = g * u
      <4>1. Pow2[M - 1] \in Nat /\ Pow2[h] = Pow2[M - 1] * u
        <5>1. PICK a : a \in Nat /\ a = M - 1 /\ h = a + e /\ e \in Nat
          BY <1>5, <2>1
        <5>2. Pow2[a + e] = Pow2[a] * Pow2[e] /\ Pow2[a] \in Nat
          BY ONLY <5>1, PowerOfSum, PowersOfTwo
        <5> QED  BY <1>5, <5>1, <5>2
      <4> QED  BY <2>2, <4>1
    <3>2. g * u < q * u + u => g * u <= q * u
      BY ONLY <1>5, <3>1, Multiples
    <3>3. b < p + u
      BY ONLY <1>4, <1>5, <2>2
    <3> QED  BY <1>4, <3>1, <3>2, <3>3
  <2> QED  BY ONLY <1>1, <1>4, <1>5, <2>2, <2>3, <2>4
<1>8. e <= d \/ d < e
  BY <1>5
<1> QED  BY <1>6, <1>7, <1>8

(* Up to i two strings are the same, and there the first is the smaller    *)
(* one or ends.                                                            *)
Parting(a, b, i) ==
    /\ \A j \in 1 .. i - 1 : j <= Len(a) /\ a[j] = b[j]
    /\ i > Len(a) \/ a[i] < b[i]

(* Strings of bytes are ordered as in a dictionary: of two that differ one *)
(* comes before the other, and never both.                                 *)
LEMMA StringOrder ==
    ASSUME NEW a \in Seq(ByteValues), NEW b \in Seq(ByteValues),
           NEW t \in {"STRING", "BYTES"}
    PROVE  /\ ~(LessThan(t, a, b) /\ LessThan(t, b, a))
           /\ a = b \/ LessThan(t, a, b) \/ LessThan(t, b, a)
<1>1. PICK m \in Nat, n \in Nat : m = Len(a) /\ n = Len(b)
  OBVIOUS
<1>3. (\A i \in 1 .. m : a[i] \in Int) /\ (\A i \in 1 .. n : b[i] \in Int)
  <2>1. ByteValues \subseteq Int
    BY Spans DEF ByteValues
  <2>2. (\A i \in 1 .. m : a[i] \in ByteValues) /\ (\A i \in 1 .. n : b[i] \in ByteValues)
    BY <1>1
  <2> QED  BY <2>1, <2>2
<1>4. /\ LessThan(t, a, b) <=> \E i \in 1 .. Len(b) : Parting(a, b, i)
      /\ LessThan(t, b, a) <=> \E i \in 1 .. Len(a) : Parting(b, a, i)
  <2>1. CASE t = "STRING"
    BY <2>1, Zenon DEF LessThan, Parting
  <2>2. CASE t = "BYTES"
    BY <2>2, Zenon DEF LessThan, Parting
  <2> QED  BY <2>1, <2>2
<1>6. ASSUME NEW i \in 1 .. n, Parting(a, b, i), NEW k \in 1 .. m, Parting(b, a, k)
      PROVE  FALSE
  <2> /\ \A j \in 1 .. i - 1 : j <= m /\ a[j] = b[j]
      /\ i > m \/ a[i] < b[i]
      /\ \A j \in 1 .. k - 1 : j <= n /\ b[j] = a[j]
      /\ k > n \/ b[k] < a[k]
    BY <1>1, <1>6 DEF Parting
  <2>1. CASE i = k
    <3>1. a[i] < b[i] /\ b[i] < a[i] /\ a[i] \in Int /\ b[i] \in Int
      BY <1>3, <1>6, <2>1
    <3> QED  BY ONLY <3>1
  <2>2. CASE i < k
    <3>1. i \in 1 .. k - 1 /\ i \in 1 .. m
      BY <2>2
    <3>2. b[i] = a[i] /\ a[i] < b[i] /\ a[i] \in Int
      BY <1>3, <1>6, <3>1
    <3> QED  BY ONLY <3>2
  <2>3. CASE k < i
    <3>1. k \in 1 .. i - 1 /\ k \in 1 .. n
      BY <2>3
    <3>2. a[k] = b[k] /\ b[k] < a[k] /\ a[k] \in Int
      BY <1>3, <1>6, <3>1
    <3> QED  BY ONLY <3>2
  <2> QED  BY <2>1, <2>2, <2>3
<1>7. ~(LessThan(t, a, b) /\ LessThan(t, b, a))
  BY <1>1, <1>4, <1>6
<1>8. ASSUME a # b PROVE LessThan(t, a, b) \/ LessThan(t, b, a)
  <2>1. PICK S : S = {i \in Nat : i >= 1 /\ (i > m \/ i > n \/ a[i] # b[i])}
    OBVIOUS
  <2>2. S \in SUBSET Nat /\ S # {}
    <3>1. m + 1 \in S
      BY <2>1
    <3> QED  BY <2>1, <3>1
  <2>3. PICK i \in S : \A k \in S : i <= k
    BY ONLY <2>2, LeastNatural
  <2>4. i \in Nat /\ i >= 1 /\ (i > m \/ i > n \/ a[i] # b[i])
    BY <2>1, <2>3
  <2>5. ASSUME NEW j \in 1 .. i - 1 PROVE j <= m /\ j <= n /\ a[j] = b[j]
    <3>1. j \in Nat /\ j >= 1 /\ ~(i <= j)
      BY <2>4
    <3> QED  BY <2>1, <2>3, <3>1
  <2>6. CASE i > m /\ i > n
    <3>1. ~(m < n) /\ ~(n < m)
      <4>1. m < n => n \in 1 .. i - 1
        BY <2>4, <2>6
      <4>2. n < m => m \in 1 .. i - 1
        BY <2>4, <2>6
      <4> QED  BY <2>5, <4>1, <4>2
    <3>2. m = n /\ \A j \in 1 .. m : a[j] = b[j]
      <4>1. m = n
        BY <3>1
      <4>2. \A j \in 1 .. m : j \in 1 .. i - 1
        BY <2>4, <2>6
      <4> QED  BY <2>5, <4>1, <4>2
    <3>3. a = b
      <4>1. a \in Seq(ByteValues) /\ b \in Seq(ByteValues) /\ Len(a) = Len(b)
            /\ \A j \in 1 .. Len(a) : a[j] = b[j]
        BY <1>1, <3>2
      <4> QED  BY ONLY <4>1, SeqEqual
    <3> QED  BY <1>8, <3>3
  <2>7. CASE i > m /\ i <= n
    <3>1. i \in 1 .. n
      BY <2>4, <2>7
    <3>2. Parting(a, b, i)
      BY <1>1, <2>5, <2>7 DEF Parting
    <3> QED  BY <1>1, <1>4, <3>1, <3>2
  <2>8. CASE i <= m /\ i > n
    <3>1. i \in 1 .. m
      BY <2>4, <2>8
    <3>2. Parting(b, a, i)
      BY <1>1, <2>5, <2>8 DEF Parting
    <3> QED  BY <1>1, <1>4, <3>1, <3>2
  <2>9. CASE i <= m /\ i <= n
    <3>1. i \in 1 .. m /\ i \in 1 .. n /\ a[i] # b[i]
      BY <2>4, <2>9
    <3>2. a[i] < b[i] \/ b[i] < a[i]
      <4>1. a[i] \in Int /\ b[i] \in Int
        BY <1>3, <3>1
      <4> QED  BY ONLY <3>1, <4>1
    <3>3. Parting(a, b, i) \/ Parting(b, a, i)
      BY <1>1, <2>5, <3>2 DEF Parting
    <3> QED  BY <1>1, <1>4, <3>1, <3>3
  <2>10. i > m \/ i <= m
    BY <2>4
  <2>11. i > n \/ i <= n
    BY <2>4
  <2> QED  BY <2>6, <2>7, <2>8, <2>9, <2>10, <2>11
<1> QED  BY <1>7, <1>8

-----------------------------------------------------------------------------
(* The values of each kind that are compared, whole numbers of the width   *)
(* of their type, floating numbers that a double holds, and NaN.           *)
IntegralTypes == {"INT32", "INT64", "UINT32", "UINT64"}

FloatingTypes == {"FLOAT", "DOUBLE"}

Integral(v) == \E t \in IntegralTypes : \E d \in Numbers(t) : v = Of(t, d)

Floating(v) == \E t \in FloatingTypes, d \in Doubles \cup {NaN} : v = Of(t, d)

Truthlike(v) == \E d \in BOOLEAN : v = Of("BOOL", d)

Stringlike(v) == \E t \in {"STRING", "BYTES"}, d \in Seq(ByteValues) : v = Of(t, d)

Nothing(v) == \E t : v = NullOf(t)

Comparable(v) == Integral(v) \/ Floating(v) \/ Truthlike(v) \/ Stringlike(v) \/ Nothing(v)

(* The order of two whole numbers.                                         *)
Order(a, b) == IF a < b THEN "LESS" ELSE IF b < a THEN "GREATER" ELSE "EQ"

(* What the values of each kind are made of.                               *)
LEMMA KindsAre ==
    ASSUME NEW v
    PROVE  /\ Integral(v) => /\ v.type \in IntegralTypes /\ v.null = FALSE /\ v.data \in Numbers(v.type)
                             /\ is_integral(v) /\ ~is_floating(v) /\ is_numeric(v)
           /\ Floating(v) => /\ v.type \in FloatingTypes /\ v.null = FALSE /\ v.data \in Doubles \cup {NaN}
                             /\ ~is_integral(v) /\ is_floating(v) /\ is_numeric(v)
           /\ Truthlike(v) => /\ v.type = "BOOL" /\ v.null = FALSE /\ v.data \in BOOLEAN
                              /\ ~is_integral(v) /\ ~is_floating(v) /\ ~is_numeric(v)
           /\ Stringlike(v) => /\ v.type \in {"STRING", "BYTES"} /\ v.null = FALSE
                               /\ v.data \in Seq(ByteValues)
                               /\ ~is_integral(v) /\ ~is_floating(v) /\ ~is_numeric(v)
           /\ Nothing(v) => v.null = TRUE
<1>1. \A t, d : Of(t, d).type = t /\ Of(t, d).null = FALSE /\ Of(t, d).data = d
  BY DEF Of
<1>2. ASSUME Integral(v)
      PROVE  /\ v.type \in IntegralTypes /\ v.null = FALSE /\ v.data \in Numbers(v.type)
             /\ is_integral(v) /\ ~is_floating(v) /\ is_numeric(v)
  <2>0. PICK t \in IntegralTypes : \E d \in Numbers(t) : v = Of(t, d)
    BY <1>2 DEF Integral
  <2>1. PICK d \in Numbers(t) : v = Of(t, d)
    BY <2>0
  <2>2. v.type = t /\ v.null = FALSE /\ v.data = d
    BY <1>1, <2>1
  <2> QED  BY <2>2 DEF IntegralTypes, is_integral, is_floating, is_numeric
<1>3. ASSUME Floating(v)
      PROVE  /\ v.type \in FloatingTypes /\ v.null = FALSE /\ v.data \in Doubles \cup {NaN}
             /\ ~is_integral(v) /\ is_floating(v) /\ is_numeric(v)
  <2>1. PICK t \in FloatingTypes, d \in Doubles \cup {NaN} : v = Of(t, d)
    BY <1>3 DEF Floating
  <2>2. v.type = t /\ v.null = FALSE /\ v.data = d
    BY <1>1, <2>1
  <2>3. v.type \in {"FLOAT", "DOUBLE"}
    BY <2>2 DEF FloatingTypes
  <2>4. ~is_integral(v) /\ is_floating(v) /\ is_numeric(v)
    BY ONLY <2>3 DEF is_integral, is_floating, is_numeric
  <2> QED  BY <2>2, <2>4
<1>4. ASSUME Truthlike(v)
      PROVE  /\ v.type = "BOOL" /\ v.null = FALSE /\ v.data \in BOOLEAN
             /\ ~is_integral(v) /\ ~is_floating(v) /\ ~is_numeric(v)
  <2>1. PICK d \in BOOLEAN : v = Of("BOOL", d)
    BY <1>4 DEF Truthlike
  <2>2. v.type = "BOOL" /\ v.null = FALSE /\ v.data = d
    BY <1>1, <2>1
  <2>3. ~is_integral(v) /\ ~is_floating(v) /\ ~is_numeric(v)
    BY ONLY <2>2 DEF is_integral, is_floating, is_numeric
  <2> QED  BY <2>2, <2>3
<1>5. ASSUME Stringlike(v)
      PROVE  /\ v.type \in {"STRING", "BYTES"} /\ v.null = FALSE /\ v.data \in Seq(ByteValues)
             /\ ~is_integral(v) /\ ~is_floating(v) /\ ~is_numeric(v)
  <2>1. PICK t \in {"STRING", "BYTES"}, d \in Seq(ByteValues) : v = Of(t, d)
    BY <1>5 DEF Stringlike
  <2>2. v.type = t /\ v.null = FALSE /\ v.data = d
    BY <1>1, <2>1
  <2>3. v.type \in {"STRING", "BYTES"}
    BY <2>2
  <2>4. ~is_integral(v) /\ ~is_floating(v) /\ ~is_numeric(v)
    BY ONLY <2>3 DEF is_integral, is_floating, is_numeric
  <2> QED  BY <2>2, <2>4
<1>6. ASSUME Nothing(v) PROVE v.null = TRUE
  BY <1>6 DEF Nothing, NullOf
<1> QED  BY <1>2, <1>3, <1>4, <1>5, <1>6

(* The ranges of the integers: an uint32 fits in an int64.                 *)
LEMMA IntegerRange ==
    ASSUME NEW t \in IntegralTypes, NEW d \in Numbers(t)
    PROVE  /\ d \in Int /\ LongRange \in Nat \ {0}
           /\ t = "UINT64" => 0 <= d /\ d < LongRange
           /\ t # "UINT64" => -LongRange <= 2 * d /\ 2 * d < LongRange
<1>1. PICK x, y : x \in Nat \ {0} /\ y \in Nat \ {0} /\ x = IntBytes /\ y = LongBytes /\ x < y
  BY WidthAssumption, ComparisonAssumption
<1>2. PICK h \in Nat \ {0} : Span(y) = 2 * h /\ Span(y) \div 2 = h
  BY <1>1, EvenSpan
<1>3. PICK g \in Nat \ {0} : Span(x) = 2 * g /\ Span(x) \div 2 = g
  BY <1>1, EvenSpan
<1>4. LongRange = 2 * h
  BY <1>1, <1>2 DEF LongRange
<1>5. 2 * g <= h
  <2>1. PICK b \in Nat \ {0} : b = Bits
    BY WidthAssumption
  <2>2. PICK i, j : i \in Nat /\ j \in Nat /\ i = b * x /\ j = b * y /\ i + 1 <= j
    <3>1. PICK c \in Nat : y = x + 1 + c
      <4>1. y - x - 1 \in Nat /\ y = x + 1 + (y - x - 1)
        BY <1>1
      <4> QED  BY <4>1
    <3>2. b * x \in Nat /\ b * c \in Nat /\ b * y = b * x + b + b * c
      BY <1>1, <3>1
    <3>3. b * x + 1 <= b * y /\ b * y \in Nat
      BY <3>2
    <3> QED  BY <3>2, <3>3
  <2>3. i + 1 \in Nat /\ Pow2[i + 1] = 2 * Pow2[i] /\ Pow2[i] \in Nat /\ Pow2[j] \in Nat
    BY ONLY <2>2, PowersOfTwo
  <2>4. Pow2[i + 1] <= Pow2[j]
    BY ONLY <2>2, <2>3, PowersGrow
  <2>5. Span(x) = Pow2[i] /\ Span(y) = Pow2[j]
    BY <2>1, <2>2 DEF Span
  <2> QED  BY <1>2, <1>3, <2>3, <2>4, <2>5
<1>6. CASE t = "UINT64"
  <2>1. d \in 0 .. Span(y) - 1
    BY <1>1, <1>6 DEF Numbers, LongTypes
  <2> QED  BY <1>2, <1>4, <1>6, <2>1
<1>7. CASE t = "INT64"
  <2>1. d \in -(Span(y) \div 2) .. Span(y) \div 2 - 1
    BY <1>1, <1>7 DEF Numbers, LongTypes
  <2>2. d \in -h .. h - 1
    BY <1>2, <2>1
  <2> QED  BY <1>4, <1>7, <2>2
<1>8. CASE t = "INT32"
  <2>1. d \in -(Span(x) \div 2) .. Span(x) \div 2 - 1
    BY <1>1, <1>8 DEF Numbers, LongTypes
  <2>2. d \in -g .. g - 1
    BY <1>3, <2>1
  <2> QED  BY <1>4, <1>5, <1>8, <2>2
<1>9. CASE t = "UINT32"
  <2>1. d \in 0 .. Span(x) - 1
    BY <1>1, <1>9 DEF Numbers, LongTypes
  <2> QED  BY <1>3, <1>4, <1>5, <1>9, <2>1
<1> QED  BY <1>6, <1>7, <1>8, <1>9 DEF IntegralTypes

(* The order of two whole numbers, as it is computed and its converse.     *)
LEMMA WholeOrder ==
    ASSUME NEW a \in Int, NEW b \in Int, NEW t \in {"INT64", "DOUBLE"}
    PROVE  /\ compare_generic(t, a, b) = Order(a, b)
           /\ Order(b, a) = Converse(Order(a, b))
<1>1. LessThan(t, a, b) = (a < b) /\ LessThan(t, b, a) = (b < a)
  <2>1. t # "BOOL" /\ t \notin {"STRING", "BYTES"}
    OBVIOUS
  <2>2. \A x, y : LessThan(t, x, y) = (x < y)
    BY ONLY <2>1, Zenon DEF LessThan
  <2> QED  BY <2>2
<1>2. compare_generic(t, a, b) = Order(a, b)
  BY <1>1 DEF compare_generic, Order
<1>3. Order(b, a) = Converse(Order(a, b))
  <2>1. CASE a < b
    BY <2>1 DEF Order, Converse
  <2>2. CASE b < a
    BY <2>2 DEF Order, Converse
  <2>3. CASE a = b
    BY <2>3 DEF Order, Converse
  <2> QED  BY <2>1, <2>2, <2>3
<1> QED  BY <1>2, <1>3

(* Two integers of any types are compared as numbers.                      *)
LEMMA IntegralOrder ==
    ASSUME NEW l, NEW r, Integral(l), Integral(r)
    PROVE  /\ l.data \in Int /\ r.data \in Int
           /\ compare(l, r) = Order(l.data, r.data)
<1>1. PICK a, b, s, t, n : a = l.data /\ b = r.data /\ s = l.type /\ t = r.type /\ n = LongRange
  OBVIOUS
<1>2. /\ s \in IntegralTypes /\ t \in IntegralTypes /\ a \in Numbers(s) /\ b \in Numbers(t)
      /\ l.null = FALSE /\ r.null = FALSE /\ is_integral(l) /\ is_integral(r)
  BY <1>1, KindsAre
<1>3. /\ a \in Int /\ b \in Int /\ n \in Nat \ {0}
      /\ s = "UINT64" => 0 <= a /\ a < n
      /\ s # "UINT64" => -n <= 2 * a /\ 2 * a < n
      /\ t = "UINT64" => 0 <= b /\ b < n
      /\ t # "UINT64" => -n <= 2 * b /\ 2 * b < n
  BY <1>1, <1>2, IntegerRange
<1>4. compare(l, r) = CompareIntegral(l, r)
  BY <1>2 DEF compare
<1>5. compare_generic("INT64", a, b) = Order(a, b)
  BY <1>3, WholeOrder
<1>6. /\ CompareIntegral(l, r) =
            IF (s = "UINT64") = (t = "UINT64") THEN compare_generic("INT64", a, b)
            ELSE IF s = "UINT64"
            THEN IF IsAboveInt64(l) THEN "GREATER" ELSE compare_generic("INT64", AsInt64(a), b)
            ELSE IF IsAboveInt64(r) THEN "LESS" ELSE compare_generic("INT64", a, AsInt64(b))
      /\ IsAboveInt64(l) = (2 * a >= n) /\ IsAboveInt64(r) = (2 * b >= n)
      /\ AsInt64(a) = (IF 2 * a >= n THEN a - n ELSE a)
      /\ AsInt64(b) = (IF 2 * b >= n THEN b - n ELSE b)
  BY <1>1, Zenon DEF CompareIntegral, IsAboveInt64, AsInt64
<1>7. CASE (s = "UINT64") = (t = "UINT64")
  BY <1>1, <1>3, <1>4, <1>5, <1>6, <1>7
<1>8. CASE s = "UINT64" /\ t # "UINT64"
  <2>1. CASE 2 * a >= n
    <3>1. Order(a, b) = "GREATER"
      BY <1>3, <1>8, <2>1 DEF Order
    <3>2. CompareIntegral(l, r) = "GREATER"
      BY <1>6, <1>8, <2>1
    <3> QED  BY <1>1, <1>3, <1>4, <3>1, <3>2
  <2>2. CASE ~(2 * a >= n)
    <3>1. CompareIntegral(l, r) = compare_generic("INT64", a, b)
      BY <1>6, <1>8, <2>2
    <3> QED  BY <1>1, <1>3, <1>4, <1>5, <3>1
  <2> QED  BY <2>1, <2>2
<1>9. CASE s # "UINT64" /\ t = "UINT64"
  <2>1. CASE 2 * b >= n
    <3>1. Order(a, b) = "LESS"
      BY <1>3, <1>9, <2>1 DEF Order
    <3>2. CompareIntegral(l, r) = "LESS"
      BY <1>6, <1>9, <2>1
    <3> QED  BY <1>1, <1>3, <1>4, <3>1, <3>2
  <2>2. CASE ~(2 * b >= n)
    <3>1. CompareIntegral(l, r) = compare_generic("INT64", a, b)
      BY <1>6, <1>9, <2>2
    <3> QED  BY <1>1, <1>3, <1>4, <1>5, <3>1
  <2> QED  BY <2>1, <2>2
<1> QED  BY <1>7, <1>8, <1>9

(* An integer that is not negative, compared with a double as a double:    *)
(* the order of the numbers, or equal if the integer was rounded.          *)
LEMMA MixedOrder ==
    ASSUME NEW v, Integral(v), NEW f \in Doubles
    PROVE  /\ v.data \in Int /\ f \in Int /\ AsDouble(v) \in Int
           /\ v.data >= 0 =>
                /\ \/ Order(AsDouble(v), f) = Order(v.data, f)
                   \/ ToDouble(v.data) # v.data /\ Order(AsDouble(v), f) = "EQ"
                /\ \/ Order(f, AsDouble(v)) = Order(f, v.data)
                   \/ ToDouble(v.data) # v.data /\ Order(f, AsDouble(v)) = "EQ"
<1>1. PICK a, t, n : a = v.data /\ t = v.type /\ n = LongRange
  OBVIOUS
<1>2. t \in IntegralTypes /\ a \in Numbers(t) /\ ~is_floating(v)
  BY <1>1, KindsAre
<1>3. /\ a \in Int /\ n \in Nat \ {0}
      /\ t = "UINT64" => 0 <= a /\ a < n
      /\ t # "UINT64" => -n <= 2 * a /\ 2 * a < n
  BY <1>1, <1>2, IntegerRange
<1>4. f \in Int
  BY DEF Doubles
<1>5. PICK k : k = (a % n) /\ k \in 0 .. n - 1 /\ (a >= 0 => k = a)
  <2>1. (a % n) \in 0 .. n - 1
    BY <1>3
  <2>2. a >= 0 => a \in 0 .. n - 1
    BY <1>3
  <2>3. a \in 0 .. n - 1 => (a % n) = a
    BY ONLY <1>3
  <2> QED  BY <2>1, <2>2, <2>3
<1>6. AsDouble(v) = ToDouble(k)
  BY ONLY <1>1, <1>2, <1>5, Zenon DEF AsDouble
<1>7. PICK x : x = ToDouble(k) /\ x \in Int /\ (f < k => f <= x) /\ (k < f => x <= f) /\ (f = k => x = k)
  BY <1>1, <1>5, DoubleOrder
<1>8. ASSUME a >= 0
      PROVE  /\ Order(x, f) = Order(a, f) \/ (ToDouble(a) # a /\ Order(x, f) = "EQ")
             /\ Order(f, x) = Order(f, a) \/ (ToDouble(a) # a /\ Order(f, x) = "EQ")
  <2>1. k = a /\ x = ToDouble(a)
    BY <1>5, <1>7, <1>8
  <2>2. CASE f = x /\ f # a
    BY <1>4, <2>1, <2>2 DEF Order
  <2>3. CASE f = a
    BY <1>7, <2>1, <2>3
  <2>4. CASE f # x /\ f < a
    BY <1>3, <1>4, <1>7, <2>1, <2>4 DEF Order
  <2>5. CASE f # x /\ a < f
    BY <1>3, <1>4, <1>7, <2>1, <2>5 DEF Order
  <2> QED  BY <1>3, <1>4, <2>2, <2>3, <2>4, <2>5
<1> QED  BY <1>1, <1>3, <1>4, <1>6, <1>7, <1>8

(* What a comparison finds between values of each kind.                    *)
LEMMA OtherOrder ==
    ASSUME NEW l, NEW r,
           (Truthlike(l) /\ Truthlike(r)) \/ (Stringlike(l) /\ Stringlike(r)),
           l.type = r.type
    PROVE  /\ compare(l, r) = TrueOrder(l, r)
           /\ compare(r, l) = Converse(compare(l, r))
<1>1. PICK a, b, t : a = l.data /\ b = r.data /\ t = l.type
  OBVIOUS
<1>2. l.null = FALSE /\ r.null = FALSE /\ ~is_integral(l) /\ ~is_integral(r) /\ ~is_numeric(l) /\ ~is_numeric(r)
  BY KindsAre
<1>3. compare(l, r) = compare_generic(t, a, b) /\ compare(r, l) = compare_generic(t, b, a)
  BY <1>1, <1>2 DEF compare
<1>4. TrueOrder(l, r) = IF a = b THEN "EQ" ELSE IF LessThan(t, a, b) THEN "LESS" ELSE "GREATER"
  BY <1>1, <1>2 DEF TrueOrder
<1>5. /\ ~(LessThan(t, a, b) /\ LessThan(t, b, a))
      /\ a = b \/ LessThan(t, a, b) \/ LessThan(t, b, a)
      /\ a = b => ~LessThan(t, a, b)
  <2>1. CASE Truthlike(l) /\ Truthlike(r)
    <3>1. t = "BOOL" /\ a \in BOOLEAN /\ b \in BOOLEAN
      BY <1>1, <2>1, KindsAre
    <3>2. LessThan(t, a, b) = (~a /\ b) /\ LessThan(t, b, a) = (~b /\ a)
      BY ONLY <3>1, Zenon DEF LessThan
    <3>3. a = TRUE \/ a = FALSE
      BY <3>1
    <3>4. b = TRUE \/ b = FALSE
      BY <3>1
    <3> QED  BY ONLY <3>2, <3>3, <3>4
  <2>2. CASE Stringlike(l) /\ Stringlike(r)
    <3>1. t \in {"STRING", "BYTES"} /\ a \in Seq(ByteValues) /\ b \in Seq(ByteValues)
      BY <1>1, <2>2, KindsAre
    <3>2. /\ ~(LessThan(t, a, b) /\ LessThan(t, b, a))
          /\ a = b \/ LessThan(t, a, b) \/ LessThan(t, b, a)
      BY <3>1, StringOrder
    <3> QED  BY <3>2
  <2> QED  BY <2>1, <2>2
<1>6. /\ compare_generic(t, a, b) = (IF LessThan(t, a, b) THEN "LESS" ELSE IF LessThan(t, b, a) THEN "GREATER" ELSE "EQ")
      /\ compare_generic(t, b, a) = (IF LessThan(t, b, a) THEN "LESS" ELSE IF LessThan(t, a, b) THEN "GREATER" ELSE "EQ")
  BY DEF compare_generic
<1> QED  BY <1>3, <1>4, <1>5, <1>6 DEF Converse

(* ComparisonExpression::compare of two values of any types and any width: *)
(* it finds the order of the values, and the converse when the operands    *)
(* change places.  The two exceptions are those AgreesOn names: a negative *)
(* integer, and an integer that a double cannot hold, each compared with a *)
(* floating value.                                                         *)
THEOREM ValuesInOrder ==
    \A l, r : Comparable(l) /\ Comparable(r) => AgreesOn(l, r)
<1> SUFFICES ASSUME NEW l, NEW r, Comparable(l), Comparable(r)
             PROVE  AgreesOn(l, r)
  OBVIOUS
<1>1. PICK c, d, x, y, a, b :
        c = compare(l, r) /\ d = compare(r, l) /\ x = AsDouble(l) /\ y = AsDouble(r) /\ a = l.data /\ b = r.data
  OBVIOUS
<1>2. CASE l.null = TRUE \/ r.null = TRUE
  <2>1. c = "UNKNOWN" /\ d = "UNKNOWN"
    BY <1>1, <1>2 DEF compare
  <2>2. d = Converse(c)
    BY <2>1 DEF Converse
  <2> QED  BY <1>1, <1>2, <2>2, Zenon DEF AgreesOn
<1>3. ASSUME d = Converse(c), c = TrueOrder(l, r)
      PROVE  AgreesOn(l, r)
  BY <1>1, <1>3, Zenon DEF AgreesOn
<1>4. CASE Integral(l) /\ Integral(r)
  <2>1. a \in Int /\ b \in Int /\ c = Order(a, b) /\ d = Order(b, a)
    BY <1>1, <1>4, IntegralOrder
  <2>2. d = Converse(c)
    BY <2>1, WholeOrder
  <2>3. TrueOrder(l, r) = Order(a, b)
    <3>1. is_numeric(l) /\ is_numeric(r) /\ NaN \notin {a, b}
      BY <1>4, <2>1, KindsAre, ComparisonAssumption
    <3> QED  BY <1>1, <2>1, <3>1 DEF TrueOrder, Order
  <2> QED  BY <1>3, <2>1, <2>2, <2>3
<1>5. ASSUME Integral(l) \/ Floating(l), Integral(r) \/ Floating(r), Floating(l) \/ Floating(r)
      PROVE  AgreesOn(l, r)
  <2>1. /\ l.null = FALSE /\ r.null = FALSE /\ is_numeric(l) /\ is_numeric(r)
        /\ ~(is_integral(l) /\ is_integral(r))
    BY <1>5, KindsAre
  <2>2. /\ Floating(l) => x = a /\ a \in Doubles \cup {NaN}
        /\ Integral(l) => x \in Int /\ a \in Int
        /\ Floating(r) => y = b /\ b \in Doubles \cup {NaN}
        /\ Integral(r) => y \in Int /\ b \in Int
    <3>1. Floating(l) => x = a /\ a \in Doubles \cup {NaN}
      BY <1>1, KindsAre DEF AsDouble
    <3>2. Floating(r) => y = b /\ b \in Doubles \cup {NaN}
      BY <1>1, KindsAre DEF AsDouble
    <3>3. 0 \in Doubles
      <4>1. PICK p : p \in Nat /\ p = Pow2[Mantissa] /\ Pow2[0] \in Nat
        BY PowersOfTwo, ComparisonAssumption
      <4>2. 0 \in Int /\ 0 \in Nat /\ -p <= 0 /\ 0 <= p /\ 0 = 0 * Pow2[0]
        BY <4>1
      <4> QED  BY <4>1, <4>2 DEF Doubles
    <3>4. (Integral(l) => x \in Int /\ a \in Int) /\ (Integral(r) => y \in Int /\ b \in Int)
      BY <1>1, <3>3, MixedOrder
    <3> QED  BY <3>1, <3>2, <3>4
  <2>3. Doubles \subseteq Int /\ NaN \notin Int
    BY ComparisonAssumption DEF Doubles
  <2>4. /\ c = IF NaN \in {x, y} THEN "UNKNOWN" ELSE compare_generic("DOUBLE", x, y)
        /\ d = IF NaN \in {y, x} THEN "UNKNOWN" ELSE compare_generic("DOUBLE", y, x)
    BY <1>1, <2>1 DEF compare
  <2>5. TrueOrder(l, r) = IF NaN \in {a, b} THEN "UNKNOWN" ELSE Order(a, b)
    <3>1. NaN \notin {a, b} => a \in Int /\ b \in Int
      BY <1>5, <2>2, <2>3
    <3>2. TrueOrder(l, r) = IF NaN \in {a, b} THEN "UNKNOWN"
                            ELSE IF a < b THEN "LESS" ELSE IF a > b THEN "GREATER" ELSE "EQ"
      BY ONLY <1>1, <2>1, Zenon DEF TrueOrder
    <3> QED  BY <3>1, <3>2 DEF Order
  <2>6. CASE NaN \in {a, b}
    <3>1. NaN \in {x, y}
      BY <1>5, <2>2, <2>3, <2>6
    <3>2. c = "UNKNOWN" /\ d = "UNKNOWN" /\ TrueOrder(l, r) = "UNKNOWN"
      BY <2>4, <2>5, <2>6, <3>1
    <3>3. d = Converse(c)
      BY <3>2 DEF Converse
    <3> QED  BY <1>3, <3>2, <3>3
  <2>7. CASE NaN \notin {a, b}
    <3>1. x \in Int /\ y \in Int /\ a \in Int /\ b \in Int /\ NaN \notin {x, y}
      BY <1>5, <2>2, <2>3, <2>7
    <3>2. c = Order(x, y) /\ d = Order(y, x) /\ d = Converse(c) /\ TrueOrder(l, r) = Order(a, b)
      BY <2>4, <2>5, <2>7, <3>1, WholeOrder
    <3>3. CASE Floating(l) /\ Floating(r)
      BY <1>3, <2>2, <3>2, <3>3
    <3>4. CASE Integral(l) /\ Floating(r)
      <4>1. b \in Doubles /\ y = b /\ ~is_floating(l) /\ is_floating(r)
        BY <2>2, <2>7, <3>4, KindsAre
      <4>2. a >= 0 => c = Order(a, b) \/ (ToDouble(a) # a /\ c = "EQ")
        BY <1>1, <3>2, <3>4, <4>1, MixedOrder
      <4>3. c = TrueOrder(l, r) \/ a < 0 \/ (ToDouble(a) # a /\ c = "EQ")
        BY <3>1, <3>2, <4>2
      <4> QED  BY ONLY <1>1, <2>1, <3>2, <4>1, <4>3, Zenon DEF AgreesOn
    <3>5. CASE Floating(l) /\ Integral(r)
      <4>1. a \in Doubles /\ x = a /\ is_floating(l) /\ ~is_floating(r)
        BY <2>2, <2>7, <3>5, KindsAre
      <4>2. b >= 0 => c = Order(a, b) \/ (ToDouble(b) # b /\ c = "EQ")
        BY <1>1, <3>2, <3>5, <4>1, MixedOrder
      <4>3. c = TrueOrder(l, r) \/ b < 0 \/ (ToDouble(b) # b /\ c = "EQ")
        BY <3>1, <3>2, <4>2
      <4> QED  BY ONLY <1>1, <2>1, <3>2, <4>1, <4>3, Zenon DEF AgreesOn
    <3> QED  BY <1>5, <3>3, <3>4, <3>5
  <2> QED  BY <2>6, <2>7
<1>6. ASSUME l.null = FALSE, r.null = FALSE, ~(is_numeric(l) /\ is_numeric(r)), l.type # r.type
      PROVE  AgreesOn(l, r)
  <2>1. ~(is_integral(l) /\ is_integral(r))
    BY <1>6 DEF is_numeric
  <2>2. c = "UNKNOWN" /\ d = "UNKNOWN"
    BY <1>1, <1>6, <2>1 DEF compare
  <2>3. TrueOrder(l, r) = "UNKNOWN"
    BY <1>6 DEF TrueOrder
  <2>4. d = Converse(c)
    BY <2>2 DEF Converse
  <2> QED  BY <1>3, <2>2, <2>3, <2>4
<1>7. CASE /\ (Truthlike(l) /\ Truthlike(r)) \/ (Stringlike(l) /\ Stringlike(r))
           /\ l.type = r.type
  BY <1>1, <1>3, <1>7, OtherOrder
<1>8. ASSUME l.null # TRUE, r.null # TRUE
      PROVE  AgreesOn(l, r)
  <2>1. ~Nothing(l) /\ ~Nothing(r)
    BY <1>8, KindsAre
  <2>2. l.null = FALSE /\ r.null = FALSE
    BY <2>1, KindsAre DEF Comparable
  <2>3. CASE is_numeric(l) /\ is_numeric(r)
    <3>1. (Integral(l) \/ Floating(l)) /\ (Integral(r) \/ Floating(r))
      BY <2>1, <2>3, KindsAre DEF Comparable
    <3> QED  BY <1>4, <1>5, <3>1
  <2>4. CASE ~(is_numeric(l) /\ is_numeric(r)) /\ l.type # r.type
    BY <1>6, <2>2, <2>4
  <2>5. CASE ~(is_numeric(l) /\ is_numeric(r)) /\ l.type = r.type
    <3>1. ~is_numeric(l) /\ ~is_numeric(r)
      BY <2>5 DEF is_numeric, is_integral, is_floating
    <3>2. (Truthlike(l) \/ Stringlike(l)) /\ (Truthlike(r) \/ Stringlike(r))
      BY <2>1, <3>1, KindsAre DEF Comparable
    <3>3. Truthlike(l) <=> Truthlike(r)
      BY <2>5, <3>2, KindsAre
    <3>4. (Truthlike(l) /\ Truthlike(r)) \/ (Stringlike(l) /\ Stringlike(r))
      BY ONLY <3>2, <3>3, Zenon
    <3> QED  BY <1>7, <2>5, <3>4
  <2> QED  BY <2>3, <2>4, <2>5
<1> QED  BY <1>2, <1>8

=============================================================================
