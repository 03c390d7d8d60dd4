-------------------------- MODULE MarketViewProofs --------------------------
(***************************************************************************)
(* What holds of the analysis (src/ta, src/market/strength.py) for every   *)
(* list of candles, every history of volatilities, every option chain and  *)
(* every period.  The recursive functions are unfolded by induction over   *)
(* the least number for which a fact would fail (LeastNumber).             *)
(***************************************************************************)
EXTENDS MarketView, DataLemmas

-----------------------------------------------------------------------------
(* Fractions.  The equation of Gcd, up to the number n.                    *)

GcdAt(g, n) == g[n] = [m \in Nat |-> IF n = 0 THEN m ELSE g[m % n][n]]

GcdUpTo(g, n) == \A k \in 0..n : GcdAt(g, k)

(* Two solutions agree as far as both go.                                  *)
LEMMA GcdUnique ==
    ASSUME NEW g, NEW h, NEW m \in Nat, NEW n \in Nat, GcdUpTo(g, m), GcdUpTo(h, n), m <= n
    PROVE  g[m] = h[m]
<1> DEFINE Bad == {k \in 0..m : g[k] # h[k]}
<1>1. ASSUME Bad # {}
      PROVE  FALSE
  <2>1. PICK k \in Bad : \A j \in Bad : k <= j
    <3>1. Bad \in SUBSET Nat
      OBVIOUS
    <3> HIDE DEF Bad
    <3> QED
      BY <1>1, <3>1, LeastNumber
  <2>2. k \in 0..m /\ k \in 0..n /\ g[k] # h[k]
    OBVIOUS
  <2>3. \A j \in 0..k - 1 : g[j] = h[j]
    BY <2>1, <2>2
  <2>4. GcdAt(g, k) /\ GcdAt(h, k)
    BY <2>2 DEF GcdUpTo
  <2>5. CASE k = 0
    BY <2>2, <2>4, <2>5 DEF GcdAt
  <2>6. CASE k # 0
    <3>1. ASSUME NEW i \in Nat
          PROVE  g[i % k] = h[i % k]
      <4>1. i % k \in 0..k - 1
        BY <2>2, <2>6
      <4> QED
        BY <2>3, <4>1
    <3>2. [i \in Nat |-> IF k = 0 THEN i ELSE g[i % k][k]]
              = [i \in Nat |-> IF k = 0 THEN i ELSE h[i % k][k]]
      BY <3>1
    <3> QED
      BY <2>2, <2>4, <3>2, Zenon DEF GcdAt
  <2> QED
    BY <2>5, <2>6
<1> QED
  BY <1>1

(* The equation has a solution up to every number.                         *)
LEMMA GcdExistsUpTo == \A n \in Nat : \E g : GcdUpTo(g, n)
<1> DEFINE Bad == {n \in Nat : ~\E g : GcdUpTo(g, n)}
<1>1. ASSUME Bad # {}
      PROVE  FALSE
  <2>1. PICK n \in Bad : \A k \in Bad : n <= k
    <3>1. Bad \in SUBSET Nat
      OBVIOUS
    <3> HIDE DEF Bad
    <3> QED
      BY <1>1, <3>1, LeastNumber
  <2>2. n # 0
    <3> DEFINE zero == [k \in {0} |-> [m \in Nat |-> m]]
    <3>1. GcdAt(zero, 0)
      BY DEF GcdAt
    <3> HIDE DEF zero
    <3>2. GcdUpTo(zero, 0)
      <4>1. \A k \in 0..0 : k = 0
        OBVIOUS
      <4> QED
        BY <3>1, <4>1 DEF GcdUpTo
    <3> QED
      BY <3>2
  <2>3. PICK g : GcdUpTo(g, n - 1)
    <3>1. n - 1 \in Nat /\ ~(n <= n - 1)
      BY <2>2
    <3> QED
      BY <2>1, <3>1
  <2> DEFINE h == [k \in 0..n |->
                      IF k < n THEN g[k]
                      ELSE [m \in Nat |-> IF n = 0 THEN m ELSE g[m % n][n]]]
  <2>4. \A k \in 0..n - 1 : h[k] = g[k]
    OBVIOUS
  <2>5. h[n] = [m \in Nat |-> IF n = 0 THEN m ELSE g[m % n][n]]
    OBVIOUS
  <2> HIDE DEF h
  <2>6. ASSUME NEW k \in 0..n
        PROVE  GcdAt(h, k)
    <3>1. ASSUME NEW m \in Nat, k # 0
          PROVE  h[m % k] = g[m % k]
      <4>1. m % k \in 0..k - 1
        BY <3>1
      <4>2. m % k \in 0..n - 1
        BY <4>1
      <4> QED
        BY <2>4, <4>2
    <3>2. [m \in Nat |-> IF k = 0 THEN m ELSE h[m % k][k]]
              = [m \in Nat |-> IF k = 0 THEN m ELSE g[m % k][k]]
      BY <3>1
    <3>3. CASE k = n
      BY <2>5, <3>2, <3>3, Zenon DEF GcdAt
    <3>4. CASE k # n
      <4>1. k \in 0..n - 1
        BY <3>4
      <4>2. h[k] = g[k] /\ GcdAt(g, k)
        BY <2>3, <2>4, <4>1 DEF GcdUpTo
      <4> QED
        BY <3>2, <4>2, Zenon DEF GcdAt
    <3> QED
      BY <3>3, <3>4
  <2>7. GcdUpTo(h, n)
    BY <2>6 DEF GcdUpTo
  <2> QED
    BY <2>7
<1> QED
  BY <1>1

(* Gcd is Euclid's algorithm.                                              *)
LEMMA GcdStep ==
    \A n, m \in Nat : Gcd[n][m] = IF n = 0 THEN m ELSE Gcd[m % n][n]
<1> DEFINE up(n) == CHOOSE g : GcdUpTo(g, n)
           all == [n \in Nat |-> up(n)[n]]
           IsGcd(g) == g = [n \in Nat |-> [m \in Nat |-> IF n = 0 THEN m ELSE g[m % n][n]]]
<1>1. \A n \in Nat : GcdUpTo(up(n), n)
  BY GcdExistsUpTo
<1>2. ASSUME NEW n \in Nat
      PROVE  all[n] = [m \in Nat |-> IF n = 0 THEN m ELSE all[m % n][n]]
  <2>1. GcdAt(up(n), n) /\ all[n] = up(n)[n]
    <3>1. n \in 0..n
      OBVIOUS
    <3>2. all[n] = up(n)[n]
      OBVIOUS
    <3> HIDE DEF up, all
    <3> QED
      BY <1>1, <3>1, <3>2 DEF GcdUpTo
  <2>2. ASSUME NEW m \in Nat, n # 0
        PROVE  up(n)[m % n] = all[m % n]
    <3>1. m % n \in Nat /\ m % n <= n
      BY <2>2
    <3>2. all[m % n] = up(m % n)[m % n]
      BY <3>1
    <3> HIDE DEF up, all
    <3> QED
      BY <1>1, <3>1, <3>2, GcdUnique
  <2> HIDE DEF up, all
  <2>3. [m \in Nat |-> IF n = 0 THEN m ELSE up(n)[m % n][n]]
            = [m \in Nat |-> IF n = 0 THEN m ELSE all[m % n][n]]
    BY <2>2
  <2> QED
    BY <2>1, <2>3, Zenon DEF GcdAt
<1>3. IsGcd(all)
  <2>1. all = [n \in Nat |-> all[n]]
    OBVIOUS
  <2> HIDE DEF all
  <2>2. [n \in Nat |-> all[n]]
            = [n \in Nat |-> [m \in Nat |-> IF n = 0 THEN m ELSE all[m % n][n]]]
    BY <1>2
  <2> QED
    BY <2>1, <2>2, Zenon
<1>4. Gcd = CHOOSE g : IsGcd(g)
  BY DEF Gcd
<1> HIDE DEF all
<1>5. IsGcd(Gcd)
  <2> HIDE DEF IsGcd
  <2> QED
    BY <1>3, <1>4
<1>6. \A n \in Nat : Gcd[n] = [m \in Nat |-> IF n = 0 THEN m ELSE Gcd[m % n][n]]
  BY <1>5, Zenon
<1> QED
  BY <1>6

(* It finds a number that divides both, unless both are zero.              *)
LEMMA GcdDivides ==
    \A n, m \in Nat : n + m > 0 =>
        /\ Gcd[n][m] \in Nat \ {0}
        /\ \E a, b \in Nat : n = a * Gcd[n][m] /\ m = b * Gcd[n][m]
<1> DEFINE Good(n, m) == /\ Gcd[n][m] \in Nat \ {0}
                         /\ \E a, b \in Nat : n = a * Gcd[n][m] /\ m = b * Gcd[n][m]
           Bad == {n \in Nat : \E m \in Nat : n + m > 0 /\ ~Good(n, m)}
<1>1. ASSUME Bad # {}
      PROVE  FALSE
  <2>1. PICK n \in Bad : \A k \in Bad : n <= k
    <3>1. Bad \in SUBSET Nat
      OBVIOUS
    <3> HIDE DEF Bad
    <3> QED
      BY <1>1, <3>1, LeastNumber
  <2>2. PICK m \in Nat : n + m > 0 /\ ~Good(n, m)
    OBVIOUS
  <2>3. CASE n = 0
    <3>1. Gcd[n][m] = m /\ m \in Nat \ {0} /\ n = 0 * m /\ m = 1 * m
      BY <2>2, <2>3, GcdStep
    <3>2. Good(n, m)
      BY <3>1
    <3> QED
      BY <2>2, <3>2
  <2>4. CASE n # 0
    <3>1. n \in Nat \ {0} /\ m % n \in Nat /\ m % n < n
      BY <2>4
    <3>2. Good(m % n, n)
      <4>1. m % n \notin Bad
        BY <2>1, <3>1
      <4> HIDE DEF Good
      <4> QED
        BY <3>1, <4>1
    <3>3. Gcd[n][m] = Gcd[m % n][n]
      BY <2>4, GcdStep
    <3> DEFINE g == Gcd[m % n][n]
               q == m \div n
               r == m % n
    <3>4. PICK a, b \in Nat : r = a * g /\ n = b * g
      BY <3>2
    <3>5. g \in Nat \ {0} /\ q \in Nat /\ m = q * n + r
      BY <3>1, <3>2
    <3> HIDE DEF g, q, r
    <3>6. m = (q * b + a) * g /\ q * b + a \in Nat
      <4>1. q * (b * g) + a * g = (q * b + a) * g
        BY <3>5
      <4> QED
        BY <3>4, <3>5, <4>1
    <3>7. Good(n, m)
      BY <3>3, <3>4, <3>5, <3>6 DEF g
    <3> QED
      BY <2>2, <3>7
  <2> QED
    BY <2>3, <2>4
<1> HIDE DEF Good
<1>2. \A n, m \in Nat : n + m > 0 => Good(n, m)
  BY <1>1
<1> QED
  BY <1>2 DEF Good

Rational == [num : Int, den : Nat \ {0}]

(* A fraction is its two numbers, both divided by the same number.         *)
LEMMA FractionValue ==
    ASSUME NEW n \in Int, NEW d \in Int, d > 0
    PROVE  /\ Fraction(n, d) \in Rational
           /\ \E g \in Nat \ {0} : n = Fraction(n, d).num * g /\ d = Fraction(n, d).den * g
<1> DEFINE g == Gcd[Magnitude(d)][Magnitude(n)]
<1>1. /\ Magnitude(d) = d /\ Magnitude(n) \in Nat
      /\ n = Magnitude(n) \/ n = -Magnitude(n)
  BY DEF Magnitude
<1>0. Magnitude(d) \in Nat /\ Magnitude(d) + Magnitude(n) > 0
  BY <1>1
<1>2. PICK b, a \in Nat : Magnitude(d) = b * g /\ Magnitude(n) = a * g
  <2>1. \E b, a \in Nat : Magnitude(d) = b * g /\ Magnitude(n) = a * g
    BY <1>0, <1>1, GcdDivides, Zenon
  <2> QED
    BY <2>1
<1>3. g \in Nat \ {0}
  BY <1>0, <1>1, GcdDivides, Zenon
<1>4. Fraction(n, d) = [num |-> 1 * (n \div g), den |-> 1 * (d \div g)]
  BY DEF Fraction
<1> HIDE DEF g
<1>5. PICK k \in Int : n = k * g
  <2>1. -(a * g) = (-a) * g /\ a \in Int /\ -a \in Int
    BY <1>3
  <2> QED
    BY <1>1, <1>2, <2>1
<1>6. \A x \in Int : (x * g) \div g = x
  BY <1>3
<1>7. n \div g = k /\ d \div g = b
  BY <1>1, <1>2, <1>5, <1>6
<1>8. b \in Nat \ {0}
  BY <1>1, <1>2, <1>3
<1>9. Fraction(n, d) = [num |-> k, den |-> b]
  BY <1>4, <1>5, <1>7, <1>8
<1>10. n = k * g /\ d = b * g
  BY <1>1, <1>2, <1>5
<1>11. Fraction(n, d).num = k /\ Fraction(n, d).den = b
  BY <1>9
<1>12. Fraction(n, d) \in Rational
  BY <1>8, <1>9 DEF Rational
<1> QED
  BY <1>3, <1>10, <1>11, <1>12

(* A negative denominator changes both signs.                              *)
LEMMA FractionSigns ==
    ASSUME NEW n \in Int, NEW d \in Int, d < 0
    PROVE  Fraction(n, d) = Fraction(-n, -d)
<1> DEFINE g == Gcd[Magnitude(d)][Magnitude(n)]
<1>1. /\ Magnitude(d) = -d /\ Magnitude(n) \in Nat
      /\ Magnitude(-d) = Magnitude(d) /\ Magnitude(-n) = Magnitude(n)
      /\ n = Magnitude(n) \/ n = -Magnitude(n)
  BY DEF Magnitude
<1>0. Magnitude(d) \in Nat /\ Magnitude(d) + Magnitude(n) > 0
  BY <1>1
<1>2. PICK b, a \in Nat : Magnitude(d) = b * g /\ Magnitude(n) = a * g
  <2>1. \E b, a \in Nat : Magnitude(d) = b * g /\ Magnitude(n) = a * g
    BY <1>0, <1>1, GcdDivides, Zenon
  <2> QED
    BY <2>1
<1>3. g \in Nat \ {0}
  BY <1>0, <1>1, GcdDivides, Zenon
<1>4. Fraction(n, d) = [num |-> (-1) * (n \div g), den |-> (-1) * (d \div g)]
  BY DEF Fraction
<1>5. Fraction(-n, -d) = [num |-> 1 * ((-n) \div g), den |-> 1 * ((-d) \div g)]
  BY <1>1 DEF Fraction
<1> HIDE DEF g
<1>6. PICK k, l \in Int : n = k * g /\ d = l * g
  <2>1. -(a * g) = (-a) * g /\ a \in Int /\ -a \in Int
    BY <1>3
  <2>2. -(b * g) = (-b) * g /\ b \in Int /\ -b \in Int
    BY <1>3
  <2> QED
    BY <1>1, <1>2, <2>1, <2>2
<1>7. \A x \in Int : (x * g) \div g = x
  BY <1>3
<1>8. -n = (-k) * g /\ -d = (-l) * g
  BY <1>3, <1>6
<1>9. n \div g = k /\ d \div g = l /\ (-n) \div g = -k /\ (-d) \div g = -l
  BY <1>6, <1>7, <1>8
<1> QED
  BY <1>4, <1>5, <1>6, <1>9

(* A multiple of the denominator is a whole number.                        *)
LEMMA FractionWhole ==
    ASSUME NEW k \in Int, NEW d \in Nat \ {0}
    PROVE  Fraction(k * d, d) = Whole(k)
<1>1. k * d \in Int /\ d > 0
  OBVIOUS
<1> DEFINE m == Magnitude(k * d)
<1>2. m = Magnitude(k) * d /\ Magnitude(k) \in Nat /\ Magnitude(d) = d
  <2>1. k >= 0 => k * d >= 0
    OBVIOUS
  <2>2. k < 0 => k * d < 0 /\ -(k * d) = (-k) * d
    OBVIOUS
  <2> HIDE DEF m
  <2>3. m = IF k * d < 0 THEN -(k * d) ELSE k * d
    BY DEF m, Magnitude
  <2>4. Magnitude(k) = IF k < 0 THEN -k ELSE k
    BY DEF Magnitude
  <2>5. Magnitude(d) = d
    BY DEF Magnitude
  <2> QED
    BY <1>1, <2>1, <2>2, <2>3, <2>4, <2>5
<1> HIDE DEF m
<1>3. m \in Nat /\ m % d = 0
  <2>1. \A x \in Nat : x * d \in Nat /\ (x * d) % d = 0
    OBVIOUS
  <2> QED
    BY <1>2, <2>1
<1>4. Gcd[d][m] = d
  <2>1. Gcd[d][m] = Gcd[m % d][d]
    BY <1>3, GcdStep
  <2>2. Gcd[0][d] = d
    BY GcdStep
  <2> QED
    BY <1>3, <2>1, <2>2
<1>5. Fraction(k * d, d) = [num |-> 1 * ((k * d) \div d), den |-> 1 * (d \div d)]
  BY <1>1, <1>2, <1>4 DEF Fraction, m
<1>6. (k * d) \div d = k /\ d \div d = 1
  OBVIOUS
<1> QED
  BY <1>5, <1>6 DEF Whole

(* Fractions are closed under what the analysis computes with them.        *)
LEMMA WholeRational == \A n \in Int : Whole(n) \in Rational
BY DEF Whole, Rational

(* Sums, differences, products and quotients of fractions are fractions.   *)
LEMMA RationalClosed ==
    ASSUME NEW p \in Rational, NEW q \in Rational
    PROVE  /\ Plus(p, q) \in Rational /\ Minus(p, q) \in Rational /\ Times(p, q) \in Rational
           /\ q.num # 0 => Over(p, q) \in Rational
<1>1. p.num \in Int /\ q.num \in Int /\ p.den \in Nat \ {0} /\ q.den \in Nat \ {0}
  BY DEF Rational
<1>2. \A a, b \in Nat \ {0} : a * b \in Int /\ a * b > 0
  OBVIOUS
<1>3. p.den * q.den \in Int /\ p.den * q.den > 0
  BY <1>1, <1>2
<1>4. \A a, b \in Int : a * b \in Int
  OBVIOUS
<1>5. /\ p.num * q.den + q.num * p.den \in Int
      /\ p.num * q.den - q.num * p.den \in Int
      /\ p.num * q.num \in Int /\ p.num * q.den \in Int /\ p.den * q.num \in Int
  <2>1. \A a, b \in Int : a + b \in Int /\ a - b \in Int
    OBVIOUS
  <2> QED
    BY <1>1, <1>4, <2>1
<1>6. \A n, d \in Int : d > 0 => Fraction(n, d) \in Rational
  BY FractionValue
<1>7. ASSUME q.num # 0
      PROVE  Over(p, q) \in Rational
  <2> DEFINE n == p.num * q.den
             d == p.den * q.num
  <2>1. d # 0
    <3>1. \A a \in Nat \ {0}, b \in Int : b # 0 => a * b # 0
      OBVIOUS
    <3> QED
      BY <1>1, <1>7, <3>1
  <2>2. n \in Int /\ d \in Int
    BY <1>5
  <2>3. Over(p, q) = Fraction(n, d)
    BY DEF Over
  <2> HIDE DEF n, d
  <2>4. CASE d > 0
    BY <1>6, <2>2, <2>3, <2>4
  <2>5. CASE d < 0
    <3>1. Fraction(n, d) = Fraction(-n, -d) /\ -n \in Int /\ -d \in Int /\ -d > 0
      BY <2>2, <2>5, FractionSigns
    <3> QED
      BY <1>6, <2>3, <3>1
  <2> QED
    BY <2>1, <2>2, <2>4, <2>5
<1> QED
  BY <1>3, <1>5, <1>6, <1>7 DEF Plus, Minus, Times

Listed(s, n) == n \in Nat /\ s = [i \in 1..n |-> s[i]]

Grows(s, m, t, n) ==
    /\ Listed(s, m) /\ Listed(t, n) /\ m <= n
    /\ \A i \in 1..m : t[i] = s[i]

(* Lists are sequences.                                                    *)
LEMMA ListIsSeq ==
    ASSUME NEW s, NEW n, Listed(s, n)
    PROVE  s \in Seq({s[i] : i \in 1..n}) /\ Len(s) = n /\ DOMAIN s = 1..n
<1> DEFINE S == {s[i] : i \in 1..n}
<1>1. n \in Nat /\ s = [i \in 1..n |-> s[i]]
  BY DEF Listed
<1>2. s \in [1..n -> S]
  BY <1>1
<1> HIDE DEF S
<1>3. s \in Seq(S)
  BY <1>1, <1>2, SeqDef
<1>4. DOMAIN s = 1..n
  BY <1>2
<1>5. Len(s) = n
  BY <1>1, <1>3, <1>4, LenProperties
<1> QED
  BY <1>3, <1>4, <1>5 DEF S

(* A part of a list that has grown is that part of the list before, where  *)
(* it was there already.                                                   *)
LEMMA PartSame ==
    ASSUME NEW s, NEW m, NEW t, NEW n, Grows(s, m, t, n),
           NEW a \in Nat \ {0}, NEW b \in 0..m
    PROVE  /\ SubSeq(s, a, b) = SubSeq(t, a, b)
           /\ SubSeq(s, a, b) = [i \in 1..b - a + 1 |-> s[i + a - 1]]
<1>1. Listed(s, m) /\ Listed(t, n) /\ m \in Nat /\ n \in Nat /\ m <= n
  BY DEF Grows, Listed
<1>2. s \in Seq({s[i] : i \in 1..m}) /\ Len(s) = m
  BY <1>1, ListIsSeq
<1>3. t \in Seq({t[i] : i \in 1..n}) /\ Len(t) = n
  BY <1>1, ListIsSeq
<1>4. SubSeq(s, a, b) = [i \in 1..b - a + 1 |-> s[i + a - 1]]
  BY <1>1, <1>2
<1>5. SubSeq(t, a, b) = [i \in 1..b - a + 1 |-> t[i + a - 1]]
  BY <1>1, <1>3
<1>6. \A i \in 1..b - a + 1 : i + a - 1 \in 1..m
  BY <1>1
<1> QED
  BY <1>4, <1>5, <1>6 DEF Grows

(* A list that has grown has the list before as a prefix.                  *)
LEMMA GrowsIsPrefix ==
    ASSUME NEW s, NEW m, NEW t, NEW n, Grows(s, m, t, n)
    PROVE  IsPrefix(s, t) /\ Len(s) = m /\ Len(t) = n
<1>1. Listed(s, m) /\ Listed(t, n) /\ m \in Nat /\ n \in Nat /\ m <= n
  BY DEF Grows, Listed
<1>2. Len(s) = m /\ Len(t) = n
  BY <1>1, ListIsSeq
<1>3. SubSeq(s, 1, m) = SubSeq(t, 1, m)
  BY <1>1, PartSame
<1> QED
  BY <1>1, <1>2, <1>3 DEF IsPrefix

-----------------------------------------------------------------------------
(* Totals and averages.  The equation of the local function of Total.      *)

IsTotal(s, g) ==
    g = [i \in 0..Len(s) |-> IF i = 0 THEN Zero ELSE Plus(g[i - 1], s[i])]

(* A total is the last of the totals of the parts.                         *)
LEMMA TotalUnfolds ==
    ASSUME NEW s, Len(s) \in Nat
    PROVE  \E g : /\ g[0] = Zero
                  /\ \A i \in 1..Len(s) : g[i] = Plus(g[i - 1], s[i])
                  /\ Total(s) = g[Len(s)]
<1> DEFINE Eq(g, i) == g[i] = IF i = 0 THEN Zero ELSE Plus(g[i - 1], s[i])
           UpTo(n) == \E g : \A i \in 0..n : Eq(g, i)
           Bad == {n \in Nat : ~UpTo(n)}
<1>1. ASSUME Bad # {}
      PROVE  FALSE
  <2>1. PICK n \in Bad : \A k \in Bad : n <= k
    <3> HIDE DEF UpTo
    <3>1. Bad \in SUBSET Nat
      OBVIOUS
    <3> HIDE DEF Bad
    <3> QED
      BY <1>1, <3>1, LeastNumber
  <2>2. n # 0
    <3>1. Eq([i \in {0} |-> Zero], 0)
      OBVIOUS
    <3>2. UpTo(0)
      <4> HIDE DEF Eq
      <4>1. \A i \in 0..0 : i = 0
        OBVIOUS
      <4> QED
        BY <3>1, <4>1
    <3> HIDE DEF UpTo
    <3> QED
      BY <3>2
  <2>3. UpTo(n - 1)
    <3> HIDE DEF UpTo
    <3>1. n - 1 \in Nat /\ ~(n <= n - 1)
      BY <2>2
    <3> QED
      BY <2>1, <3>1
  <2>4. PICK g : \A i \in 0..n - 1 : Eq(g, i)
    BY <2>3
  <2> DEFINE h == [i \in 0..n |-> IF i < n THEN g[i] ELSE Plus(g[i - 1], s[i])]
  <2>5. ASSUME NEW i \in 0..n
        PROVE  Eq(h, i)
    <3>1. CASE i < n
      <4>1. Eq(g, i) /\ h[i] = g[i]
        BY <2>4, <3>1
      <4>2. i = 0 \/ h[i - 1] = g[i - 1]
        BY <3>1
      <4> HIDE DEF h
      <4> QED
        BY <4>1, <4>2
    <3>2. CASE i = n
      <4>1. h[i] = Plus(g[i - 1], s[i])
        BY <3>2
      <4>2. h[i - 1] = g[i - 1]
        BY <2>2, <3>2
      <4> HIDE DEF h
      <4> QED
        BY <2>2, <3>2, <4>1, <4>2
    <3> QED
      BY <3>1, <3>2
  <2>6. UpTo(n)
    <3> HIDE DEF h, Eq
    <3> QED
      BY <2>5
  <2> HIDE DEF UpTo
  <2> QED
    BY <2>6
<1>2. PICK g : \A i \in 0..Len(s) : Eq(g, i)
  <2>1. UpTo(Len(s))
    <3> HIDE DEF UpTo
    <3> QED
      BY <1>1
  <2> QED
    BY <2>1
<1> DEFINE h == [i \in 0..Len(s) |-> g[i]]
<1>3. ASSUME NEW i \in 0..Len(s)
      PROVE  Eq(h, i)
  <2>1. Eq(g, i) /\ h[i] = g[i]
    BY <1>2
  <2>2. i = 0 \/ h[i - 1] = g[i - 1]
    OBVIOUS
  <2> HIDE DEF h
  <2> QED
    BY <2>1, <2>2
<1>4. h = [i \in 0..Len(s) |-> h[i]]
  OBVIOUS
<1> HIDE DEF h
<1>5. IsTotal(s, h)
  BY <1>3, <1>4 DEF IsTotal
<1> DEFINE u == CHOOSE x : IsTotal(s, x)
<1>6. IsTotal(s, u) /\ Total(s) = u[Len(s)]
  BY <1>5 DEF Total, IsTotal
<1> HIDE DEF u
<1>7. \A i \in 0..Len(s) : u[i] = IF i = 0 THEN Zero ELSE Plus(u[i - 1], s[i])
  BY <1>6, Zenon DEF IsTotal
<1>8. u[0] = Zero /\ \A i \in 1..Len(s) : u[i] = Plus(u[i - 1], s[i])
  BY <1>7
<1> QED
  BY <1>6, <1>8

(* A list of fractions.                                                    *)
Fractional(s) == Len(s) \in Nat /\ \A i \in 1..Len(s) : s[i] \in Rational

(* Totals and averages are fractions.                                      *)
LEMMA TotalRational ==
    ASSUME NEW s, Fractional(s)
    PROVE  Total(s) \in Rational
<1>0. Len(s) \in Nat
  BY DEF Fractional
<1>1. PICK g : /\ g[0] = Zero
               /\ \A i \in 1..Len(s) : g[i] = Plus(g[i - 1], s[i])
               /\ Total(s) = g[Len(s)]
  BY <1>0, TotalUnfolds
<1> DEFINE Bad == {i \in 0..Len(s) : g[i] \notin Rational}
<1>2. ASSUME Bad # {}
      PROVE  FALSE
  <2>1. PICK n \in Bad : \A k \in Bad : n <= k
    <3>1. Bad \in SUBSET Nat
      BY <1>0
    <3> HIDE DEF Bad
    <3> QED
      BY <1>2, <3>1, LeastNumber
  <2>2. n # 0
    BY <1>1, WholeRational DEF Zero
  <2>3. n - 1 \in 0..Len(s) /\ n \in 1..Len(s) /\ ~(n <= n - 1)
    BY <1>0, <2>2
  <2>4. g[n - 1] \in Rational
    BY <2>1, <2>3
  <2>5. g[n] \in Rational
    BY <1>1, <2>3, <2>4, RationalClosed DEF Fractional
  <2> QED
    BY <2>5
<1> QED
  BY <1>0, <1>1, <1>2

(* So is the mean of a list that is not empty.                             *)
LEMMA MeanRational ==
    ASSUME NEW s, Fractional(s), Len(s) # 0
    PROVE  Mean(s) \in Rational
<1>1. Whole(Len(s)) \in Rational /\ Whole(Len(s)).num # 0
  BY WholeRational DEF Fractional, Whole
<1> QED
  BY <1>1, TotalRational, RationalClosed DEF Mean

(* The equation of the local function of Smoothed.                         *)
SmoothAt(values, period, part, g, i) ==
    g[i] = IF i = period THEN Mean(SubSeq(values, 1, period))
           ELSE Plus(Times(Minus(values[i], g[i - 1]), part), g[i - 1])

IsSmooth(values, period, part, g) ==
    g = [i \in period..Len(values) |->
            IF i = period THEN Mean(SubSeq(values, 1, period))
            ELSE Plus(Times(Minus(values[i], g[i - 1]), part), g[i - 1])]

(* The equation has a solution, found for one length after another.        *)
LEMMA SmoothExists ==
    ASSUME NEW values, Len(values) \in Nat, NEW period \in Nat \ {0}, NEW part
    PROVE  \E g : IsSmooth(values, period, part, g)
<1> DEFINE Eq(g, i) == SmoothAt(values, period, part, g, i)
           UpTo(n) == \E g : \A i \in period..n : Eq(g, i)
           Bad == {n \in Nat : ~UpTo(n)}
<1>1. ASSUME Bad # {}
      PROVE  FALSE
  <2>1. PICK n \in Bad : \A k \in Bad : n <= k
    <3> HIDE DEF UpTo
    <3>1. Bad \in SUBSET Nat
      OBVIOUS
    <3> HIDE DEF Bad
    <3> QED
      BY <1>1, <3>1, LeastNumber
  <2>2. period < n
    <3>1. ASSUME n <= period
          PROVE  UpTo(n)
      <4> DEFINE g == [i \in {period} |-> Mean(SubSeq(values, 1, period))]
      <4>1. Eq(g, period)
        BY DEF SmoothAt
      <4>2. \A i \in period..n : i = period
        BY <3>1
      <4> HIDE DEF Eq, g
      <4> QED
        BY <4>1, <4>2
    <3> HIDE DEF UpTo
    <3> QED
      BY <3>1
  <2>3. UpTo(n - 1)
    <3> HIDE DEF UpTo
    <3>1. n - 1 \in Nat /\ ~(n <= n - 1)
      BY <2>2
    <3> QED
      BY <2>1, <3>1
  <2>4. PICK g : \A i \in period..n - 1 : Eq(g, i)
    BY <2>3
  <2> DEFINE h == [i \in period..n |->
                      IF i < n THEN g[i]
                      ELSE Plus(Times(Minus(values[i], g[i - 1]), part), g[i - 1])]
  <2>5. ASSUME NEW i \in period..n
        PROVE  Eq(h, i)
    <3>1. CASE i < n
      <4>1. Eq(g, i) /\ h[i] = g[i]
        BY <2>4, <3>1
      <4>2. i = period \/ h[i - 1] = g[i - 1]
        BY <3>1
      <4> HIDE DEF h
      <4> QED
        BY <4>1, <4>2 DEF SmoothAt
    <3>2. CASE i = n
      <4>1. h[i] = Plus(Times(Minus(values[i], g[i - 1]), part), g[i - 1])
        BY <3>2
      <4>2. h[i - 1] = g[i - 1]
        BY <2>2, <3>2
      <4> HIDE DEF h
      <4> QED
        BY <2>2, <3>2, <4>1, <4>2 DEF SmoothAt
    <3> QED
      BY <3>1, <3>2
  <2>6. UpTo(n)
    <3> HIDE DEF h, Eq
    <3> QED
      BY <2>5
  <2> HIDE DEF UpTo
  <2> QED
    BY <2>6
<1>2. PICK g : \A i \in period..Len(values) : Eq(g, i)
  <2>1. UpTo(Len(values))
    <3> HIDE DEF UpTo
    <3> QED
      BY <1>1
  <2> QED
    BY <2>1
<1> DEFINE h == [i \in period..Len(values) |-> g[i]]
<1>3. ASSUME NEW i \in period..Len(values)
      PROVE  Eq(h, i)
  <2>1. Eq(g, i) /\ h[i] = g[i]
    BY <1>2
  <2>2. i = period \/ h[i - 1] = g[i - 1]
    OBVIOUS
  <2> HIDE DEF h
  <2> QED
    BY <2>1, <2>2 DEF SmoothAt
<1>4. h = [i \in period..Len(values) |-> h[i]]
  OBVIOUS
<1> HIDE DEF h
<1>5. IsSmooth(values, period, part, h)
  BY <1>3, <1>4 DEF IsSmooth, SmoothAt
<1> QED
  BY <1>5

(* What the readings of a smoothed list are.                               *)
LEMMA SmoothedReads ==
    ASSUME NEW values, Len(values) \in Nat, NEW period \in Nat \ {0}, NEW part
    PROVE  LET r == Smoothed(values, period, part)
           IN  /\ Listed(r, Len(values))
               /\ \A i \in 1..Len(values) :
                      r[i] = IF i < period THEN None
                             ELSE IF i = period THEN Mean(SubSeq(values, 1, period))
                             ELSE Plus(Times(Minus(values[i], r[i - 1]), part), r[i - 1])
<1> DEFINE r == Smoothed(values, period, part)
           u == CHOOSE g : IsSmooth(values, period, part, g)
<1>1. IsSmooth(values, period, part, u)
  BY SmoothExists
<1>2. r = [i \in 1..Len(values) |-> IF i < period THEN None ELSE u[i]]
  BY DEF Smoothed, IsSmooth
<1> HIDE DEF u
<1>3. \A i \in period..Len(values) :
          u[i] = IF i = period THEN Mean(SubSeq(values, 1, period))
                 ELSE Plus(Times(Minus(values[i], u[i - 1]), part), u[i - 1])
  BY <1>1, Zenon DEF IsSmooth
<1> HIDE DEF r
<1>4. Listed(r, Len(values))
  BY <1>2 DEF Listed
<1>5. ASSUME NEW i \in 1..Len(values)
      PROVE  r[i] = IF i < period THEN None
                    ELSE IF i = period THEN Mean(SubSeq(values, 1, period))
                    ELSE Plus(Times(Minus(values[i], r[i - 1]), part), r[i - 1])
  <2>1. CASE i < period
    BY <1>2, <2>1
  <2>2. CASE i >= period
    <3>1. r[i] = u[i] /\ i \in period..Len(values)
      BY <1>2, <2>2
    <3>2. i = period \/ r[i - 1] = u[i - 1]
      BY <1>2, <2>2
    <3> QED
      BY <1>3, <2>2, <3>1, <3>2
  <2> QED
    BY <2>1, <2>2
<1> QED
  BY <1>4, <1>5 DEF r

(* A smoothed list of fractions reads a fraction from the period on.       *)
LEMMA SmoothedRational ==
    ASSUME NEW values, Fractional(values), NEW n, Listed(values, n), NEW period \in Nat \ {0},
           NEW part \in Rational
    PROVE  \A i \in 1..Len(values) : i >= period => Smoothed(values, period, part)[i] \in Rational
<1> DEFINE r == Smoothed(values, period, part)
           Bad == {i \in 1..Len(values) : i >= period /\ r[i] \notin Rational}
<1>0. Len(values) \in Nat /\ n = Len(values) /\ values \in Seq({values[i] : i \in 1..n})
  BY ListIsSeq DEF Fractional
<1>1. \A i \in 1..Len(values) :
          r[i] = IF i < period THEN None
                 ELSE IF i = period THEN Mean(SubSeq(values, 1, period))
                 ELSE Plus(Times(Minus(values[i], r[i - 1]), part), r[i - 1])
  <2>1. Len(values) \in Nat
    BY <1>0
  <2> QED
    BY <2>1, SmoothedReads
<1> HIDE DEF r
<1>2. ASSUME Bad # {}
      PROVE  FALSE
  <2>1. PICK k \in Bad : \A j \in Bad : k <= j
    <3>1. Bad \in SUBSET Nat
      BY <1>0
    <3> HIDE DEF Bad
    <3> QED
      BY <1>2, <3>1, LeastNumber
  <2>2. CASE k = period
    <3> DEFINE first == SubSeq(values, 1, period)
    <3>1. Len(first) = period /\ \A i \in 1..period : first[i] = values[i]
      BY <1>0, <2>2
    <3> HIDE DEF first
    <3>2. Fractional(first)
      BY <1>0, <2>2, <3>1 DEF Fractional
    <3>3. r[k] \in Rational
      <4>1. r[k] = Mean(first)
        BY <1>1, <2>2 DEF first
      <4> QED
        BY <3>1, <3>2, <4>1, MeanRational
    <3> QED
      BY <3>3
  <2>3. CASE k # period
    <3>1. k - 1 \in 1..Len(values) /\ k - 1 >= period /\ ~(k <= k - 1)
      BY <1>0, <2>3
    <3>2. r[k - 1] \in Rational
      BY <2>1, <3>1
    <3>3. values[k] \in Rational
      BY DEF Fractional
    <3>4. r[k] = Plus(Times(Minus(values[k], r[k - 1]), part), r[k - 1])
      BY <1>1, <2>3
    <3>5. Minus(values[k], r[k - 1]) \in Rational
      BY <3>2, <3>3, RationalClosed
    <3>6. Times(Minus(values[k], r[k - 1]), part) \in Rational
      BY <3>5, RationalClosed
    <3>7. r[k] \in Rational
      BY <3>2, <3>4, <3>6, RationalClosed
    <3> QED
      BY <3>7
  <2> QED
    BY <2>2, <2>3
<1> QED
  BY <1>2 DEF r

-----------------------------------------------------------------------------
(* Each reading of a list of candles grows with it.                        *)

(* A longer list has the readings of the shorter one, if it is smoothed.   *)
LEMMA SmoothedGrows ==
    ASSUME NEW s, NEW m, NEW t, NEW n, Grows(s, m, t, n), NEW period \in Nat \ {0}, NEW part
    PROVE  Grows(Smoothed(s, period, part), m, Smoothed(t, period, part), n)
<1> DEFINE p == Smoothed(s, period, part)
           q == Smoothed(t, period, part)
           Bad == {i \in 1..m : p[i] # q[i]}
<1>1. /\ m \in Nat /\ n \in Nat /\ m <= n /\ Len(s) = m /\ Len(t) = n
      /\ \A i \in 1..m : t[i] = s[i]
  <2>1. Listed(s, m) /\ Listed(t, n)
    BY DEF Grows
  <2>2. Len(s) = m /\ Len(t) = n
    BY <2>1, ListIsSeq
  <2> QED
    BY <2>1, <2>2 DEF Grows, Listed
<1>2. /\ Listed(p, m)
      /\ \A i \in 1..m : p[i] = IF i < period THEN None
                                ELSE IF i = period THEN Mean(SubSeq(s, 1, period))
                                ELSE Plus(Times(Minus(s[i], p[i - 1]), part), p[i - 1])
  BY <1>1, SmoothedReads
<1>3. /\ Listed(q, n)
      /\ \A i \in 1..n : q[i] = IF i < period THEN None
                                ELSE IF i = period THEN Mean(SubSeq(t, 1, period))
                                ELSE Plus(Times(Minus(t[i], q[i - 1]), part), q[i - 1])
  BY <1>1, SmoothedReads
<1> HIDE DEF p, q
<1>4. ASSUME Bad # {}
      PROVE  FALSE
  <2>1. PICK k \in Bad : \A j \in Bad : k <= j
    <3>1. Bad \in SUBSET Nat
      BY <1>1
    <3> HIDE DEF Bad
    <3> QED
      BY <1>4, <3>1, LeastNumber
  <2>2. k \in 1..m /\ k \in 1..n
    BY <1>1
  <2>3. CASE k < period
    BY <1>2, <1>3, <2>2, <2>3
  <2>4. CASE k = period
    <3>1. SubSeq(s, 1, period) = SubSeq(t, 1, period)
      BY <2>2, <2>4, PartSame
    <3> QED
      BY <1>2, <1>3, <2>2, <2>4, <3>1
  <2>5. CASE k > period
    <3>1. k - 1 \in 1..m /\ ~(k <= k - 1)
      BY <1>1, <2>2, <2>5
    <3>2. p[k - 1] = q[k - 1]
      BY <2>1, <3>1
    <3>3. s[k] = t[k]
      BY <1>1
    <3> QED
      BY <1>2, <1>3, <2>2, <2>5, <3>2, <3>3
  <2> QED
    BY <2>2, <2>3, <2>4, <2>5
<1> QED
  BY <1>1, <1>2, <1>3, <1>4 DEF Grows, p, q

(* The length of what lies between the elements of a list.                 *)
Between1(n) == IF n = 0 THEN 0 ELSE n - 1

(* The closes grow with the candles.                                       *)
LEMMA ClosesGrow ==
    ASSUME NEW cs, NEW m, NEW ds, NEW n, Grows(cs, m, ds, n)
    PROVE  Grows(Closes(cs), m, Closes(ds), n)
<1>1. Listed(cs, m) /\ Listed(ds, n) /\ m \in Nat /\ n \in Nat /\ m <= n
  BY DEF Grows, Listed
<1>2. Len(cs) = m /\ Len(ds) = n
  BY <1>1, ListIsSeq
<1> QED
  BY <1>1, <1>2 DEF Grows, Listed, Closes, Each

(* Sma looks at the last closes only.                                      *)
LEMMA SmaGrows ==
    ASSUME NEW cs, NEW m, NEW ds, NEW n, Grows(cs, m, ds, n), NEW period \in Nat \ {0}
    PROVE  Grows(Sma(cs, period), m, Sma(ds, period), n)
<1> DEFINE at(s, i) == IF i < period THEN None ELSE Mean(Window(Closes(s), i, period))
<1>1. Listed(cs, m) /\ Listed(ds, n) /\ m \in Nat /\ n \in Nat /\ m <= n
  BY DEF Grows, Listed
<1>2. Len(cs) = m /\ Len(ds) = n
  BY <1>1, ListIsSeq
<1>3. Grows(Closes(cs), m, Closes(ds), n)
  BY ClosesGrow
<1>4. \A i \in 1..m : i >= period => Window(Closes(cs), i, period) = Window(Closes(ds), i, period)
  BY <1>1, <1>3, PartSame DEF Window
<1>5. \A i \in 1..m : at(cs, i) = at(ds, i)
  BY <1>1, <1>4
<1>6. /\ Sma(cs, period) = [i \in 1..m |-> at(cs, i)]
      /\ Sma(ds, period) = [i \in 1..n |-> at(ds, i)]
  BY <1>2 DEF Sma
<1> HIDE DEF at
<1>7. Listed(Sma(cs, period), m) /\ Listed(Sma(ds, period), n)
  BY <1>1, <1>6 DEF Listed
<1> QED
  BY <1>1, <1>5, <1>6, <1>7 DEF Grows

(* Ema smooths the closes.                                                 *)
LEMMA EmaGrows ==
    ASSUME NEW cs, NEW m, NEW ds, NEW n, Grows(cs, m, ds, n), NEW period \in Nat \ {0}
    PROVE  Grows(Ema(cs, period), m, Ema(ds, period), n)
BY ClosesGrow, SmoothedGrows DEF Ema

(* The bands look at the last closes only.                                 *)
LEMMA BollingerGrows ==
    ASSUME NEW cs, NEW m, NEW ds, NEW n, Grows(cs, m, ds, n), NEW period \in Nat \ {0},
           NEW num_std
    PROVE  Grows(BollingerBands(cs, period, num_std), m, BollingerBands(ds, period, num_std), n)
<1> DEFINE variance(w) == Mean(Each(LAMBDA c : Square(Minus(c, Mean(w))), w))
           band(w) == [middle |-> Mean(w),
                       spread |-> Times(Whole(num_std * num_std), variance(w))]
           at(s, i) == IF i < period THEN None ELSE band(Window(Closes(s), i, period))
<1>1. Listed(cs, m) /\ Listed(ds, n) /\ m \in Nat /\ n \in Nat /\ m <= n
  BY DEF Grows, Listed
<1>2. Len(cs) = m /\ Len(ds) = n
  BY <1>1, ListIsSeq
<1> HIDE DEF band
<1>3. Grows(Closes(cs), m, Closes(ds), n)
  BY ClosesGrow
<1>4. \A i \in 1..m : i >= period => Window(Closes(cs), i, period) = Window(Closes(ds), i, period)
  BY <1>1, <1>3, PartSame DEF Window
<1>5. \A i \in 1..m : at(cs, i) = at(ds, i)
  BY <1>1, <1>4
<1>6. /\ BollingerBands(cs, period, num_std) = [i \in 1..m |-> at(cs, i)]
      /\ BollingerBands(ds, period, num_std) = [i \in 1..n |-> at(ds, i)]
  BY <1>2 DEF BollingerBands, band
<1> HIDE DEF at
<1>7. /\ Listed(BollingerBands(cs, period, num_std), m)
      /\ Listed(BollingerBands(ds, period, num_std), n)
  BY <1>1, <1>6 DEF Listed
<1> QED
  BY <1>1, <1>5, <1>6, <1>7 DEF Grows

(* Vwap looks at all candles so far.                                       *)
LEMMA VwapGrows ==
    ASSUME NEW cs, NEW m, NEW ds, NEW n, Grows(cs, m, ds, n)
    PROVE  Grows(Vwap(cs), m, Vwap(ds), n)
<1> DEFINE volume(past) == Total(Each(LAMBDA c : Whole(c.volume), past))
           turnover(past) ==
               Total(Each(LAMBDA c : Fraction((c.high + c.low + c.close) * c.volume, 3), past))
           reading(past) ==
               IF volume(past) = Zero THEN None ELSE Over(turnover(past), volume(past))
           at(s, i) == reading(SubSeq(s, 1, i))
<1>1. Listed(cs, m) /\ Listed(ds, n) /\ m \in Nat /\ n \in Nat /\ m <= n
  BY DEF Grows, Listed
<1>2. Len(cs) = m /\ Len(ds) = n
  BY <1>1, ListIsSeq
<1>3. \A i \in 1..m : SubSeq(cs, 1, i) = SubSeq(ds, 1, i)
  BY <1>1, PartSame
<1> HIDE DEF reading
<1>4. \A i \in 1..m : at(cs, i) = at(ds, i)
  BY <1>3
<1>5. /\ Vwap(cs) = [i \in 1..m |-> at(cs, i)]
      /\ Vwap(ds) = [i \in 1..n |-> at(ds, i)]
  BY <1>2 DEF Vwap, reading
<1> HIDE DEF at
<1>6. Listed(Vwap(cs), m) /\ Listed(Vwap(ds), n)
  BY <1>1, <1>5 DEF Listed
<1> QED
  BY <1>1, <1>4, <1>5, <1>6 DEF Grows

(* Parkinson's volatility looks at the last candles only.                  *)
LEMMA ParkinsonGrows ==
    ASSUME NEW cs, NEW m, NEW ds, NEW n, Grows(cs, m, ds, n), NEW period \in Nat \ {0}
    PROVE  Grows(ParkinsonVolatility(cs, period), m, ParkinsonVolatility(ds, period), n)
<1> DEFINE mean(w) == Mean(Each(LAMBDA c : Square(Whole(LogRatio(c.high, c.low))), w))
           at(s, i) == IF i < period THEN None ELSE mean(Window(s, i, period))
<1>1. Listed(cs, m) /\ Listed(ds, n) /\ m \in Nat /\ n \in Nat /\ m <= n
  BY DEF Grows, Listed
<1>2. Len(cs) = m /\ Len(ds) = n
  BY <1>1, ListIsSeq
<1>3. \A i \in 1..m : i >= period => Window(cs, i, period) = Window(ds, i, period)
  BY <1>1, PartSame DEF Window
<1> HIDE DEF mean
<1>4. \A i \in 1..m : at(cs, i) = at(ds, i)
  BY <1>1, <1>3
<1>5. /\ ParkinsonVolatility(cs, period) = [i \in 1..m |-> at(cs, i)]
      /\ ParkinsonVolatility(ds, period) = [i \in 1..n |-> at(ds, i)]
  BY <1>2 DEF ParkinsonVolatility, mean
<1> HIDE DEF at
<1>6. Listed(ParkinsonVolatility(cs, period), m) /\ Listed(ParkinsonVolatility(ds, period), n)
  BY <1>1, <1>5 DEF Listed
<1> QED
  BY <1>1, <1>4, <1>5, <1>6 DEF Grows

(* Rsi smooths what the closes gained and lost.                            *)
LEMMA RsiGrows ==
    ASSUME NEW cs, NEW m, NEW ds, NEW n, Grows(cs, m, ds, n), NEW period \in Nat \ {0}
    PROVE  Grows(Rsi(cs, period), m, Rsi(ds, period), n)
<1> DEFINE deltas(s) == [i \in 1..Len(s) - 1 |-> Minus(Closes(s)[i + 1], Closes(s)[i])]
           ups(s) == Each(LAMBDA d : Greater(d, Zero), deltas(s))
           downs(s) == Each(LAMBDA d : Greater(Minus(Zero, d), Zero), deltas(s))
           gains(s) == Smoothed(ups(s), period, Wilder(period))
           losses(s) == Smoothed(downs(s), period, Wilder(period))
           at(s, i) == IF i <= period THEN None
                       ELSE RsiReading(gains(s)[i - 1], losses(s)[i - 1])
<1>1. Listed(cs, m) /\ Listed(ds, n) /\ m \in Nat /\ n \in Nat /\ m <= n
  BY DEF Grows, Listed
<1>2. Len(cs) = m /\ Len(ds) = n
  BY <1>1, ListIsSeq
<1>3. /\ 1..m - 1 = 1..Between1(m) /\ 1..n - 1 = 1..Between1(n)
      /\ Between1(m) \in Nat /\ Between1(n) \in Nat /\ Between1(m) <= Between1(n)
  BY <1>1 DEF Between1
<1>4. Grows(deltas(cs), Between1(m), deltas(ds), Between1(n))
  <2> DEFINE move(s, i) == Minus(Closes(s)[i + 1], Closes(s)[i])
  <2>1. Grows(Closes(cs), m, Closes(ds), n)
    BY ClosesGrow
  <2>2. \A i \in 1..Between1(m) : move(cs, i) = move(ds, i)
    BY <1>1, <2>1 DEF Grows, Between1
  <2>3. /\ deltas(cs) = [i \in 1..Between1(m) |-> move(cs, i)]
        /\ deltas(ds) = [i \in 1..Between1(n) |-> move(ds, i)]
    BY <1>2, <1>3
  <2> HIDE DEF move, deltas
  <2>4. Listed(deltas(cs), Between1(m)) /\ Listed(deltas(ds), Between1(n))
    BY <1>3, <2>3 DEF Listed
  <2> QED
    BY <1>3, <2>2, <2>3, <2>4 DEF Grows
<1> HIDE DEF deltas
<1>5. Len(deltas(cs)) = Between1(m) /\ Len(deltas(ds)) = Between1(n)
  BY <1>4, GrowsIsPrefix
<1>6. /\ Grows(ups(cs), Between1(m), ups(ds), Between1(n))
      /\ Grows(downs(cs), Between1(m), downs(ds), Between1(n))
  <2> DEFINE up(d) == Greater(d, Zero)
             down(d) == Greater(Minus(Zero, d), Zero)
  <2>1. \A s : /\ ups(s) = [i \in 1..Len(deltas(s)) |-> up(deltas(s)[i])]
               /\ downs(s) = [i \in 1..Len(deltas(s)) |-> down(deltas(s)[i])]
    BY DEF Each
  <2> HIDE DEF up, down, ups, downs
  <2>2. /\ Listed(ups(cs), Between1(m)) /\ Listed(ups(ds), Between1(n))
        /\ Listed(downs(cs), Between1(m)) /\ Listed(downs(ds), Between1(n))
    BY <1>3, <1>5, <2>1 DEF Listed
  <2>3. \A i \in 1..Between1(m) : deltas(cs)[i] = deltas(ds)[i]
    BY <1>4 DEF Grows
  <2>4. \A i \in 1..Between1(m) : ups(cs)[i] = ups(ds)[i] /\ downs(cs)[i] = downs(ds)[i]
    BY <1>3, <1>5, <2>1, <2>3
  <2> QED
    BY <1>3, <2>2, <2>4 DEF Grows
<1>7. /\ Grows(gains(cs), Between1(m), gains(ds), Between1(n))
       /\ Grows(losses(cs), Between1(m), losses(ds), Between1(n))
  <2> HIDE DEF ups, downs
  <2> QED
    BY <1>6, SmoothedGrows
<1> HIDE DEF gains, losses
<1>8. \A i \in 1..m : at(cs, i) = at(ds, i)
  <2>1. \A i \in 1..m : i > period => i - 1 \in 1..Between1(m)
    BY <1>1 DEF Between1
  <2>2. \A i \in 1..Between1(m) : gains(cs)[i] = gains(ds)[i] /\ losses(cs)[i] = losses(ds)[i]
    BY <1>7 DEF Grows
  <2> QED
    BY <1>1, <2>1, <2>2
<1>9. /\ Rsi(cs, period) = [i \in 1..m |-> at(cs, i)]
      /\ Rsi(ds, period) = [i \in 1..n |-> at(ds, i)]
  BY <1>2 DEF Rsi, gains, losses, deltas
<1> HIDE DEF at
<1>10. Listed(Rsi(cs, period), m) /\ Listed(Rsi(ds, period), n)
  BY <1>1, <1>9 DEF Listed
<1> QED
  BY <1>1, <1>8, <1>9, <1>10 DEF Grows

(* Atr smooths true ranges, each of a candle and the one before it.        *)
LEMMA AtrGrows ==
    ASSUME NEW cs, NEW m, NEW ds, NEW n, Grows(cs, m, ds, n), NEW period \in Nat \ {0}
    PROVE  Grows(Atr(cs, period), m, Atr(ds, period), n)
<1> DEFINE ranges(s) == [i \in 1..Len(s) - 1 |-> TrueRange(s[i], s[i + 1])]
           smooth(s) == Smoothed(ranges(s), period, Wilder(period))
           at(s, i) == IF i = 1 THEN None ELSE smooth(s)[i - 1]
<1>1. Listed(cs, m) /\ Listed(ds, n) /\ m \in Nat /\ n \in Nat /\ m <= n
  BY DEF Grows, Listed
<1>2. Len(cs) = m /\ Len(ds) = n
  BY <1>1, ListIsSeq
<1>3. /\ 1..m - 1 = 1..Between1(m) /\ 1..n - 1 = 1..Between1(n)
      /\ Between1(m) \in Nat /\ Between1(n) \in Nat /\ Between1(m) <= Between1(n)
  BY <1>1 DEF Between1
<1>4. Grows(ranges(cs), Between1(m), ranges(ds), Between1(n))
  <2> DEFINE range(s, i) == TrueRange(s[i], s[i + 1])
  <2>2. \A i \in 1..Between1(m) : range(cs, i) = range(ds, i)
    BY <1>1 DEF Grows, Between1
  <2>3. /\ ranges(cs) = [i \in 1..Between1(m) |-> range(cs, i)]
        /\ ranges(ds) = [i \in 1..Between1(n) |-> range(ds, i)]
    BY <1>2, <1>3
  <2> HIDE DEF range, ranges
  <2>4. Listed(ranges(cs), Between1(m)) /\ Listed(ranges(ds), Between1(n))
    BY <1>3, <2>3 DEF Listed
  <2> QED
    BY <1>3, <2>2, <2>3, <2>4 DEF Grows
<1>5. Grows(smooth(cs), Between1(m), smooth(ds), Between1(n))
  <2> HIDE DEF ranges
  <2> QED
    BY <1>4, SmoothedGrows
<1> HIDE DEF smooth
<1>6. \A i \in 1..m : at(cs, i) = at(ds, i)
  <2>1. \A i \in 1..m : i # 1 => i - 1 \in 1..Between1(m)
    BY <1>1 DEF Between1
  <2>2. \A i \in 1..Between1(m) : smooth(cs)[i] = smooth(ds)[i]
    BY <1>5 DEF Grows
  <2> QED
    BY <1>1, <2>1, <2>2
<1>7. /\ Atr(cs, period) = [i \in 1..m |-> at(cs, i)]
      /\ Atr(ds, period) = [i \in 1..n |-> at(ds, i)]
  BY <1>2 DEF Atr, smooth
<1> HIDE DEF at
<1>8. Listed(Atr(cs, period), m) /\ Listed(Atr(ds, period), n)
  BY <1>1, <1>7 DEF Listed
<1> QED
  BY <1>1, <1>6, <1>7, <1>8 DEF Grows

(* Historical volatility looks at the last returns only.                   *)
LEMMA HistoricalGrows ==
    ASSUME NEW cs, NEW m, NEW ds, NEW n, Grows(cs, m, ds, n), NEW period \in Nat \ {0}
    PROVE  Grows(HistoricalVolatility(cs, period), m, HistoricalVolatility(ds, period), n)
<1> DEFINE returns(s) == [i \in 1..Len(s) - 1 |->
                             Whole(LogRatio(s[i + 1].close, s[i].close))]
           Start(i) == IF i < period THEN 1 ELSE i - period + 1
           at(s, i) == IF i <= 2 THEN None ELSE Variance(SubSeq(returns(s), Start(i - 1), i - 1))
<1>1. Listed(cs, m) /\ Listed(ds, n) /\ m \in Nat /\ n \in Nat /\ m <= n
  BY DEF Grows, Listed
<1>2. Len(cs) = m /\ Len(ds) = n
  BY <1>1, ListIsSeq
<1>3. /\ 1..m - 1 = 1..Between1(m) /\ 1..n - 1 = 1..Between1(n)
      /\ Between1(m) \in Nat /\ Between1(n) \in Nat /\ Between1(m) <= Between1(n)
  BY <1>1 DEF Between1
<1>4. Grows(returns(cs), Between1(m), returns(ds), Between1(n))
  <2> DEFINE return(s, i) == Whole(LogRatio(s[i + 1].close, s[i].close))
  <2>2. \A i \in 1..Between1(m) : return(cs, i) = return(ds, i)
    BY <1>1 DEF Grows, Between1
  <2>3. /\ returns(cs) = [i \in 1..Between1(m) |-> return(cs, i)]
        /\ returns(ds) = [i \in 1..Between1(n) |-> return(ds, i)]
    BY <1>2, <1>3
  <2> HIDE DEF return, returns
  <2>4. Listed(returns(cs), Between1(m)) /\ Listed(returns(ds), Between1(n))
    BY <1>3, <2>3 DEF Listed
  <2> QED
    BY <1>3, <2>2, <2>3, <2>4 DEF Grows
<1> HIDE DEF returns
<1>5. \A i \in 1..m : i > 2 => Start(i - 1) \in Nat \ {0} /\ i - 1 \in 0..Between1(m)
  BY <1>1 DEF Between1
<1> HIDE DEF Start
<1>6. ASSUME NEW i \in 1..m, i > 2
      PROVE  SubSeq(returns(cs), Start(i - 1), i - 1) = SubSeq(returns(ds), Start(i - 1), i - 1)
  <2> DEFINE a == Start(i - 1)
             b == i - 1
  <2>1. a \in Nat \ {0} /\ b \in 0..Between1(m)
    BY <1>5, <1>6
  <2> HIDE DEF a, b
  <2>2. SubSeq(returns(cs), a, b) = SubSeq(returns(ds), a, b)
    BY <1>4, <2>1, PartSame
  <2> QED
    BY <2>2 DEF a, b
<1>7. ASSUME NEW i \in 1..m
      PROVE  at(cs, i) = at(ds, i)
  <2>1. CASE i <= 2
    BY <2>1
  <2>2. CASE i > 2
    <3>1. SubSeq(returns(cs), Start(i - 1), i - 1) = SubSeq(returns(ds), Start(i - 1), i - 1)
      BY <1>6, <2>2
    <3> QED
      BY <2>2, <3>1
  <2> QED
    BY <1>1, <2>1, <2>2
<1>8. /\ HistoricalVolatility(cs, period) = [i \in 1..m |-> at(cs, i)]
      /\ HistoricalVolatility(ds, period) = [i \in 1..n |-> at(ds, i)]
  BY <1>2 DEF HistoricalVolatility, returns, Start
<1> HIDE DEF at
<1>9. Listed(HistoricalVolatility(cs, period), m) /\ Listed(HistoricalVolatility(ds, period), n)
  BY <1>1, <1>8 DEF Listed
<1> QED
  BY <1>1, <1>7, <1>8, <1>9 DEF Grows

-----------------------------------------------------------------------------
(* Candles.  Their prices are whole numbers, the close between the low and *)
(* the high.                                                               *)
LEMMA CandlesWhole ==
    ASSUME NEW c \in Candles
    PROVE  /\ c.low \in Nat /\ c.close \in Nat /\ c.high \in Nat /\ c.volume \in Nat
           /\ c.low <= c.close /\ c.close <= c.high
BY ViewAssumption

-----------------------------------------------------------------------------
(* Macd: the readings of its line are there from the longer period on, so  *)
(* that what it selects is the rest of the line, put back where it was.    *)

(* What is behind the first k elements of a list.                          *)
Behind(s, k) == [i \in 1..Len(s) - k |-> s[k + i]]

(* What is selected from a list whose first elements are left out and      *)
(* whose others are kept is the list behind them.                          *)
LEMMA SelectedBehind ==
    ASSUME NEW T, NEW s \in Seq(T), NEW S, NEW k \in 0..Len(s),
           \A i \in 1..k : s[i] \notin S, \A i \in k + 1..Len(s) : s[i] \in S
    PROVE  Selected(s, S) = Behind(s, k)
<1> DEFINE g == CHOOSE x : IsSelection(s, S, x)
           part(n) == [j \in 1..n - k |-> s[k + j]]
           Bad == {n \in k..Len(s) : g[n] # part(n)}
           Early == {n \in 0..k : g[n] # <<>>}
<1>1. Len(s) \in Nat /\ k \in Nat /\ k <= Len(s)
  BY LenProperties
<1>2. IsSelection(s, S, g)
  BY <1>1, SelectionExists
<1>3. Selected(s, S) = g[Len(s)]
  BY DEF Selected, IsSelection
<1>4. \A i \in 0..Len(s) : g[i] = IF i = 0 THEN <<>>
                                  ELSE IF s[i] \in S THEN Append(g[i - 1], s[i]) ELSE g[i - 1]
  <2> HIDE DEF g
  <2> QED
    BY <1>2, Zenon DEF IsSelection
<1> HIDE DEF g
<1>5. ASSUME Early # {}
      PROVE  FALSE
  <2>1. PICK n \in Early : \A j \in Early : n <= j
    <3>1. Early \in SUBSET Nat
      BY <1>1
    <3> HIDE DEF Early
    <3> QED
      BY <1>5, <3>1, LeastNumber
  <2>2. n \in 0..k /\ g[n] # <<>> /\ n # 0
    BY <1>1, <1>4
  <2>3. n - 1 \in 0..k /\ ~(n <= n - 1) /\ n \in 1..k /\ n \in 0..Len(s)
    BY <1>1, <2>2
  <2>4. g[n - 1] = <<>>
    BY <2>1, <2>3
  <2>5. g[n] = g[n - 1]
    BY <1>4, <2>2, <2>3
  <2> QED
    BY <2>2, <2>4, <2>5
<1>6. ASSUME Bad # {}
      PROVE  FALSE
  <2>1. PICK n \in Bad : \A j \in Bad : n <= j
    <3>1. Bad \in SUBSET Nat
      BY <1>1
    <3> HIDE DEF Bad
    <3> QED
      BY <1>6, <3>1, LeastNumber
  <2>2. n # k
    <3>1. g[k] = <<>>
      BY <1>1, <1>5
    <3>2. k - k = 0 /\ 1..0 = {}
      BY <1>1
    <3>3. part(k) = <<>>
      BY <3>2
    <3> HIDE DEF part
    <3> QED
      BY <3>1, <3>3
  <2>3. /\ n - 1 \in k..Len(s) /\ ~(n <= n - 1) /\ n \in k + 1..Len(s)
        /\ n \in 0..Len(s) /\ n # 0
    BY <1>1, <2>2
  <2>4. g[n - 1] = part(n - 1)
    <3> HIDE DEF part
    <3> QED
      BY <2>1, <2>3
  <2>5. g[n] = Append(part(n - 1), s[n])
    BY <1>4, <2>3, <2>4
  <2>6. Append(part(n - 1), s[n]) = part(n)
    <3> DEFINE p == part(n - 1)
               q == Append(p, s[n])
    <3>1. /\ n - 1 - k \in Nat /\ (n - 1 - k) + 1 = n - k /\ k + (n - k) = n
          /\ \A j \in 1..n - 1 - k : k + j \in 1..Len(s)
      BY <1>1, <2>3
    <3>2. p \in [1..n - 1 - k -> T]
      BY <3>1, ElementOfSeq
    <3>3. p \in Seq(T) /\ Len(p) = n - 1 - k
      <4>1. Listed(p, n - 1 - k)
        BY <3>1 DEF Listed
      <4> HIDE DEF p
      <4>2. p \in Seq(T)
        BY <3>1, <3>2, SeqDef
      <4>3. Len(p) = n - 1 - k
        BY <4>1, ListIsSeq
      <4> QED
        BY <4>2, <4>3
    <3>4. s[n] \in T
      BY <2>3, <1>1, ElementOfSeq
    <3>5. \A j \in 1..n - 1 - k : p[j] = s[k + j]
      OBVIOUS
    <3> HIDE DEF p
    <3>6. /\ q \in Seq(T) /\ Len(q) = n - k /\ q[n - k] = s[n]
          /\ \A j \in 1..n - 1 - k : q[j] = p[j]
      BY <3>1, <3>3, <3>4, AppendProperties
    <3>7. q = [j \in 1..n - k |-> q[j]]
      <4> HIDE DEF q
      <4> QED
        BY <3>6, LenProperties
    <3>8. ASSUME NEW j \in 1..n - k
          PROVE  q[j] = s[k + j]
      <4>1. CASE j = n - k
        BY <3>1, <3>6, <4>1
      <4>2. CASE j # n - k
        <5>1. j \in 1..n - 1 - k
          BY <3>1, <4>2
        <5> QED
          BY <3>5, <3>6, <5>1
      <4> QED
        BY <4>1, <4>2
    <3> HIDE DEF q
    <3>9. q = [j \in 1..n - k |-> s[k + j]]
      BY <3>7, <3>8
    <3> QED
      BY <3>9 DEF p, q
  <2> HIDE DEF part
  <2>7. g[n] = part(n)
    BY <2>5, <2>6
  <2> QED
    BY <2>7
<1>7. g[Len(s)] = part(Len(s))
  <2> HIDE DEF part
  <2> QED
    BY <1>1, <1>6
<1> QED
  BY <1>3, <1>7 DEF Behind

(* The assumption on None: it is no fraction.                              *)
LEMMA NoneIsNoFraction == None \notin Rational
BY ViewAssumption DEF Rational

(* The closes of a list of candles are fractions.                          *)
LEMMA ClosesRational ==
    ASSUME NEW cs, NEW n, Listed(cs, n), \A i \in 1..n : cs[i].close \in Int
    PROVE  Listed(Closes(cs), n) /\ Fractional(Closes(cs)) /\ Len(Closes(cs)) = n
<1>1. n \in Nat /\ Len(cs) = n
  BY ListIsSeq DEF Listed
<1>2. Closes(cs) = [i \in 1..n |-> Whole(cs[i].close)]
  BY <1>1 DEF Closes, Each
<1>3. Listed(Closes(cs), n)
  BY <1>1, <1>2 DEF Listed
<1>4. Len(Closes(cs)) = n
  BY <1>3, ListIsSeq
<1>5. \A i \in 1..n : Closes(cs)[i] \in Rational
  BY <1>2, WholeRational
<1> QED
  BY <1>1, <1>3, <1>4, <1>5 DEF Fractional

(* A least number of a set is its minimum.                                 *)
LEMMA LeastIsMin ==
    ASSUME NEW I \in SUBSET Int, NEW k \in I, \A j \in I : k <= j
    PROVE  Min(I) = k
<1>1. Min(I) \in I /\ \A j \in I : Min(I) <= j
  <2>1. \E x \in I : \A j \in I : x <= j
    OBVIOUS
  <2> QED
    BY <2>1, Zenon DEF Min
<1>2. k \in Int /\ Min(I) \in Int
  BY <1>1
<1>3. k <= Min(I) /\ Min(I) <= k
  BY <1>1
<1> QED
  BY <1>2, <1>3

MacdLine(s, fast_period, slow_period) ==
    [i \in 1..Len(s) |->
        IF None \in {Ema(s, fast_period)[i], Ema(s, slow_period)[i]} THEN None
        ELSE Minus(Ema(s, fast_period)[i], Ema(s, slow_period)[i])]

(* The multiplier of an exponential average is a fraction.                 *)
LEMMA PartsRational ==
    ASSUME NEW period \in Nat \ {0}
    PROVE  Exponential(period) \in Rational /\ Wilder(period) \in Rational
<1>1. period \in Int /\ period > 0 /\ period + 1 \in Int /\ period + 1 > 0
  OBVIOUS
<1> QED
  BY <1>1, FractionValue DEF Exponential, Wilder

(* The later of the two averages begins with the candle late.              *)
Slower(fast, slow, late) == late \in {fast, slow} /\ fast <= late /\ slow <= late

(* The line begins with the slower average.                                *)
LEMMA MacdLineReads ==
    ASSUME NEW cs, NEW n, Listed(cs, n), \A i \in 1..n : cs[i] \in Candles,
           NEW fast \in Nat \ {0}, NEW slow \in Nat \ {0},
           NEW late \in Nat \ {0}, Slower(fast, slow, late)
    PROVE  LET line == MacdLine(cs, fast, slow)
           IN  Listed(line, n) /\ \A i \in 1..n : line[i] = None <=> i < late
<1> DEFINE line == MacdLine(cs, fast, slow)
           f == Ema(cs, fast)
           s == Ema(cs, slow)
<1>1. n \in Nat /\ Len(cs) = n
  BY ListIsSeq DEF Listed
<1>2. /\ Listed(Closes(cs), n) /\ Fractional(Closes(cs)) /\ Len(Closes(cs)) = n
      /\ Exponential(fast) \in Rational /\ Exponential(slow) \in Rational
  <2>1. \A i \in 1..n : cs[i].close \in Int
    BY CandlesWhole
  <2> QED
    BY <2>1, ClosesRational, PartsRational
<1>3. \A i \in 1..n : /\ i < fast => f[i] = None
                      /\ i < slow => s[i] = None
  BY <1>1, <1>2, SmoothedReads DEF Ema
<1>4. \A i \in 1..n : /\ i >= fast => f[i] \in Rational
                      /\ i >= slow => s[i] \in Rational
  BY <1>2, SmoothedRational DEF Ema
<1>5. line = [i \in 1..n |-> IF None \in {f[i], s[i]} THEN None ELSE Minus(f[i], s[i])]
  BY <1>1 DEF MacdLine
<1> HIDE DEF f, s, line
<1>6. Listed(line, n)
  BY <1>1, <1>5 DEF Listed
<1>7. ASSUME NEW i \in 1..n
      PROVE  line[i] = None <=> i < late
  <2>1. CASE i < late
    BY <1>3, <1>5, <2>1 DEF Slower
  <2>2. CASE i >= late
    <3>1. f[i] \in Rational /\ s[i] \in Rational
      BY <1>1, <1>4, <2>2 DEF Slower
    <3>2. Minus(f[i], s[i]) \in Rational
      BY <3>1, RationalClosed
    <3>3. line[i] = Minus(f[i], s[i])
      BY <1>5, <3>1, NoneIsNoFraction
    <3> QED
      BY <2>2, <3>2, <3>3, NoneIsNoFraction
  <2> QED
    BY <1>1, <2>1, <2>2
<1> QED
  BY <1>6, <1>7 DEF line

MacdReading(line, signal, i) ==
    IF None \in {line[i], signal[i]} THEN None
    ELSE [macd |-> line[i], signal |-> signal[i], histogram |-> Minus(line[i], signal[i])]

(* The signal is that of the rest of the line, put back behind the part    *)
(* that does not read.                                                     *)
LEMMA MacdReads ==
    ASSUME NEW cs, NEW n, Listed(cs, n), \A i \in 1..n : cs[i] \in Candles,
           NEW fast \in Nat \ {0}, NEW slow \in Nat \ {0},
           NEW late \in Nat \ {0}, Slower(fast, slow, late), NEW period
    PROVE  LET line == MacdLine(cs, fast, slow)
               k == IF n < late THEN n ELSE late - 1
               signal == Signal(line, Behind(line, k), k, period)
           IN  Macd(cs, fast, slow, period) = [i \in 1..n |-> MacdReading(line, signal, i)]
<1> DEFINE line == MacdLine(cs, fast, slow)
           k == IF n < late THEN n ELSE late - 1
           valid == Selected(line, ToSet(line) \ {None})
           first == SelectInSeq(line, LAMBDA v : v # None)
           offset == IF first = 0 THEN Len(line) ELSE first - 1
           I == {i \in 1..Len(line) : line[i] # None}
<1>1. n \in Nat /\ Len(cs) = n
  BY ListIsSeq DEF Listed
<1>2. Listed(line, n) /\ \A i \in 1..n : line[i] = None <=> i < late
  BY MacdLineReads
<1>3. Macd(cs, fast, slow, period) =
          [i \in 1..n |-> MacdReading(line, Signal(line, valid, offset, period), i)]
  BY <1>1 DEF Macd, MacdLine, MacdReading
<1>4. first = IF I # {} THEN Min(I) ELSE 0
  BY Zenon DEF SelectInSeq
<1> HIDE DEF line, first
<1>5. line \in Seq({line[i] : i \in 1..n}) /\ Len(line) = n /\ DOMAIN line = 1..n
  BY <1>2, ListIsSeq
<1>6. offset = k
  <2>1. CASE n < late
    <3>1. I = {}
      BY <1>1, <1>2, <1>5, <2>1
    <3> HIDE DEF I
    <3> QED
      BY <1>4, <1>5, <2>1, <3>1
  <2>2. CASE n >= late
    <3>1. late \in I /\ I \in SUBSET Int /\ \A j \in I : late <= j
      BY <1>1, <1>2, <1>5, <2>2
    <3> HIDE DEF I
    <3>2. Min(I) = late
      BY <3>1, LeastIsMin
    <3> QED
      BY <1>1, <1>4, <2>2, <3>1, <3>2
  <2> QED
    BY <1>1, <2>1, <2>2
<1>7. valid = Behind(line, k)
  <2> DEFINE S == ToSet(line) \ {None}
  <2>1. k \in 0..Len(line)
    BY <1>1, <1>5
  <2>2. \A i \in 1..k : line[i] \notin S
    BY <1>1, <1>2
  <2>3. \A i \in k + 1..Len(line) : line[i] \in S
    BY <1>1, <1>2, <1>5 DEF ToSet
  <2> HIDE DEF S, k
  <2>4. Selected(line, S) = Behind(line, k)
    BY <1>5, <2>1, <2>2, <2>3, SelectedBehind
  <2> QED
    BY <2>4 DEF S
<1> HIDE DEF valid, offset, k
<1>8. Macd(cs, fast, slow, period) =
          [i \in 1..n |-> MacdReading(line, Signal(line, Behind(line, k), k, period), i)]
  BY <1>3, <1>6, <1>7, Zenon
<1> QED
  BY <1>8 DEF line, k

(* The line grows with the candles.                                        *)
LEMMA MacdLineGrows ==
    ASSUME NEW cs, NEW m, NEW ds, NEW n, Grows(cs, m, ds, n),
           NEW fast \in Nat \ {0}, NEW slow \in Nat \ {0}
    PROVE  Grows(MacdLine(cs, fast, slow), m, MacdLine(ds, fast, slow), n)
<1> DEFINE at(s, i) == IF None \in {Ema(s, fast)[i], Ema(s, slow)[i]} THEN None
                       ELSE Minus(Ema(s, fast)[i], Ema(s, slow)[i])
<1>1. Listed(cs, m) /\ Listed(ds, n) /\ m \in Nat /\ n \in Nat /\ m <= n
  BY DEF Grows, Listed
<1>2. Len(cs) = m /\ Len(ds) = n
  BY <1>1, ListIsSeq
<1>3. Grows(Ema(cs, fast), m, Ema(ds, fast), n) /\ Grows(Ema(cs, slow), m, Ema(ds, slow), n)
  BY EmaGrows
<1>4. \A i \in 1..m : at(cs, i) = at(ds, i)
  BY <1>3 DEF Grows
<1>5. /\ MacdLine(cs, fast, slow) = [i \in 1..m |-> at(cs, i)]
      /\ MacdLine(ds, fast, slow) = [i \in 1..n |-> at(ds, i)]
  BY <1>2 DEF MacdLine
<1> HIDE DEF at
<1>6. Listed(MacdLine(cs, fast, slow), m) /\ Listed(MacdLine(ds, fast, slow), n)
  BY <1>1, <1>5 DEF Listed
<1> QED
  BY <1>1, <1>4, <1>5, <1>6 DEF Grows

(* Macd grows with the candles: a later candle moves no signal.            *)
LEMMA MacdGrows ==
    ASSUME NEW cs, NEW m, NEW ds, NEW n, Grows(cs, m, ds, n), \A i \in 1..n : ds[i] \in Candles,
           NEW fast \in Nat \ {0}, NEW slow \in Nat \ {0},
           NEW late \in Nat \ {0}, Slower(fast, slow, late), NEW period \in Nat \ {0}
    PROVE  Grows(Macd(cs, fast, slow, period), m, Macd(ds, fast, slow, period), n)
<1> DEFINE line(s) == MacdLine(s, fast, slow)
           k(l) == IF l < late THEN l ELSE late - 1
           smooth(s, l) == Smoothed(Behind(line(s), k(l)), period, Exponential(period))
           signal(s, l) == Signal(line(s), Behind(line(s), k(l)), k(l), period)
           at(s, l, i) == MacdReading(line(s), signal(s, l), i)
<1>1. Listed(cs, m) /\ Listed(ds, n) /\ m \in Nat /\ n \in Nat /\ m <= n
  BY DEF Grows, Listed
<1>2. \A i \in 1..m : cs[i] \in Candles
  BY <1>1 DEF Grows
<1>3. Grows(line(cs), m, line(ds), n)
  BY MacdLineGrows
<1>4. \A i \in 1..m : line(cs)[i] = None <=> i < late
  BY <1>1, <1>2, MacdLineReads
<1>5. Len(line(cs)) = m /\ Len(line(ds)) = n
  BY <1>3, GrowsIsPrefix
<1>6. /\ Macd(cs, fast, slow, period) = [i \in 1..m |-> at(cs, m, i)]
      /\ Macd(ds, fast, slow, period) = [i \in 1..n |-> at(ds, n, i)]
  BY <1>1, <1>2, MacdReads
<1> HIDE DEF line
<1>7. \A s, l, i : i \in 1..Len(line(s)) =>
          signal(s, l)[i] = IF i - k(l) \in 1..Len(smooth(s, l)) THEN smooth(s, l)[i - k(l)]
                            ELSE None
  BY DEF Signal
<1>8. ASSUME NEW i \in 1..m
      PROVE  at(cs, m, i) = at(ds, n, i)
  <2>1. line(cs)[i] = line(ds)[i] /\ i \in 1..n
    BY <1>1, <1>3 DEF Grows
  <2>2. CASE i < late
    BY <1>4, <2>1, <2>2 DEF MacdReading
  <2>3. CASE i >= late
    <3> DEFINE b == late - 1
    <3>1. k(m) = b /\ k(n) = b /\ b \in Nat /\ b < m /\ b < n /\ i - b \in 1..m - b
      BY <1>1, <2>3
    <3>2. Grows(Behind(line(cs), b), m - b, Behind(line(ds), b), n - b)
      <4>1. /\ Behind(line(cs), b) = [j \in 1..m - b |-> line(cs)[b + j]]
            /\ Behind(line(ds), b) = [j \in 1..n - b |-> line(ds)[b + j]]
        BY <1>5 DEF Behind
      <4>2. \A j \in 1..m - b : line(cs)[b + j] = line(ds)[b + j]
        BY <1>1, <1>3, <3>1 DEF Grows
      <4>3. m - b \in Nat /\ n - b \in Nat /\ m - b <= n - b
        BY <1>1, <3>1
      <4> HIDE DEF b
      <4>4. Listed(Behind(line(cs), b), m - b) /\ Listed(Behind(line(ds), b), n - b)
        BY <4>1, <4>3 DEF Listed
      <4> QED
        BY <4>1, <4>2, <4>3, <4>4 DEF Grows
    <3>3. Grows(smooth(cs, m), m - b, smooth(ds, n), n - b)
      <4> HIDE DEF b, k
      <4>1. Grows(Smoothed(Behind(line(cs), b), period, Exponential(period)), m - b,
                  Smoothed(Behind(line(ds), b), period, Exponential(period)), n - b)
        BY <3>2, SmoothedGrows
      <4> QED
        BY <3>1, <4>1
    <3> HIDE DEF b, smooth, k
    <3>4. Len(smooth(cs, m)) = m - b /\ Len(smooth(ds, n)) = n - b
      BY <3>3, GrowsIsPrefix
    <3>5. signal(cs, m)[i] = smooth(cs, m)[i - b]
      BY <1>5, <1>7, <3>1, <3>4
    <3>6. signal(ds, n)[i] = smooth(ds, n)[i - b]
      <4>1. i - b \in 1..n - b
        BY <1>1, <3>1
      <4> HIDE DEF signal
      <4> QED
        BY <1>5, <1>7, <2>1, <3>1, <3>4, <4>1
    <3>7. smooth(cs, m)[i - b] = smooth(ds, n)[i - b]
      BY <3>1, <3>3 DEF Grows
    <3> HIDE DEF signal
    <3> QED
      BY <2>1, <3>5, <3>6, <3>7 DEF MacdReading
  <2> QED
    BY <1>1, <2>2, <2>3
<1> HIDE DEF at
<1>9. /\ Listed(Macd(cs, fast, slow, period), m)
      /\ Listed(Macd(ds, fast, slow, period), n)
  BY <1>1, <1>6 DEF Listed
<1> QED
  BY <1>1, <1>6, <1>8, <1>9 DEF Grows

-----------------------------------------------------------------------------
(* The data that has come.                                                 *)

ViewTypeOK ==
    /\ candles \in Seq(Candles)
    /\ iv_history \in Seq(Ivs) /\ current_iv \in Ivs
    /\ call_oi \in [Chain -> Nat] /\ put_oi \in [Chain -> Nat] /\ price \in Int
    /\ advances \in Nat /\ declines \in Nat /\ vix \in VixRange

(* The data keeps its type, whatever comes.                                *)
THEOREM ViewTypeCorrect == ViewSpec => []ViewTypeOK
<1>1. ViewInit => ViewTypeOK
  <2> SUFFICES ASSUME ViewInit
               PROVE  ViewTypeOK
    OBVIOUS
  <2>1. current_iv \in Ivs
    BY ViewAssumption DEF ViewInit
  <2>2. vix \in VixRange
    BY ViewAssumption DEF ViewInit
  <2>3. candles \in Seq(Candles) /\ iv_history \in Seq(Ivs)
    BY EmptySeq DEF ViewInit
  <2> QED
    BY <2>1, <2>2, <2>3 DEF ViewInit, ViewTypeOK
<1>2. ViewTypeOK /\ [ViewNext]_viewVars => ViewTypeOK'
  <2> SUFFICES ASSUME ViewTypeOK, [ViewNext]_viewVars
               PROVE  ViewTypeOK'
    OBVIOUS
  <2>1. CASE NewCandle
    <3>1. candles' \in Seq(Candles)
      BY <2>1, AppendProperties DEF NewCandle, ViewTypeOK
    <3> QED
      BY <2>1, <3>1 DEF NewCandle, ViewTypeOK, ivVars, chainVars, breadthVars, Chain
  <2>2. CASE NewIv
    <3>1. iv_history' \in Seq(Ivs)
      BY <2>2, AppendProperties DEF NewIv, ViewTypeOK
    <3> QED
      BY <2>2, <3>1 DEF NewIv, ViewTypeOK, chainVars, breadthVars, Chain
  <2>3. CASE ChainMoves
    <3>1. call_oi' \in [Chain -> Nat] /\ put_oi' \in [Chain -> Nat]
      <4>1. call_oi \in [Chain -> Nat] /\ put_oi \in [Chain -> Nat]
        BY DEF ViewTypeOK
      <4>2. \A x : Near(x, 0..MaxOi) \subseteq Nat
        BY DEF Near
      <4>3. PICK s \in Chain :
                \/ \E oi \in Near(call_oi[s], 0..MaxOi) :
                       call_oi' = [call_oi EXCEPT ![s] = oi] /\ UNCHANGED put_oi
                \/ \E oi \in Near(put_oi[s], 0..MaxOi) :
                       put_oi' = [put_oi EXCEPT ![s] = oi] /\ UNCHANGED call_oi
        BY <2>3 DEF ChainMoves
      <4> QED
        BY <4>1, <4>2, <4>3
    <3>2. price' \in Int
      BY <2>3 DEF ChainMoves, ViewTypeOK, Near
    <3> QED
      BY <2>3, <3>1, <3>2 DEF ChainMoves, ViewTypeOK, ivVars, breadthVars, Chain
  <2>4. CASE BreadthMoves
    BY <2>4 DEF BreadthMoves, ViewTypeOK, Near, ivVars, chainVars, Chain
  <2>5. CASE UNCHANGED viewVars
    BY <2>5 DEF ViewTypeOK, viewVars, ivVars, chainVars, breadthVars, Chain
  <2> QED
    BY <2>1, <2>2, <2>3, <2>4, <2>5 DEF ViewNext
<1> QED
  BY <1>1, <1>2, PTL DEF ViewSpec

(* All the readings grow with the candles.                                 *)
LEMMA ReadingsGrow ==
    ASSUME NEW cs, NEW m, NEW ds, NEW n, Grows(cs, m, ds, n), \A i \in 1..n : ds[i] \in Candles
    PROVE  \A i \in DOMAIN Readings(cs) : Grows(Readings(cs)[i], m, Readings(ds)[i], n)
<1>1. /\ Period \in Nat \ {0} /\ FastPeriod \in Nat \ {0} /\ SlowPeriod \in Nat \ {0}
      /\ SignalPeriod \in Nat \ {0}
  BY ViewAssumption
<1>2. /\ Grows(Sma(cs, Period), m, Sma(ds, Period), n)
      /\ Grows(Ema(cs, Period), m, Ema(ds, Period), n)
      /\ Grows(Rsi(cs, Period), m, Rsi(ds, Period), n)
      /\ Grows(Atr(cs, Period), m, Atr(ds, Period), n)
      /\ Grows(Vwap(cs), m, Vwap(ds), n)
  BY <1>1, SmaGrows, EmaGrows, RsiGrows, AtrGrows, VwapGrows
<1>3. /\ Grows(BollingerBands(cs, Period, NumStd), m, BollingerBands(ds, Period, NumStd), n)
      /\ Grows(HistoricalVolatility(cs, Period), m, HistoricalVolatility(ds, Period), n)
      /\ Grows(ParkinsonVolatility(cs, Period), m, ParkinsonVolatility(ds, Period), n)
  BY <1>1, BollingerGrows, HistoricalGrows, ParkinsonGrows
<1>4. Grows(Macd(cs, FastPeriod, SlowPeriod, SignalPeriod), m,
            Macd(ds, FastPeriod, SlowPeriod, SignalPeriod), n)
  <2>1. \E late \in Nat \ {0} : Slower(FastPeriod, SlowPeriod, late)
    BY <1>1 DEF Slower
  <2> QED
    BY <1>1, <2>1, MacdGrows
<1>5. DOMAIN Readings(cs) = 1..9
  BY DEF Readings
<1>6. ASSUME NEW i \in 1..9
      PROVE  Grows(Readings(cs)[i], m, Readings(ds)[i], n)
  <2>1. i \in {1, 2, 3, 4, 5, 6, 7, 8, 9}
    OBVIOUS
  <2>2. CASE i \in {1, 2, 3, 4, 5}
    BY <1>2, <2>2 DEF Readings
  <2>3. CASE i \in {6, 8, 9}
    BY <1>3, <2>3 DEF Readings
  <2>4. CASE i = 7
    BY <1>4, <2>4 DEF Readings
  <2> QED
    BY <2>1, <2>2, <2>3, <2>4
<1> QED
  BY <1>5, <1>6

(* No indicator looks ahead, whatever its periods and however many candles *)
(* come: each has one reading per candle, and a new candle changes none of *)
(* the readings before it (src/ta/indicators.py, src/ta/volatility.py).    *)
THEOREM NoLookAheadHolds == ViewSpec => NoLookAhead
<1>1. ASSUME ViewTypeOK, [ViewNext]_viewVars
      PROVE  \A i \in DOMAIN Readings(candles) :
                 /\ Len(Readings(candles')[i]) = Len(candles')
                 /\ candles' # candles => IsPrefix(Readings(candles)[i], Readings(candles')[i])
  <2> DEFINE m == Len(candles)
             n == Len(candles')
  <2>1. candles' = candles \/ \E c \in Candles : candles' = Append(candles, c)
    <3>1. CASE NewCandle
      BY <3>1 DEF NewCandle
    <3>2. CASE NewIv \/ ChainMoves \/ BreadthMoves
      BY <3>2 DEF NewIv, ChainMoves, BreadthMoves
    <3>3. CASE UNCHANGED viewVars
      BY <3>3 DEF viewVars
    <3> QED
      BY <1>1, <3>1, <3>2, <3>3 DEF ViewNext
  <2>2. candles \in Seq(Candles) /\ candles' \in Seq(Candles)
    <3>1. candles \in Seq(Candles)
      BY <1>1 DEF ViewTypeOK
    <3>2. ASSUME NEW c \in Candles, candles' = Append(candles, c)
          PROVE  candles' \in Seq(Candles)
      BY <3>1, <3>2, AppendProperties
    <3> QED
      BY <2>1, <3>1, <3>2
  <2>3. Listed(candles, m) /\ Listed(candles', n)
    BY <2>2, LenProperties DEF Listed
  <2>4. m <= n /\ \A i \in 1..m : candles'[i] = candles[i]
    BY <2>1, <2>2, AppendProperties, LenProperties
  <2>5. \A i \in 1..n : candles'[i] \in Candles
    BY <2>2, ElementOfSeq
  <2>6. Grows(candles, m, candles', n)
    BY <2>3, <2>4 DEF Grows
  <2> HIDE DEF m, n
  <2>7. ASSUME NEW i \in DOMAIN Readings(candles)
        PROVE  /\ Len(Readings(candles')[i]) = n
               /\ IsPrefix(Readings(candles)[i], Readings(candles')[i])
    BY <2>5, <2>6, ReadingsGrow, GrowsIsPrefix
  <2> QED
    BY <2>7 DEF n
<1> DEFINE Kept == \A i \in DOMAIN Readings(candles) :
                       /\ Len(Readings(candles')[i]) = Len(candles')
                       /\ candles' # candles =>
                              IsPrefix(Readings(candles)[i], Readings(candles')[i])
<1>2. ViewTypeOK /\ [ViewNext]_viewVars => [Kept]_viewVars
  BY <1>1
<1>3. NoLookAhead <=> [][Kept]_viewVars
  BY DEF NoLookAhead
<1> HIDE DEF Kept
<1> QED
  BY <1>2, <1>3, ViewTypeCorrect, PTL DEF ViewSpec

-----------------------------------------------------------------------------
(* The order of fractions.                                                 *)

(* A fraction compares as what it was made of does.                        *)
LEMMA FractionOrder ==
    ASSUME NEW n \in Int, NEW d \in Int, d > 0, NEW q \in Rational
    PROVE  /\ AtMost(Fraction(n, d), q) <=> n * q.den <= q.num * d
           /\ AtMost(q, Fraction(n, d)) <=> q.num * d <= n * q.den
<1> DEFINE f == Fraction(n, d)
<1>1. PICK g \in Nat \ {0} : n = f.num * g /\ d = f.den * g
  BY FractionValue
<1>2. f.num \in Int /\ f.den \in Int /\ q.num \in Int /\ q.den \in Int
  BY FractionValue DEF Rational
<1> HIDE DEF f
<1>3. \A a, b, c \in Int : a * g * b = (a * b) * g /\ c * (b * g) = (c * b) * g
  OBVIOUS
<1>4. \A a, b \in Int : a * g <= b * g <=> a <= b
  OBVIOUS
<1>5. n * q.den = (f.num * q.den) * g /\ q.num * d = (q.num * f.den) * g
  BY <1>1, <1>2, <1>3
<1>6. f.num * q.den \in Int /\ q.num * f.den \in Int
  BY <1>2
<1>7. /\ n * q.den <= q.num * d <=> f.num * q.den <= q.num * f.den
      /\ q.num * d <= n * q.den <=> q.num * f.den <= f.num * q.den
  BY <1>4, <1>5, <1>6
<1> QED
  BY <1>7 DEF AtMost, f

(* A fraction has the sign of its numerator, and only 0 / d is zero.       *)
LEMMA FractionSign ==
    ASSUME NEW n \in Int, NEW d \in Int, d > 0
    PROVE  /\ Fraction(n, d).num > 0 <=> n > 0
           /\ Fraction(n, d).num < 0 <=> n < 0
           /\ Fraction(n, d) = Zero <=> n = 0
<1> DEFINE f == Fraction(n, d)
<1>1. PICK g \in Nat \ {0} : n = f.num * g /\ d = f.den * g
  BY FractionValue
<1>2. f.num \in Int
  BY FractionValue DEF Rational
<1> HIDE DEF f
<1>3. \A a \in Int : /\ a * g > 0 <=> a > 0
                     /\ a * g < 0 <=> a < 0
                     /\ a * g = 0 <=> a = 0
  OBVIOUS
<1>4. (f.num > 0 <=> n > 0) /\ (f.num < 0 <=> n < 0) /\ (f.num = 0 <=> n = 0)
  BY <1>1, <1>2, <1>3
<1>5. f = Zero => f.num = 0
  BY DEF Zero, Whole
<1>6. n = 0 => f = Zero
  <2>1. Fraction(0 * d, d) = Whole(0)
    BY FractionWhole
  <2>2. 0 * d = 0
    OBVIOUS
  <2> QED
    BY <2>1, <2>2 DEF Zero, f
<1> QED
  BY <1>4, <1>5, <1>6 DEF f

(* The order of whole numbers is theirs.                                   *)
LEMMA WholeOrder ==
    ASSUME NEW a \in Int, NEW b \in Int
    PROVE  /\ AtMost(Whole(a), Whole(b)) <=> a <= b
           /\ Below(Whole(a), Whole(b)) <=> a < b
           /\ Whole(a) = Whole(b) <=> a = b
           /\ Whole(a).num = a /\ Whole(a).den = 1
<1>1. Whole(a).num = a /\ Whole(a).den = 1 /\ Whole(b).num = b /\ Whole(b).den = 1
  BY DEF Whole
<1>2. a * 1 = a /\ b * 1 = b
  OBVIOUS
<1>3. Whole(a) = Whole(b) <=> a = b
  BY <1>1 DEF Whole
<1> QED
  BY <1>1, <1>2, <1>3 DEF AtMost, Below

(* The order is total and transitive.                                      *)
LEMMA OrderTotal ==
    ASSUME NEW p \in Rational, NEW q \in Rational
    PROVE  AtMost(p, p) /\ (AtMost(p, q) \/ AtMost(q, p)) /\ (Below(p, q) <=> ~AtMost(q, p))
<1>1. /\ p.num \in Int /\ q.num \in Int /\ p.den \in Int /\ q.den \in Int
      /\ p.num * q.den \in Int /\ q.num * p.den \in Int /\ p.num * p.den \in Int
  BY DEF Rational
<1> QED
  BY <1>1 DEF AtMost, Below

(* At most is transitive.                                                  *)
LEMMA OrderTransitive ==
    ASSUME NEW p \in Rational, NEW q \in Rational, NEW r \in Rational,
           AtMost(p, q), AtMost(q, r)
    PROVE  AtMost(p, r)
<1> DEFINE a == p.num
           b == p.den
           c == q.num
           d == q.den
           e == r.num
           f == r.den
<1>1. /\ a \in Int /\ b \in Nat \ {0} /\ c \in Int /\ d \in Nat \ {0}
      /\ e \in Int /\ f \in Nat \ {0}
  BY DEF Rational
<1>2. a * d <= c * b /\ c * f <= e * d
  BY DEF AtMost
<1> HIDE DEF a, b, c, d, e, f
<1>3. /\ a * d \in Int /\ c * b \in Int /\ c * f \in Int
      /\ e * d \in Int /\ a * f \in Int /\ e * b \in Int
  BY <1>1
<1>4. \A x, y \in Int, z \in Nat \ {0} : x <= y => x * z <= y * z
  OBVIOUS
<1>5. (a * d) * f <= (c * b) * f /\ (c * f) * b <= (e * d) * b
  BY <1>1, <1>2, <1>3, <1>4
<1>6. \A x, y, z \in Int : (x * y) * z = (x * z) * y
  OBVIOUS
<1>7. (a * d) * f = (a * f) * d /\ (c * b) * f = (c * f) * b /\ (e * d) * b = (e * b) * d
  BY <1>1, <1>6
<1>8. (a * f) * d <= (e * b) * d
  <2>1. (a * d) * f \in Int /\ (c * b) * f \in Int /\ (e * d) * b \in Int
    BY <1>1, <1>3
  <2> QED
    BY <1>5, <1>7, <2>1
<1>9. \A x, y \in Int, z \in Nat \ {0} : x * z <= y * z => x <= y
  OBVIOUS
<1>10. a * f <= e * b
  BY <1>1, <1>3, <1>8, <1>9
<1> QED
  BY <1>10 DEF AtMost, a, b, e, f

(* A list of fractions has a greatest and a least.                         *)
LEMMA ExtremesExist ==
    ASSUME NEW s, Fractional(s), Len(s) # 0
    PROVE  /\ \E i \in 1..Len(s) : \A j \in 1..Len(s) : AtMost(s[j], s[i])
           /\ \E i \in 1..Len(s) : \A j \in 1..Len(s) : AtMost(s[i], s[j])
<1> DEFINE Top1(n) == \E i \in 1..n : \A j \in 1..n : AtMost(s[j], s[i])
           Bottom(n) == \E i \in 1..n : \A j \in 1..n : AtMost(s[i], s[j])
           Bad == {n \in 1..Len(s) : ~(Top1(n) /\ Bottom(n))}
<1>1. Len(s) \in Nat /\ \A i \in 1..Len(s) : s[i] \in Rational
  BY DEF Fractional
<1>2. \A l \in Nat : \A k \in 1..l : \A j \in 1..k : j \in 1..l /\ (j = k \/ j \in 1..k - 1)
  OBVIOUS
<1>3. ASSUME Bad # {}
      PROVE  FALSE
  <2>1. PICK n \in Bad : \A k \in Bad : n <= k
    <3> HIDE DEF Top1, Bottom
    <3>1. Bad \in SUBSET Nat
      BY <1>1
    <3> HIDE DEF Bad
    <3> QED
      BY <1>3, <3>1, LeastNumber
  <2>2. n \in 1..Len(s) /\ s[n] \in Rational
    BY <1>1
  <2>3. CASE n = 1
    <3>1. 1 \in 1..1 /\ \A j \in 1..1 : j = 1
      OBVIOUS
    <3>2. AtMost(s[1], s[1])
      BY <2>2, <2>3, OrderTotal
    <3>3. Top1(1) /\ Bottom(1)
      BY <3>1, <3>2
    <3> HIDE DEF Top1, Bottom
    <3> QED
      BY <2>3, <3>3
  <2>4. CASE n # 1
    <3>1. n - 1 \in 1..Len(s) /\ ~(n <= n - 1) /\ n - 1 \in Nat
      BY <1>1, <2>2, <2>4
    <3>2. Top1(n - 1) /\ Bottom(n - 1)
      <4> HIDE DEF Top1, Bottom
      <4> QED
        BY <2>1, <3>1
    <3>3. PICK t \in 1..n - 1 : \A j \in 1..n - 1 : AtMost(s[j], s[t])
      BY <3>2
    <3>4. PICK b \in 1..n - 1 : \A j \in 1..n - 1 : AtMost(s[b], s[j])
      BY <3>2
    <3>5. \A j \in 1..n : s[j] \in Rational /\ (j = n \/ j \in 1..n - 1)
      <4>1. \A j \in 1..n : j \in 1..Len(s) /\ (j = n \/ j \in 1..n - 1)
        BY <1>1, <1>2, <2>2
      <4> QED
        BY <1>1, <4>1
    <3>6. t \in 1..n /\ b \in 1..n /\ n \in 1..n
      BY <2>2, <3>1
    <3>7. Top1(n)
      <4>1. CASE AtMost(s[n], s[t])
        BY <3>3, <3>5, <3>6, <4>1
      <4>2. CASE AtMost(s[t], s[n])
        <5>1. \A j \in 1..n : AtMost(s[j], s[n])
          BY <2>2, <3>3, <3>5, <3>6, <4>2, OrderTotal, OrderTransitive
        <5> QED
          BY <3>6, <5>1
      <4> QED
        BY <3>5, <3>6, <4>1, <4>2, OrderTotal
    <3>8. Bottom(n)
      <4>1. CASE AtMost(s[b], s[n])
        BY <3>4, <3>5, <3>6, <4>1
      <4>2. CASE AtMost(s[n], s[b])
        <5>1. \A j \in 1..n : AtMost(s[n], s[j])
          BY <2>2, <3>4, <3>5, <3>6, <4>2, OrderTotal, OrderTransitive
        <5> QED
          BY <3>6, <5>1
      <4> QED
        BY <3>5, <3>6, <4>1, <4>2, OrderTotal
    <3> HIDE DEF Top1, Bottom
    <3> QED
      BY <3>7, <3>8
  <2> QED
    BY <2>3, <2>4
<1>4. Top1(Len(s)) /\ Bottom(Len(s))
  <2> HIDE DEF Top1, Bottom
  <2>1. Len(s) \in 1..Len(s)
    BY <1>1
  <2> QED
    BY <1>3, <2>1
<1> QED
  BY <1>4

(* Greatest and Least find them.                                           *)
LEMMA ExtremesOf ==
    ASSUME NEW s, Fractional(s), Len(s) # 0, DOMAIN s = 1..Len(s)
    PROVE  /\ \E i \in 1..Len(s) : s[i] = Greatest(s)
           /\ \E i \in 1..Len(s) : s[i] = Least(s)
           /\ \A i \in 1..Len(s) : AtMost(s[i], Greatest(s)) /\ AtMost(Least(s), s[i])
<1> DEFINE S == ToSet(s)
<1>1. S = {s[i] : i \in 1..Len(s)}
  BY DEF ToSet
<1>2. /\ \E v \in S : \A w \in S : AtMost(w, v)
      /\ \E v \in S : \A w \in S : AtMost(v, w)
  <2>1. PICK i \in 1..Len(s) : \A j \in 1..Len(s) : AtMost(s[j], s[i])
    BY ExtremesExist
  <2>2. PICK k \in 1..Len(s) : \A j \in 1..Len(s) : AtMost(s[k], s[j])
    BY ExtremesExist
  <2> HIDE DEF S
  <2>3. s[i] \in S /\ \A w \in S : AtMost(w, s[i])
    BY <1>1, <2>1
  <2>4. s[k] \in S /\ \A w \in S : AtMost(s[k], w)
    BY <1>1, <2>2
  <2> QED
    BY <2>3, <2>4
<1> HIDE DEF S
<1>3. Greatest(s) \in S /\ \A w \in S : AtMost(w, Greatest(s))
  BY <1>2, Zenon DEF Greatest, S
<1>4. Least(s) \in S /\ \A w \in S : AtMost(Least(s), w)
  BY <1>2, Zenon DEF Least, S
<1> QED
  BY <1>1, <1>3, <1>4

-----------------------------------------------------------------------------
(* Implied volatility.                                                     *)

(* The difference of whole numbers.                                        *)
LEMMA WholeMinus ==
    ASSUME NEW a \in Int, NEW b \in Int
    PROVE  Minus(Whole(a), Whole(b)) = Whole(a - b)
<1>1. a * 1 = a /\ b * 1 = b /\ (a - b) * 1 = a - b /\ a - b \in Int
  OBVIOUS
<1>2. Minus(Whole(a), Whole(b)) = Fraction(a * 1 - b * 1, 1 * 1)
  BY WholeOrder DEF Minus
<1>3. Minus(Whole(a), Whole(b)) = Fraction((a - b) * 1, 1)
  BY <1>1, <1>2
<1> QED
  BY <1>1, <1>3, FractionWhole

(* A part of a hundred.                                                    *)
LEMMA PartOfHundred ==
    ASSUME NEW x \in Int, NEW d \in Nat \ {0}
    PROVE  LET part == Times(Fraction(x, d), Hundred)
           IN  /\ part \in Rational
               /\ AtMost(part, Zero) <=> x <= 0
               /\ AtMost(Zero, part) <=> 0 <= x
               /\ AtMost(Hundred, part) <=> d <= x
               /\ AtMost(part, Hundred) <=> x <= d
               /\ part = Zero <=> x = 0
               /\ x = d => part = Hundred
<1> DEFINE f == Fraction(x, d)
           part == Times(f, Hundred)
<1>1. PICK g \in Nat \ {0} : x = f.num * g /\ d = f.den * g
  BY FractionValue
<1>2. f.num \in Int /\ f.den \in Nat \ {0}
  BY FractionValue DEF Rational
<1>3. Hundred \in Rational /\ Zero \in Rational /\ Hundred.num = 100 /\ Hundred.den = 1
      /\ Zero.num = 0 /\ Zero.den = 1
  BY WholeRational DEF Hundred, Zero, Whole
<1> HIDE DEF f
<1>4. part = Fraction(f.num * 100, f.den * 1)
  BY <1>3 DEF Times
<1>5. f.num * 100 \in Int /\ f.den * 1 \in Int /\ f.den * 1 > 0
  BY <1>2
<1>6. /\ AtMost(part, Zero) <=> (f.num * 100) * 1 <= 0 * (f.den * 1)
      /\ AtMost(Zero, part) <=> 0 * (f.den * 1) <= (f.num * 100) * 1
      /\ AtMost(part, Hundred) <=> (f.num * 100) * 1 <= 100 * (f.den * 1)
      /\ AtMost(Hundred, part) <=> 100 * (f.den * 1) <= (f.num * 100) * 1
      /\ part = Zero <=> f.num * 100 = 0
      /\ part \in Rational
  <2> DEFINE n == f.num * 100
             e == f.den * 1
  <2>1. n \in Int /\ e \in Int /\ e > 0 /\ part = Fraction(n, e)
    BY <1>4, <1>5
  <2> HIDE DEF n, e
  <2>2. /\ AtMost(part, Zero) <=> n * 1 <= 0 * e
        /\ AtMost(Zero, part) <=> 0 * e <= n * 1
    BY <1>3, <2>1, FractionOrder
  <2>3. /\ AtMost(part, Hundred) <=> n * 1 <= 100 * e
        /\ AtMost(Hundred, part) <=> 100 * e <= n * 1
    BY <1>3, <2>1, FractionOrder
  <2>4. (part = Zero <=> n = 0) /\ part \in Rational
    BY <2>1, FractionSign, FractionValue
  <2> QED
    BY <2>2, <2>3, <2>4 DEF n, e
<1> HIDE DEF part
<1>7. /\ AtMost(part, Zero) <=> f.num <= 0
      /\ AtMost(Zero, part) <=> 0 <= f.num
      /\ AtMost(part, Hundred) <=> f.num <= f.den
      /\ AtMost(Hundred, part) <=> f.den <= f.num
      /\ part = Zero <=> f.num = 0
  BY <1>2, <1>6
<1>8. \A a, b \in Int : /\ a * g <= b * g <=> a <= b
                        /\ a * g <= 0 <=> a <= 0
                        /\ 0 <= a * g <=> 0 <= a
                        /\ a * g = 0 <=> a = 0
  OBVIOUS
<1>9. /\ x <= 0 <=> f.num <= 0
      /\ 0 <= x <=> 0 <= f.num
      /\ x <= d <=> f.num <= f.den
      /\ d <= x <=> f.den <= f.num
      /\ x = 0 <=> f.num = 0
  BY <1>1, <1>2, <1>8
<1>10. ASSUME x = d
       PROVE  part = Hundred
  <2>1. f.num = f.den
    BY <1>2, <1>9, <1>10
  <2>2. part = Fraction(100 * f.den, f.den)
    BY <1>2, <1>4, <2>1 DEF part
  <2>3. Fraction(100 * f.den, f.den) = Whole(100)
    <3> DEFINE e == f.den
    <3> HIDE DEF e
    <3>1. e \in Nat \ {0} /\ 100 \in Int
      BY <1>2 DEF e
    <3>2. Fraction(100 * e, e) = Whole(100)
      BY <3>1, FractionWhole
    <3> QED
      BY <3>2 DEF e
  <2> QED
    BY <2>2, <2>3 DEF Hundred
<1> QED
  BY <1>6, <1>7, <1>9, <1>10 DEF part, f

(* The volatilities of the history as fractions.                           *)
LEMMA HistoryReads ==
    ASSUME NEW h \in Seq(Nat \ {0})
    PROVE  LET s == Each(Whole, h)
           IN  /\ Fractional(s) /\ Len(s) = Len(h) /\ DOMAIN s = 1..Len(s)
               /\ \A i \in 1..Len(h) : s[i] = Whole(h[i]) /\ h[i] \in Nat \ {0}
<1> DEFINE s == Each(Whole, h)
<1>1. Len(h) \in Nat /\ \A i \in 1..Len(h) : h[i] \in Nat \ {0}
  BY LenProperties, ElementOfSeq
<1>2. s = [i \in 1..Len(h) |-> Whole(h[i])]
  BY DEF Each
<1> HIDE DEF s
<1>3. Listed(s, Len(h))
  BY <1>1, <1>2 DEF Listed
<1>4. Len(s) = Len(h) /\ DOMAIN s = 1..Len(s)
  BY <1>3, ListIsSeq
<1>5. \A i \in 1..Len(h) : s[i] = Whole(h[i]) /\ s[i] \in Rational
  <2> SUFFICES ASSUME NEW i \in 1..Len(h)
               PROVE  s[i] = Whole(h[i]) /\ s[i] \in Rational
    OBVIOUS
  <2>1. h[i] \in Int
    BY <1>1
  <2> QED
    BY <1>2, <2>1, WholeRational
<1> QED
  BY <1>1, <1>4, <1>5 DEF Fractional, s

(* Its least and its greatest.                                             *)
LEMMA HistoryExtremes ==
    ASSUME NEW h \in Seq(Nat \ {0}), h # <<>>
    PROVE  \E lo, hi \in Nat \ {0} :
               /\ Least(Each(Whole, h)) = Whole(lo) /\ Greatest(Each(Whole, h)) = Whole(hi)
               /\ \A i \in 1..Len(h) : lo <= h[i] /\ h[i] <= hi
               /\ \E i \in 1..Len(h) : h[i] = lo
               /\ \E i \in 1..Len(h) : h[i] = hi
<1> DEFINE s == Each(Whole, h)
<1>1. /\ Fractional(s) /\ Len(s) = Len(h) /\ DOMAIN s = 1..Len(s)
      /\ \A i \in 1..Len(h) : s[i] = Whole(h[i]) /\ h[i] \in Nat \ {0}
  BY HistoryReads
<1>2. Len(s) # 0
  BY <1>1, EmptySeq
<1> HIDE DEF s
<1>3. PICK i \in 1..Len(s) : s[i] = Greatest(s)
  BY <1>1, <1>2, ExtremesOf
<1>4. PICK k \in 1..Len(s) : s[k] = Least(s)
  BY <1>1, <1>2, ExtremesOf
<1>5. \A j \in 1..Len(s) : AtMost(s[j], s[i]) /\ AtMost(s[k], s[j])
  BY <1>1, <1>2, <1>3, <1>4, ExtremesOf
<1>6. \A j \in 1..Len(h) : h[k] <= h[j] /\ h[j] <= h[i]
  <2> SUFFICES ASSUME NEW j \in 1..Len(h)
               PROVE  h[k] <= h[j] /\ h[j] <= h[i]
    OBVIOUS
  <2>1. h[i] \in Int /\ h[j] \in Int /\ h[k] \in Int
    BY <1>1
  <2>2. AtMost(Whole(h[j]), Whole(h[i])) /\ AtMost(Whole(h[k]), Whole(h[j]))
    BY <1>1, <1>5
  <2> QED
    BY <2>1, <2>2, WholeOrder
<1> QED
  BY <1>1, <1>3, <1>4, <1>6 DEF s

(* The percentile counts the days below.                                   *)
LEMMA PercentileReads ==
    ASSUME NEW h \in Seq(Nat \ {0}), h # <<>>, NEW iv \in Nat \ {0}
    PROVE  LET p == IvPercentile(Whole(iv), Each(Whole, h))
           IN  /\ Between(Zero, p, Hundred)
               /\ p = Hundred <=> \A i \in 1..Len(h) : h[i] < iv
               /\ p = Zero <=> \A i \in 1..Len(h) : iv <= h[i]
<1> DEFINE s == Each(Whole, h)
           p == IvPercentile(Whole(iv), s)
           below == {i \in 1..Len(s) : Below(s[i], Whole(iv))}
           c == Cardinality(below)
           n == Len(h)
<1>1. /\ Len(s) = n /\ n \in Nat \ {0}
      /\ \A i \in 1..n : s[i] = Whole(h[i]) /\ h[i] \in Nat \ {0}
  BY HistoryReads, EmptySeq, LenProperties
<1>2. s # <<>>
  BY <1>1, EmptySeq
<1>3. p = Times(Fraction(c, n), Hundred)
  BY <1>1, <1>2 DEF IvPercentile
<1> HIDE DEF s, p
<1>4. below = {i \in 1..n : h[i] < iv}
  <2>1. ASSUME NEW i \in 1..n
        PROVE  Below(s[i], Whole(iv)) <=> h[i] < iv
    <3>1. h[i] \in Int /\ s[i] = Whole(h[i]) /\ iv \in Int
      BY <1>1
    <3>2. Below(Whole(h[i]), Whole(iv)) <=> h[i] < iv
      BY <3>1, WholeOrder
    <3> QED
      BY <3>1, <3>2
  <2> QED
    BY <1>1, <2>1
<1> HIDE DEF below
<1>5. IsFiniteSet(1..n) /\ Cardinality(1..n) = n
  BY <1>1, FirstNumbers
<1>6. /\ c \in Nat /\ c <= n
      /\ c = n <=> \A i \in 1..n : h[i] < iv
      /\ c = 0 <=> \A i \in 1..n : iv <= h[i]
  <2>1. below \in SUBSET (1..n)
    BY <1>4
  <2>2. IsFiniteSet(below) /\ c <= n /\ (below = 1..n \/ c < n)
    <3>1. IsFiniteSet(below) /\ Cardinality(below) <= Cardinality(1..n)
      BY <1>5, <2>1, FS_Subset
    <3>2. Cardinality(below) \in Nat /\ Cardinality(1..n) \in Nat
      BY <1>1, <1>5, <3>1, FS_CardinalityType
    <3>3. Cardinality(1..n) = Cardinality(below) => 1..n = below
      BY <1>5, <2>1, FS_Subset
    <3> QED
      BY <1>5, <3>1, <3>2, <3>3
  <2>3. c \in Nat
    BY <2>2, FS_CardinalityType
  <2>4. c = 0 <=> below = {}
    BY <2>2, FS_EmptySet
  <2>5. below = 1..n <=> \A i \in 1..n : h[i] < iv
    BY <1>4
  <2>6. below = {} <=> \A i \in 1..n : iv <= h[i]
    BY <1>1, <1>4
  <2>7. c = n <=> below = 1..n
    BY <1>1, <1>5, <2>2, <2>3
  <2> QED
    BY <2>2, <2>3, <2>4, <2>5, <2>6, <2>7
<1> HIDE DEF c, n
<1>7. /\ AtMost(Zero, p) /\ AtMost(p, Hundred)
      /\ AtMost(Hundred, p) <=> n <= c
      /\ c = n => p = Hundred
      /\ p = Zero <=> c = 0
  BY <1>1, <1>3, <1>6, PartOfHundred
<1>8. p = Hundred <=> c = n
  <2>1. AtMost(Hundred, Hundred)
    BY WholeOrder DEF Hundred
  <2> QED
    BY <1>1, <1>6, <1>7, <2>1
<1> QED
  BY <1>6, <1>7, <1>8 DEF Between, p, s, n

(* The rank is where the volatility lies between least and greatest.       *)
LEMMA RankReads ==
    ASSUME NEW s, s # <<>>, NEW iv \in Nat \ {0}, NEW lo \in Nat \ {0}, NEW hi \in Nat \ {0},
           lo <= hi, Least(s) = Whole(lo), Greatest(s) = Whole(hi)
    PROVE  LET rank == IvRank(Whole(iv), s)
           IN  /\ Between(Zero, rank, Hundred)
               /\ lo = hi => rank = Whole(50)
               /\ lo # hi => /\ rank = Hundred <=> hi <= iv
                             /\ rank = Zero <=> iv <= lo
<1> DEFINE rank == IvRank(Whole(iv), s)
           raw == Times(Over(Minus(Whole(iv), Whole(lo)), Minus(Whole(hi), Whole(lo))), Hundred)
<1>1. rank = IF Whole(lo) = Whole(hi) THEN Whole(50) ELSE Greater(Zero, Lesser(Hundred, raw))
  BY DEF IvRank
<1>2. Whole(lo) = Whole(hi) <=> lo = hi
  BY WholeOrder
<1>3. CASE lo = hi
  <2>1. AtMost(Zero, Whole(50)) /\ AtMost(Whole(50), Hundred)
    BY WholeOrder DEF Zero, Hundred
  <2> HIDE DEF rank
  <2>2. rank = Whole(50)
    BY <1>1, <1>2, <1>3
  <2> QED
    BY <1>3, <2>1, <2>2 DEF Between, rank
<1>4. CASE lo # hi
  <2> DEFINE x == iv - lo
             d == hi - lo
  <2>1. x \in Int /\ d \in Nat \ {0} /\ (d <= x <=> hi <= iv) /\ (x <= 0 <=> iv <= lo)
    BY <1>4
  <2>2. raw = Times(Fraction(x, d), Hundred)
    <3>1. Minus(Whole(iv), Whole(lo)) = Whole(x) /\ Minus(Whole(hi), Whole(lo)) = Whole(d)
      BY WholeMinus
    <3> HIDE DEF x, d
    <3>2. x * 1 = x /\ 1 * d = d
      BY <2>1
    <3>3. Over(Whole(x), Whole(d)) = Fraction(x, d)
      BY <2>1, <3>2, WholeOrder DEF Over
    <3> QED
      BY <3>1, <3>3
  <2> HIDE DEF x, d, raw
  <2>3. /\ raw \in Rational
        /\ AtMost(raw, Zero) <=> x <= 0
        /\ AtMost(Zero, raw) <=> 0 <= x
        /\ AtMost(Hundred, raw) <=> d <= x
        /\ AtMost(raw, Hundred) <=> x <= d
        /\ raw = Zero <=> x = 0
    BY <2>1, <2>2, PartOfHundred
  <2>4. /\ AtMost(Zero, Hundred) /\ AtMost(Zero, Zero) /\ AtMost(Hundred, Hundred)
        /\ Zero # Hundred
    BY WholeOrder DEF Zero, Hundred
  <2> HIDE DEF rank
  <2>5. rank = Greater(Zero, Lesser(Hundred, raw))
    BY <1>1, <1>2, <1>4
  <2>6. CASE d <= x
    <3>1. Lesser(Hundred, raw) = Hundred
      BY <2>3, <2>6 DEF Lesser
    <3>2. rank = Hundred
      BY <2>4, <2>5, <3>1 DEF Greater
    <3>3. iv > lo
      BY <2>1, <2>6
    <3> QED
      BY <1>4, <2>1, <2>4, <2>6, <3>2, <3>3 DEF Between, rank
  <2>7. CASE ~(d <= x) /\ 0 <= x
    <3>1. Lesser(Hundred, raw) = raw
      BY <2>3, <2>7 DEF Lesser
    <3>2. rank = raw
      BY <2>3, <2>5, <2>7, <3>1 DEF Greater
    <3>3. raw # Hundred /\ AtMost(raw, Hundred)
      BY <2>1, <2>3, <2>4, <2>7
    <3>4. x = 0 <=> iv <= lo
      BY <2>1, <2>7
    <3> QED
      BY <1>4, <2>1, <2>3, <2>7, <3>2, <3>3, <3>4 DEF Between, rank
  <2>8. CASE ~(d <= x) /\ ~(0 <= x)
    <3>1. Lesser(Hundred, raw) = raw
      BY <2>3, <2>8 DEF Lesser
    <3>2. rank = Zero
      BY <2>3, <2>5, <2>8, <3>1 DEF Greater
    <3>3. iv <= lo
      BY <2>1, <2>8
    <3> QED
      BY <1>4, <2>1, <2>4, <2>8, <3>2, <3>3 DEF Between, rank
  <2> QED
    BY <2>6, <2>7, <2>8
<1> QED
  BY <1>3, <1>4

(* The surface: at the money it has the volatility it was made of, away    *)
(* from the money more.                                                    *)
LEMMA SurfaceReads ==
    ASSUME NEW a \in Nat \ {0}, NEW b \in Nat \ {0}, NEW iv \in Nat \ {0},
           NEW skew \in Rational, skew.num > 0
    PROVE  AtMost(IvSurfacePoint(Whole(a), Whole(iv), Whole(b), skew), Whole(iv)) <=> a = b
<1> DEFINE over == Over(Whole(a), Whole(b))
           moneyness == Minus(over, Whole(1))
           away == Distance(moneyness, Zero)
           more == Times(skew, away)
           part == Plus(Whole(1), more)
           point == Times(Whole(iv), part)
<1>1. IvSurfacePoint(Whole(a), Whole(iv), Whole(b), skew) = point
  <2>1. ~AtMost(Whole(b), Zero)
    BY WholeOrder DEF Zero
  <2> QED
    BY <2>1 DEF IvSurfacePoint
<1>2. over = Fraction(a, b)
  <2>1. a * 1 = a /\ 1 * b = b
    OBVIOUS
  <2> QED
    BY <2>1, WholeOrder DEF Over
<1>3. /\ Whole(1) \in Rational /\ Whole(iv) \in Rational /\ Zero \in Rational
      /\ Whole(1).num = 1 /\ Whole(1).den = 1 /\ Zero.num = 0 /\ Zero.den = 1
      /\ Whole(iv).num = iv /\ Whole(iv).den = 1
  BY WholeRational, WholeOrder DEF Zero
<1>4. PICK g \in Nat \ {0} : a = over.num * g /\ b = over.den * g
  BY <1>2, FractionValue
<1>5. over \in Rational /\ over.num \in Int /\ over.den \in Nat \ {0}
  <2>1. over \in Rational
    BY <1>2, FractionValue
  <2> QED
    BY <2>1 DEF Rational
<1> HIDE DEF over
<1>6. over.num = over.den <=> a = b
  <2>1. \A x, y \in Int : x * g = y * g <=> x = y
    OBVIOUS
  <2>2. over.num * g = over.den * g <=> over.num = over.den
    BY <1>5, <2>1
  <2> QED
    BY <1>4, <2>2
<1>7. moneyness = Fraction(over.num - over.den, over.den)
  <2>1. over.num * 1 = over.num /\ 1 * over.den = over.den /\ over.den * 1 = over.den
    BY <1>5
  <2> QED
    BY <1>3, <2>1 DEF Minus
<1>8. over.num - over.den \in Int /\ over.den \in Int /\ over.den > 0
  BY <1>5
<1>9. /\ moneyness \in Rational
      /\ moneyness.num > 0 <=> over.num - over.den > 0
      /\ moneyness.num < 0 <=> over.num - over.den < 0
  <2> DEFINE n == over.num - over.den
             d == over.den
  <2> HIDE DEF n, d, moneyness
  <2> QED
    BY <1>7, <1>8, FractionSign, FractionValue DEF n, d
<1>10. moneyness.num = 0 <=> a = b
  <2>1. moneyness.num \in Int
    BY <1>9 DEF Rational
  <2> QED
    BY <1>5, <1>6, <1>9, <2>1
<1> HIDE DEF moneyness
<1>11. away \in Rational /\ away.num >= 0 /\ (away.num = 0 <=> a = b)
  <2> DEFINE n == moneyness.num
             d == moneyness.den
  <2>1. n \in Int /\ d \in Int /\ d > 0
    BY <1>9 DEF Rational
  <2>2. 0 * d = 0 /\ n * 1 = n /\ 1 * d = d /\ d * 1 = d /\ 0 - n = -n /\ n - 0 = n
    BY <2>1
  <2>3. AtMost(moneyness, Zero) <=> n <= 0
    BY <1>3, <2>2 DEF AtMost
  <2>4. Minus(Zero, moneyness) = Fraction(-n, d) /\ Minus(moneyness, Zero) = Fraction(n, d)
    BY <1>3, <2>2 DEF Minus
  <2>5. away = IF n <= 0 THEN Fraction(-n, d) ELSE Fraction(n, d)
    BY <2>3, <2>4 DEF Distance
  <2> HIDE DEF n, d, away
  <2>6. n = 0 <=> a = b
    BY <1>10 DEF n
  <2>7. CASE n <= 0
    <3>1. -n \in Int /\ -n >= 0 /\ away = Fraction(-n, d)
      BY <2>1, <2>5, <2>7
    <3>2. away \in Rational /\ (away.num > 0 <=> -n > 0) /\ (away.num < 0 <=> -n < 0)
      BY <2>1, <3>1, FractionSign, FractionValue
    <3>3. away.num \in Int
      BY <3>2 DEF Rational
    <3> QED
      BY <2>1, <2>6, <3>1, <3>2, <3>3
  <2>8. CASE n > 0
    <3>1. away = Fraction(n, d)
      BY <2>1, <2>5, <2>8
    <3>2. away \in Rational /\ (away.num > 0 <=> n > 0)
      BY <2>1, <3>1, FractionSign, FractionValue
    <3>3. away.num \in Int
      BY <3>2 DEF Rational
    <3> QED
      BY <2>1, <2>6, <2>8, <3>2, <3>3
  <2> QED
    BY <2>1, <2>7, <2>8
<1> HIDE DEF away
<1>12. more \in Rational /\ more.num >= 0 /\ (more.num = 0 <=> a = b)
  <2> DEFINE n == skew.num * away.num
             d == skew.den * away.den
  <2>1. /\ skew.num \in Int /\ skew.den \in Nat \ {0}
        /\ away.num \in Int /\ away.den \in Nat \ {0}
    BY <1>11 DEF Rational
  <2>2. \A x, y \in Int : x > 0 /\ y >= 0 => x * y >= 0 /\ (x * y = 0 <=> y = 0)
    OBVIOUS
  <2>3. \A x, y \in Nat \ {0} : x * y \in Int /\ x * y > 0
    OBVIOUS
  <2>4. n \in Int /\ n >= 0 /\ (n = 0 <=> a = b) /\ d \in Int /\ d > 0
    BY <1>11, <2>1, <2>2, <2>3
  <2>5. more = Fraction(n, d)
    BY DEF Times
  <2> HIDE DEF n, d, more
  <2>6. more \in Rational /\ (more.num > 0 <=> n > 0) /\ (more.num < 0 <=> n < 0)
    BY <2>4, <2>5, FractionSign, FractionValue
  <2>7. more.num \in Int
    BY <2>6 DEF Rational
  <2> QED
    BY <2>4, <2>6, <2>7
<1> HIDE DEF more
<1>13. /\ part \in Rational /\ part.num \in Int /\ part.den \in Nat \ {0}
       /\ part.num <= part.den <=> a = b
  <2>1. more.num \in Int /\ more.den \in Nat \ {0}
    BY <1>12 DEF Rational
  <2> DEFINE n == more.den + more.num
             d == more.den
  <2>2. part = Fraction(n, d)
    <3>1. 1 * more.den = more.den /\ more.num * 1 = more.num
      BY <2>1
    <3> QED
      BY <1>3, <3>1 DEF Plus
  <2>3. n \in Int /\ d \in Int /\ d > 0 /\ (n <= d <=> a = b)
    BY <1>12, <2>1
  <2> HIDE DEF n, d, part
  <2>4. AtMost(part, Whole(1)) <=> n * 1 <= 1 * d
    BY <1>3, <2>2, <2>3, FractionOrder
  <2>5. part \in Rational
    BY <2>2, <2>3, FractionValue
  <2>6. part.num \in Int /\ part.den \in Nat \ {0}
    BY <2>5 DEF Rational
  <2>7. AtMost(part, Whole(1)) <=> part.num * 1 <= 1 * part.den
    BY <1>3 DEF AtMost
  <2> QED
    BY <2>3, <2>4, <2>5, <2>6, <2>7
<1> HIDE DEF part
<1>14. AtMost(point, Whole(iv)) <=> a = b
  <2> DEFINE n == iv * part.num
             d == 1 * part.den
  <2>1. n \in Int /\ d \in Int /\ d > 0 /\ point = Fraction(n, d)
    BY <1>3, <1>13 DEF Times
  <2> HIDE DEF n, d, point
  <2>2. AtMost(point, Whole(iv)) <=> n * 1 <= iv * d
    BY <1>3, <2>1, FractionOrder
  <2>3. n * 1 = iv * part.num /\ iv * d = iv * part.den
    BY <1>13 DEF n, d
  <2>4. \A x, y \in Int : iv * x <= iv * y <=> x <= y
    OBVIOUS
  <2> QED
    BY <1>13, <2>2, <2>3, <2>4
<1> QED
  BY <1>1, <1>14

(* Rank and percentile tell one story of every history of implied          *)
(* volatilities, and the surface has its least volatility at the money     *)
(* and nowhere else, with whatever positive skew (calculate_iv_rank,       *)
(* calculate_iv_percentile, iv_surface_point of src/ta/volatility.py).     *)
THEOREM IvReadingsAgreeHolds == ViewSpec => []IvReadingsAgree
<1>1. ViewTypeOK => IvReadingsAgree
  <2> SUFFICES ASSUME ViewTypeOK
               PROVE  IvReadingsAgree
    OBVIOUS
  <2> DEFINE current == Whole(current_iv)
             history == Each(Whole, iv_history)
             rank == IvRank(current, history)
             percentile == IvPercentile(current, history)
             Surface(s, spot) ==
                 IvSurfacePoint(Whole(Strikes[s]), current, Whole(Strikes[spot]), SkewFactor)
  <2>1. current_iv \in Nat \ {0} /\ iv_history \in Seq(Nat \ {0})
    <3>1. Ivs \in SUBSET (Nat \ {0})
      BY ViewAssumption
    <3>2. iv_history \in Seq(Ivs) /\ current_iv \in Ivs
      BY DEF ViewTypeOK
    <3>3. Len(iv_history) \in Nat /\ iv_history \in [1..Len(iv_history) -> Nat \ {0}]
      BY <3>1, <3>2, LenProperties
    <3> QED
      BY <3>1, <3>2, <3>3, SeqDef
  <2>2. ASSUME NEW s \in Chain, NEW spot \in Chain
        PROVE  AtMost(Surface(s, spot), current) <=> s = spot
    <3>1. /\ Strikes[s] \in Nat \ {0} /\ Strikes[spot] \in Nat \ {0}
          /\ Strikes[s] = Strikes[spot] <=> s = spot
          /\ SkewFactor \in Rational /\ SkewFactor.num > 0
      BY ViewAssumption DEF Chain, Rational
    <3> QED
      BY <2>1, <3>1, SurfaceReads
  <2>3. ASSUME iv_history # <<>>
        PROVE  /\ Between(Zero, rank, Hundred) /\ Between(Zero, percentile, Hundred)
               /\ percentile = Hundred <=> Below(Greatest(history), current)
               /\ percentile = Zero <=> AtMost(current, Least(history))
               /\ Least(history) = Greatest(history) => rank = Whole(50)
               /\ Least(history) # Greatest(history) =>
                      /\ rank = Hundred <=> AtMost(Greatest(history), current)
                      /\ rank = Zero <=> percentile = Zero
    <3>1. PICK lo, hi \in Nat \ {0} :
               /\ Least(history) = Whole(lo) /\ Greatest(history) = Whole(hi)
               /\ \A i \in 1..Len(iv_history) : lo <= iv_history[i] /\ iv_history[i] <= hi
               /\ \E i \in 1..Len(iv_history) : iv_history[i] = lo
               /\ \E i \in 1..Len(iv_history) : iv_history[i] = hi
      BY <2>1, <2>3, HistoryExtremes
    <3>2. history # <<>> /\ lo <= hi
      <4>1. Len(history) = Len(iv_history) /\ Len(iv_history) # 0
        BY <2>1, <2>3, HistoryReads, EmptySeq
      <4> HIDE DEF history
      <4> QED
        BY <3>1, <4>1, EmptySeq
    <3>3. /\ Below(Greatest(history), current) <=> hi < current_iv
          /\ AtMost(current, Least(history)) <=> current_iv <= lo
          /\ AtMost(Greatest(history), current) <=> hi <= current_iv
          /\ Least(history) = Greatest(history) <=> lo = hi
      BY <2>1, <3>1, WholeOrder
    <3>4. /\ Between(Zero, percentile, Hundred)
          /\ percentile = Hundred <=> \A i \in 1..Len(iv_history) : iv_history[i] < current_iv
          /\ percentile = Zero <=> \A i \in 1..Len(iv_history) : current_iv <= iv_history[i]
      BY <2>1, <2>3, PercentileReads
    <3>5. /\ Between(Zero, rank, Hundred)
          /\ lo = hi => rank = Whole(50)
          /\ lo # hi => /\ rank = Hundred <=> hi <= current_iv
                        /\ rank = Zero <=> current_iv <= lo
      <4> HIDE DEF history
      <4> QED
        BY <2>1, <3>1, <3>2, RankReads
    <3> HIDE DEF rank, percentile, history, current
    <3>6. \A i \in 1..Len(iv_history) : iv_history[i] \in Nat
      BY <2>1, ElementOfSeq
    <3>7. /\ (\A i \in 1..Len(iv_history) : iv_history[i] < current_iv) <=> hi < current_iv
          /\ (\A i \in 1..Len(iv_history) : current_iv <= iv_history[i]) <=> current_iv <= lo
      BY <2>1, <3>1, <3>6
    <3> QED
      BY <3>3, <3>4, <3>5, <3>7
  <2> QED
    BY <2>2, <2>3 DEF IvReadingsAgree
<1> QED
  BY <1>1, ViewTypeCorrect, PTL

-----------------------------------------------------------------------------
(* The value of a fraction: f is worth n / d.                              *)

Worth(f, n, d) == f \in Rational /\ f.num * d = n * f.den

(* What a fraction is made of is its value.                                *)
LEMMA WorthFraction ==
    ASSUME NEW n \in Int, NEW d \in Int, d > 0
    PROVE  Worth(Fraction(n, d), n, d)
<1> DEFINE f == Fraction(n, d)
<1>1. PICK g \in Nat \ {0} : n = f.num * g /\ d = f.den * g
  BY FractionValue
<1>2. f \in Rational /\ f.num \in Int /\ f.den \in Int
  BY FractionValue DEF Rational
<1> HIDE DEF f
<1>3. f.num * (f.den * g) = (f.num * g) * f.den
  BY <1>2
<1> QED
  BY <1>1, <1>2, <1>3 DEF Worth, f

(* A fraction is worth its own two numbers.                                *)
LEMMA WorthSelf ==
    ASSUME NEW f \in Rational
    PROVE  Worth(f, f.num, f.den) /\ f.num \in Int /\ f.den \in Int /\ f.den > 0
BY DEF Worth, Rational

(* A whole number is worth itself over one.                                *)
LEMMA WorthWhole ==
    ASSUME NEW n \in Int
    PROVE  Worth(Whole(n), n, 1)
BY WholeRational, WholeOrder DEF Worth

(* Values of sums, differences, products and quotients.                    *)
LEMMA WorthPlus ==
    ASSUME NEW p, NEW q, NEW a \in Int, NEW b \in Int, NEW c \in Int, NEW d \in Int,
           Worth(p, a, b), Worth(q, c, d)
    PROVE  Worth(Plus(p, q), a * d + c * b, b * d)
<1> DEFINE f == Plus(p, q)
           n == p.num * q.den + q.num * p.den
           e == p.den * q.den
           fn == f.num
           fd == f.den
           pn == p.num
           pd == p.den
           qn == q.num
           qd == q.den
<1>1. /\ pn \in Int /\ pd \in Int /\ pd > 0 /\ qn \in Int /\ qd \in Int /\ qd > 0
      /\ pn * b = a * pd /\ qn * d = c * qd
  BY DEF Worth, Rational
<1>2. n \in Int /\ e \in Int /\ e > 0
  BY <1>1
<1>3. f = Fraction(n, e)
  BY DEF Plus
<1>4. f \in Rational /\ fn * e = n * fd
  <2> HIDE DEF f, n, e
  <2> QED
    BY <1>2, <1>3, WorthFraction DEF Worth
<1>5. /\ fn \in Int /\ fd \in Int /\ fn * (pd * qd) = (pn * qd + qn * pd) * fd
      /\ pn \in Int /\ pd \in Int /\ pd > 0 /\ qn \in Int /\ qd \in Int /\ qd > 0
      /\ pn * b = a * pd /\ qn * d = c * qd
  BY <1>1, <1>4 DEF Rational
<1> HIDE DEF f, fn, fd, pn, pd, qn, qd
<1>6. (pn * qd + qn * pd) * (b * d) = (a * d + c * b) * (pd * qd)
  <2>1. (pn * qd + qn * pd) * (b * d) = (pn * b) * (qd * d) + (qn * d) * (pd * b)
    BY <1>5
  <2>2. (a * pd) * (qd * d) + (c * qd) * (pd * b) = (a * d + c * b) * (pd * qd)
    BY <1>5
  <2> QED
    BY <1>5, <2>1, <2>2
<1>7. (fn * (b * d)) * (pd * qd) = ((a * d + c * b) * fd) * (pd * qd)
  <2>1. (fn * (b * d)) * (pd * qd) = (fn * (pd * qd)) * (b * d)
    BY <1>5
  <2>2. ((pn * qd + qn * pd) * fd) * (b * d) = ((pn * qd + qn * pd) * (b * d)) * fd
    BY <1>5
  <2>3. ((a * d + c * b) * (pd * qd)) * fd = ((a * d + c * b) * fd) * (pd * qd)
    BY <1>5
  <2> QED
    BY <1>5, <1>6, <2>1, <2>2, <2>3
<1>8. fn * (b * d) = (a * d + c * b) * fd
  <2>1. \A x, y, z \in Int : z > 0 /\ x * z = y * z => x = y
    OBVIOUS
  <2>2. (pd * qd) > 0 /\ (pd * qd) \in Int /\ fn * (b * d) \in Int /\ (a * d + c * b) * fd \in Int
    BY <1>1, <1>2, <1>5
  <2> QED
    BY <1>7, <2>1, <2>2, Zenon
<1> QED
  BY <1>4, <1>8 DEF Worth, f, fn, fd

(* A difference is worth the difference.                                   *)
LEMMA WorthMinus ==
    ASSUME NEW p, NEW q, NEW a \in Int, NEW b \in Int, NEW c \in Int, NEW d \in Int,
           Worth(p, a, b), Worth(q, c, d)
    PROVE  Worth(Minus(p, q), a * d - c * b, b * d)
<1> DEFINE f == Minus(p, q)
           n == p.num * q.den - q.num * p.den
           e == p.den * q.den
           fn == f.num
           fd == f.den
           pn == p.num
           pd == p.den
           qn == q.num
           qd == q.den
<1>1. /\ pn \in Int /\ pd \in Int /\ pd > 0 /\ qn \in Int /\ qd \in Int /\ qd > 0
      /\ pn * b = a * pd /\ qn * d = c * qd
  BY DEF Worth, Rational
<1>2. n \in Int /\ e \in Int /\ e > 0
  BY <1>1
<1>3. f = Fraction(n, e)
  BY DEF Minus
<1>4. f \in Rational /\ fn * e = n * fd
  <2> HIDE DEF f, n, e
  <2> QED
    BY <1>2, <1>3, WorthFraction DEF Worth
<1>5. /\ fn \in Int /\ fd \in Int /\ fn * (pd * qd) = (pn * qd - qn * pd) * fd
      /\ pn \in Int /\ pd \in Int /\ pd > 0 /\ qn \in Int /\ qd \in Int /\ qd > 0
      /\ pn * b = a * pd /\ qn * d = c * qd
  BY <1>1, <1>4 DEF Rational
<1> HIDE DEF f, fn, fd, pn, pd, qn, qd
<1>6. (pn * qd - qn * pd) * (b * d) = (a * d - c * b) * (pd * qd)
  <2>1. (pn * qd - qn * pd) * (b * d) = (pn * b) * (qd * d) - (qn * d) * (pd * b)
    BY <1>5
  <2>2. (a * pd) * (qd * d) - (c * qd) * (pd * b) = (a * d - c * b) * (pd * qd)
    BY <1>5
  <2> QED
    BY <1>5, <2>1, <2>2
<1>7. (fn * (b * d)) * (pd * qd) = ((a * d - c * b) * fd) * (pd * qd)
  <2>1. (fn * (b * d)) * (pd * qd) = (fn * (pd * qd)) * (b * d)
    BY <1>5
  <2>2. ((pn * qd - qn * pd) * fd) * (b * d) = ((pn * qd - qn * pd) * (b * d)) * fd
    BY <1>5
  <2>3. ((a * d - c * b) * (pd * qd)) * fd = ((a * d - c * b) * fd) * (pd * qd)
    BY <1>5
  <2> QED
    BY <1>5, <1>6, <2>1, <2>2, <2>3
<1>8. fn * (b * d) = (a * d - c * b) * fd
  <2>1. \A x, y, z \in Int : z > 0 /\ x * z = y * z => x = y
    OBVIOUS
  <2>2. (pd * qd) > 0 /\ (pd * qd) \in Int /\ fn * (b * d) \in Int /\ (a * d - c * b) * fd \in Int
    BY <1>1, <1>2, <1>5
  <2> QED
    BY <1>7, <2>1, <2>2, Zenon
<1> QED
  BY <1>4, <1>8 DEF Worth, f, fn, fd

(* A product is worth the product.                                         *)
LEMMA WorthTimes ==
    ASSUME NEW p, NEW q, NEW a \in Int, NEW b \in Int, NEW c \in Int, NEW d \in Int,
           Worth(p, a, b), Worth(q, c, d)
    PROVE  Worth(Times(p, q), a * c, b * d)
<1> DEFINE f == Times(p, q)
           n == p.num * q.num
           e == p.den * q.den
           fn == f.num
           fd == f.den
           pn == p.num
           pd == p.den
           qn == q.num
           qd == q.den
<1>1. /\ pn \in Int /\ pd \in Int /\ pd > 0 /\ qn \in Int /\ qd \in Int /\ qd > 0
      /\ pn * b = a * pd /\ qn * d = c * qd
  BY DEF Worth, Rational
<1>2. n \in Int /\ e \in Int /\ e > 0
  BY <1>1
<1>3. f = Fraction(n, e)
  BY DEF Times
<1>4. f \in Rational /\ fn * e = n * fd
  <2> HIDE DEF f, n, e
  <2> QED
    BY <1>2, <1>3, WorthFraction DEF Worth
<1>5. /\ fn \in Int /\ fd \in Int /\ fn * (pd * qd) = (pn * qn) * fd
      /\ pn \in Int /\ pd \in Int /\ pd > 0 /\ qn \in Int /\ qd \in Int /\ qd > 0
      /\ pn * b = a * pd /\ qn * d = c * qd
  BY <1>1, <1>4 DEF Rational
<1> HIDE DEF f, fn, fd, pn, pd, qn, qd
<1>6. (pn * qn) * (b * d) = (a * c) * (pd * qd)
  <2>1. (pn * qn) * (b * d) = (pn * b) * (qn * d)
    BY <1>5
  <2>2. (a * pd) * (c * qd) = (a * c) * (pd * qd)
    BY <1>5
  <2> QED
    BY <1>5, <2>1, <2>2
<1>7. (fn * (b * d)) * (pd * qd) = ((a * c) * fd) * (pd * qd)
  <2>1. (fn * (b * d)) * (pd * qd) = (fn * (pd * qd)) * (b * d)
    BY <1>5
  <2>2. ((pn * qn) * fd) * (b * d) = ((pn * qn) * (b * d)) * fd
    BY <1>5
  <2>3. ((a * c) * (pd * qd)) * fd = ((a * c) * fd) * (pd * qd)
    BY <1>5
  <2> QED
    BY <1>5, <1>6, <2>1, <2>2, <2>3
<1>8. fn * (b * d) = (a * c) * fd
  <2>1. \A x, y, z \in Int : z > 0 /\ x * z = y * z => x = y
    OBVIOUS
  <2>2. (pd * qd) > 0 /\ (pd * qd) \in Int /\ fn * (b * d) \in Int /\ (a * c) * fd \in Int
    BY <1>1, <1>2, <1>5
  <2> QED
    BY <1>7, <2>1, <2>2, Zenon
<1> QED
  BY <1>4, <1>8 DEF Worth, f, fn, fd

(* A quotient by more than zero is worth the quotient.                     *)
LEMMA WorthOver ==
    ASSUME NEW p, NEW q, NEW a \in Int, NEW b \in Int, NEW c \in Int, NEW d \in Int,
           Worth(p, a, b), Worth(q, c, d), q.num > 0
    PROVE  Worth(Over(p, q), a * d, b * c)
<1> DEFINE f == Over(p, q)
           n == p.num * q.den
           e == p.den * q.num
           fn == f.num
           fd == f.den
           pn == p.num
           pd == p.den
           qn == q.num
           qd == q.den
<1>1. /\ pn \in Int /\ pd \in Int /\ pd > 0 /\ qn \in Int /\ qd \in Int /\ qd > 0
      /\ pn * b = a * pd /\ qn * d = c * qd /\ qn > 0
  BY DEF Worth, Rational
<1>2. n \in Int /\ e \in Int /\ e > 0
  BY <1>1
<1>3. f = Fraction(n, e)
  BY DEF Over
<1>4. f \in Rational /\ fn * e = n * fd
  <2> HIDE DEF f, n, e
  <2> QED
    BY <1>2, <1>3, WorthFraction DEF Worth
<1>5. /\ fn \in Int /\ fd \in Int /\ fn * (pd * qn) = (pn * qd) * fd
      /\ pn \in Int /\ pd \in Int /\ pd > 0 /\ qn \in Int /\ qd \in Int /\ qd > 0
      /\ pn * b = a * pd /\ qn * d = c * qd
  BY <1>1, <1>4 DEF Rational
<1> HIDE DEF f, fn, fd, pn, pd, qn, qd
<1>6. (pn * qd) * (b * c) = (a * d) * (pd * qn)
  <2>1. (pn * qd) * (b * c) = (pn * b) * (c * qd)
    BY <1>5
  <2>2. (a * pd) * (qn * d) = (a * d) * (pd * qn)
    BY <1>5
  <2> QED
    BY <1>5, <2>1, <2>2
<1>7. (fn * (b * c)) * (pd * qn) = ((a * d) * fd) * (pd * qn)
  <2>1. (fn * (b * c)) * (pd * qn) = (fn * (pd * qn)) * (b * c)
    BY <1>5
  <2>2. ((pn * qd) * fd) * (b * c) = ((pn * qd) * (b * c)) * fd
    BY <1>5
  <2>3. ((a * d) * (pd * qn)) * fd = ((a * d) * fd) * (pd * qn)
    BY <1>5
  <2> QED
    BY <1>5, <1>6, <2>1, <2>2, <2>3
<1>8. fn * (b * c) = (a * d) * fd
  <2>1. \A x, y, z \in Int : z > 0 /\ x * z = y * z => x = y
    OBVIOUS
  <2>2. (pd * qn) > 0 /\ (pd * qn) \in Int /\ fn * (b * c) \in Int /\ (a * d) * fd \in Int
    BY <1>1, <1>2, <1>5
  <2> QED
    BY <1>7, <2>1, <2>2, Zenon
<1> QED
  BY <1>4, <1>8 DEF Worth, f, fn, fd

(* A value may be reduced.                                                 *)
LEMMA WorthReduced ==
    ASSUME NEW f, NEW n \in Int, NEW d \in Int, NEW k \in Int, k > 0, Worth(f, n * k, d * k)
    PROVE  Worth(f, n, d)
<1>1. f.num \in Int /\ f.den \in Int /\ f.num * (d * k) = (n * k) * f.den
  BY DEF Worth, Rational
<1>2. (f.num * d) * k = (n * f.den) * k
  BY <1>1
<1>3. \A x, y \in Int : x * k = y * k => x = y
  OBVIOUS
<1>4. f.num * d \in Int /\ n * f.den \in Int
  BY <1>1
<1>5. f.num * d = n * f.den
  BY <1>2, <1>3, <1>4, Zenon
<1> QED
  BY <1>5 DEF Worth

(* The sign and the order are those of the values.                         *)
LEMMA WorthSign ==
    ASSUME NEW f, NEW n \in Int, NEW d \in Int, d > 0, Worth(f, n, d)
    PROVE  (f.num > 0 <=> n > 0) /\ (f.num < 0 <=> n < 0) /\ (f.num = 0 <=> n = 0)
<1>1. f.num \in Int /\ f.den \in Int /\ f.den > 0 /\ f.num * d = n * f.den
  BY DEF Worth, Rational
<1>2. \A x, y \in Int : y > 0 => /\ x * y > 0 <=> x > 0
                                 /\ x * y < 0 <=> x < 0
                                 /\ x * y = 0 <=> x = 0
  OBVIOUS
<1>3. /\ f.num * d > 0 <=> f.num > 0
      /\ f.num * d < 0 <=> f.num < 0
      /\ f.num * d = 0 <=> f.num = 0
  BY <1>1, <1>2
<1>4. /\ n * f.den > 0 <=> n > 0
      /\ n * f.den < 0 <=> n < 0
      /\ n * f.den = 0 <=> n = 0
  BY <1>1, <1>2
<1> QED
  BY <1>1, <1>3, <1>4

(* Fractions compare as what they are worth.                               *)
LEMMA WorthOrder ==
    ASSUME NEW p, NEW q, NEW a \in Int, NEW b \in Int, NEW c \in Int, NEW d \in Int,
           b > 0, d > 0, Worth(p, a, b), Worth(q, c, d)
    PROVE  AtMost(p, q) <=> a * d <= c * b
<1> DEFINE pn == p.num
           pd == p.den
           qn == q.num
           qd == q.den
<1>1. /\ pn \in Int /\ pd \in Int /\ pd > 0 /\ qn \in Int /\ qd \in Int /\ qd > 0
      /\ pn * b = a * pd /\ qn * d = c * qd
  BY DEF Worth, Rational
<1>2. AtMost(p, q) <=> pn * qd <= qn * pd
  BY DEF AtMost
<1> HIDE DEF pn, pd, qn, qd
<1>3. (pn * qd) * (b * d) = (a * d) * (pd * qd)
  <2>1. (pn * qd) * (b * d) = (pn * b) * (qd * d)
    BY <1>1
  <2>2. (a * pd) * (qd * d) = (a * d) * (pd * qd)
    BY <1>1
  <2> QED
    BY <1>1, <2>1, <2>2
<1>4. (qn * pd) * (b * d) = (c * b) * (pd * qd)
  <2>1. (qn * pd) * (b * d) = (qn * d) * (pd * b)
    BY <1>1
  <2>2. (c * qd) * (pd * b) = (c * b) * (pd * qd)
    BY <1>1
  <2> QED
    BY <1>1, <2>1, <2>2
<1>5. b * d > 0 /\ b * d \in Int /\ pd * qd > 0 /\ pd * qd \in Int
  BY <1>1
<1>6. \A x, y, z \in Int : z > 0 => (x * z <= y * z <=> x <= y)
  OBVIOUS
<1>7. pn * qd \in Int /\ qn * pd \in Int /\ a * d \in Int /\ c * b \in Int
  BY <1>1
<1>8. pn * qd <= qn * pd <=> (pn * qd) * (b * d) <= (qn * pd) * (b * d)
  BY <1>5, <1>6, <1>7
<1>9. a * d <= c * b <=> (a * d) * (pd * qd) <= (c * b) * (pd * qd)
  BY <1>5, <1>6, <1>7
<1> QED
  BY <1>2, <1>3, <1>4, <1>8, <1>9

(* A fraction that was reduced and is worth a whole number is that number. *)
LEMMA WorthIsWhole ==
    ASSUME NEW n \in Int, NEW d \in Int, d > 0, NEW k \in Int, Worth(Fraction(n, d), k, 1)
    PROVE  Fraction(n, d) = Whole(k)
<1> DEFINE f == Fraction(n, d)
<1>1. PICK g \in Nat \ {0} : n = f.num * g /\ d = f.den * g
  BY FractionValue
<1>2. f.num \in Int /\ f.den \in Int /\ f.num * 1 = k * f.den
  BY DEF Worth, Rational
<1> HIDE DEF f
<1>3. n = k * d
  BY <1>1, <1>2
<1> QED
  BY <1>3, FractionWhole

-----------------------------------------------------------------------------
(* Smoothing.  A reading lies between the one before it and the value.     *)

(* What a step of smoothing is worth.                                      *)
LEMMA StepWorth ==
    ASSUME NEW v \in Rational, NEW prev \in Rational, NEW part, NEW a \in Int, NEW b \in Int,
           Worth(part, a, b)
    PROVE  Worth(Plus(Times(Minus(v, prev), part), prev),
                 (v.num * prev.den) * a + (prev.num * v.den) * (b - a), (v.den * prev.den) * b)
<1> DEFINE vn == v.num
           vd == v.den
           pn == prev.num
           pd == prev.den
           m == Minus(v, prev)
           t == Times(m, part)
           f == Plus(t, prev)
<1>1. /\ Worth(v, vn, vd) /\ vn \in Int /\ vd \in Int /\ vd > 0
      /\ Worth(prev, pn, pd) /\ pn \in Int /\ pd \in Int /\ pd > 0
  BY WorthSelf
<1> HIDE DEF vn, vd, pn, pd
<1>2. Worth(m, vn * pd - pn * vd, vd * pd)
  BY <1>1, WorthMinus
<1>3. vn * pd - pn * vd \in Int /\ vd * pd \in Int
  BY <1>1
<1> DEFINE n == vn * pd - pn * vd
           d == vd * pd
<1>4. n \in Int /\ d \in Int /\ Worth(m, n, d)
  BY <1>2, <1>3
<1> HIDE DEF n, d, m
<1>5. Worth(t, n * a, d * b)
  BY <1>4, WorthTimes
<1> DEFINE x == n * a
           y == d * b
<1>6. x \in Int /\ y \in Int /\ Worth(t, x, y)
  BY <1>4, <1>5
<1> HIDE DEF x, y, t
<1>7. Worth(f, x * pd + pn * y, y * pd)
  BY <1>1, <1>6, WorthPlus
<1> HIDE DEF f
<1> DEFINE z == (vn * pd) * a + (pn * vd) * (b - a)
<1>8. x * pd + pn * y = z * pd
  <2>1. x * pd + pn * y = ((vn * pd - pn * vd) * a) * pd + pn * ((vd * pd) * b)
    BY DEF x, y, n, d
  <2>2. ((vn * pd - pn * vd) * a) * pd = ((vn * pd) * a) * pd - ((pn * vd) * a) * pd
    BY <1>1
  <2>3. pn * ((vd * pd) * b) = ((pn * vd) * b) * pd
    BY <1>1
  <2>4. z * pd = ((vn * pd) * a) * pd + ((pn * vd) * b) * pd - ((pn * vd) * a) * pd
    BY <1>1
  <2> QED
    BY <1>1, <2>1, <2>2, <2>3, <2>4
<1>9. z \in Int
  BY <1>1
<1> HIDE DEF z
<1>10. Worth(f, z * pd, y * pd)
  BY <1>7, <1>8
<1>11. Worth(f, z, y)
  BY <1>1, <1>6, <1>9, <1>10, WorthReduced
<1> QED
  BY <1>11 DEF f, t, m, z, y, d, vn, vd, pn, pd

(* A fraction that is not negative, and is Zero if it is zero.             *)
Gain(f) == f \in Rational /\ f.num >= 0 /\ (f.num = 0 => f = Zero)

(* What is computed from a value is Zero if it is worth zero.              *)
LEMMA WorthGain ==
    ASSUME NEW p \in Rational, NEW q \in Rational
    PROVE  /\ Plus(p, q).num >= 0 => Gain(Plus(p, q))
           /\ q.num > 0 => (Over(p, q).num >= 0 => Gain(Over(p, q)))
<1>1. /\ p.num \in Int /\ p.den \in Int /\ p.den > 0
      /\ q.num \in Int /\ q.den \in Int /\ q.den > 0
  BY DEF Rational
<1>2. ASSUME NEW n \in Int, NEW d \in Int, d > 0
      PROVE  Fraction(n, d) \in Rational /\ (Fraction(n, d).num = 0 => Fraction(n, d) = Zero)
  <2> DEFINE f == Fraction(n, d)
  <2>1. f \in Rational /\ (f.num > 0 <=> n > 0) /\ (f.num < 0 <=> n < 0) /\ (f = Zero <=> n = 0)
    BY <1>2, FractionSign, FractionValue
  <2>2. f.num \in Int
    BY <2>1 DEF Rational
  <2> HIDE DEF f
  <2>3. f.num = 0 => f = Zero
    BY <2>1, <2>2
  <2> QED
    BY <2>1, <2>3 DEF f
<1>3. p.num * q.den + q.num * p.den \in Int /\ p.den * q.den \in Int /\ p.den * q.den > 0
  BY <1>1
<1>4. q.num > 0 => p.num * q.den \in Int /\ p.den * q.num \in Int /\ p.den * q.num > 0
  BY <1>1
<1> QED
  BY <1>2, <1>3, <1>4 DEF Plus, Over, Gain

(* The total of what is not negative is zero when all of it is.            *)
LEMMA TotalGain ==
    ASSUME NEW s, Len(s) \in Nat, \A i \in 1..Len(s) : Gain(s[i])
    PROVE  Gain(Total(s)) /\ (Total(s).num = 0 <=> \A i \in 1..Len(s) : s[i].num = 0)
<1>1. PICK g : /\ g[0] = Zero
               /\ \A i \in 1..Len(s) : g[i] = Plus(g[i - 1], s[i])
               /\ Total(s) = g[Len(s)]
  BY TotalUnfolds
<1> DEFINE Good(n) == Gain(g[n]) /\ (g[n].num = 0 <=> \A i \in 1..n : s[i].num = 0)
           Bad == {n \in 0..Len(s) : ~Good(n)}
<1>2. ASSUME Bad # {}
      PROVE  FALSE
  <2>1. PICK n \in Bad : \A k \in Bad : n <= k
    <3> HIDE DEF Good
    <3>1. Bad \in SUBSET Nat
      OBVIOUS
    <3> HIDE DEF Bad
    <3> QED
      BY <1>2, <3>1, LeastNumber
  <2>2. CASE n = 0
    <3>1. Gain(Zero) /\ Zero.num = 0
      BY WholeRational, WholeOrder DEF Gain, Zero
    <3>2. Good(0)
      BY <1>1, <3>1
    <3> HIDE DEF Good
    <3> QED
      BY <2>2, <3>2
  <2>3. CASE n # 0
    <3>1. n - 1 \in 0..Len(s) /\ ~(n <= n - 1) /\ n \in 1..Len(s) /\ n - 1 \in Nat
      BY <2>3
    <3>2. Good(n - 1)
      <4> HIDE DEF Good
      <4> QED
        BY <2>1, <3>1
    <3> DEFINE p == g[n - 1]
               q == s[n]
    <3>3. g[n] = Plus(p, q)
      BY <1>1, <3>1
    <3>4. Gain(p) /\ Gain(q) /\ (p.num = 0 <=> \A i \in 1..n - 1 : s[i].num = 0)
      BY <3>1, <3>2
    <3>5. (\A i \in 1..n : s[i].num = 0) <=> (p.num = 0 /\ q.num = 0)
      <4>1. \A i \in 1..n : i = n \/ i \in 1..n - 1
        BY <3>1
      <4>2. \A i \in 1..n - 1 : i \in 1..n
        BY <3>1
      <4>3. n \in 1..n
        BY <3>1
      <4> QED
        BY <3>4, <4>1, <4>2, <4>3
    <3> HIDE DEF p, q, Good
    <3>6. /\ p \in Rational /\ q \in Rational /\ p.num \in Int /\ p.den \in Int /\ p.den > 0
          /\ q.num \in Int /\ q.den \in Int /\ q.den > 0 /\ p.num >= 0 /\ q.num >= 0
          /\ Worth(p, p.num, p.den) /\ Worth(q, q.num, q.den)
      BY <3>4, WorthSelf DEF Gain
    <3>7. Worth(Plus(p, q), p.num * q.den + q.num * p.den, p.den * q.den)
      BY <3>6, WorthPlus
    <3> DEFINE x == p.num * q.den
               y == q.num * p.den
               z == p.den * q.den
    <3>8. /\ x \in Int /\ x >= 0 /\ (x = 0 <=> p.num = 0)
          /\ y \in Int /\ y >= 0 /\ (y = 0 <=> q.num = 0)
          /\ z \in Int /\ z > 0 /\ Worth(Plus(p, q), x + y, z)
      <4>1. \A i, j \in Int : i >= 0 /\ j > 0 =>
                i * j \in Int /\ i * j >= 0 /\ (i * j = 0 <=> i = 0)
        OBVIOUS
      <4>2. \A i, j \in Int : i > 0 /\ j > 0 => i * j \in Int /\ i * j > 0
        OBVIOUS
      <4> QED
        BY <3>6, <3>7, <4>1, <4>2
    <3> HIDE DEF x, y, z
    <3>9. /\ Plus(p, q).num < 0 <=> x + y < 0
          /\ Plus(p, q).num = 0 <=> x + y = 0
          /\ Plus(p, q).num \in Int
      <4>1. x + y \in Int
        BY <3>8
      <4> QED
        BY <3>8, <4>1, WorthSign DEF Worth, Rational
    <3>10. Plus(p, q).num >= 0 /\ (Plus(p, q).num = 0 <=> p.num = 0 /\ q.num = 0)
      BY <3>8, <3>9
    <3>11. Gain(Plus(p, q))
      BY <3>6, <3>10, WorthGain
    <3>12. Good(n)
      BY <3>3, <3>5, <3>10, <3>11 DEF Good
    <3> QED
      BY <3>12
  <2> QED
    BY <2>2, <2>3
<1>3. Good(Len(s))
  <2> HIDE DEF Good
  <2> QED
    BY <1>2
<1> QED
  BY <1>1, <1>3

(* A mean of gains is one, and zero only if all of them are.               *)
LEMMA MeanGain ==
    ASSUME NEW s, Len(s) \in Nat \ {0}, \A i \in 1..Len(s) : Gain(s[i])
    PROVE  Gain(Mean(s)) /\ (Mean(s).num = 0 <=> \A i \in 1..Len(s) : s[i].num = 0)
<1> DEFINE t == Total(s)
           n == Len(s)
           m == Mean(s)
<1>1. Gain(t) /\ (t.num = 0 <=> \A i \in 1..n : s[i].num = 0)
  BY TotalGain
<1>2. n \in Int /\ n > 0 /\ Worth(Whole(n), n, 1) /\ Whole(n).num = n /\ Whole(n) \in Rational
  BY WorthWhole, WholeOrder, WholeRational
<1>3. m = Over(t, Whole(n))
  BY DEF Mean
<1> HIDE DEF t, n, m
<1>4. t \in Rational /\ t.num \in Int /\ t.den \in Int /\ t.den > 0 /\ Worth(t, t.num, t.den)
  BY <1>1, WorthSelf DEF Gain
<1>5. Worth(m, t.num * 1, t.den * n)
  BY <1>2, <1>3, <1>4, WorthOver
<1>6. t.num * 1 = t.num /\ t.den * n \in Int /\ t.den * n > 0
  BY <1>2, <1>4
<1>7. (m.num < 0 <=> t.num < 0) /\ (m.num = 0 <=> t.num = 0) /\ m.num \in Int
  BY <1>4, <1>5, <1>6, WorthSign DEF Worth, Rational
<1>8. Gain(m)
  BY <1>1, <1>2, <1>3, <1>4, <1>7, WorthGain DEF Gain
<1> QED
  BY <1>1, <1>7, <1>8 DEF t, n, m

(* A list of gains smoothed reads zero as long as there was none.          *)
LEMMA SmoothedGain ==
    ASSUME NEW s, NEW n, Listed(s, n), \A i \in 1..n : Gain(s[i]),
           NEW period \in Nat, period > 1
    PROVE  \A i \in 1..n : i >= period =>
               LET r == Smoothed(s, period, Wilder(period))
               IN  Gain(r[i]) /\ (r[i].num = 0 <=> \A j \in 1..i : s[j].num = 0)
<1> DEFINE r == Smoothed(s, period, Wilder(period))
           Good(i) == Gain(r[i]) /\ (r[i].num = 0 <=> \A j \in 1..i : s[j].num = 0)
           Bad == {i \in 1..n : i >= period /\ ~Good(i)}
<1>1. n \in Nat /\ Len(s) = n /\ s \in Seq({s[i] : i \in 1..n})
  BY ListIsSeq DEF Listed
<1>2. \A i \in 1..n : r[i] = IF i < period THEN None
                             ELSE IF i = period THEN Mean(SubSeq(s, 1, period))
                             ELSE Plus(Times(Minus(s[i], r[i - 1]), Wilder(period)), r[i - 1])
  <2> DEFINE part == Wilder(period)
  <2> HIDE DEF part
  <2>1. Len(s) \in Nat /\ period \in Nat \ {0}
    BY <1>1
  <2>2. \A i \in 1..Len(s) :
            Smoothed(s, period, part)[i] =
                IF i < period THEN None
                ELSE IF i = period THEN Mean(SubSeq(s, 1, period))
                ELSE Plus(Times(Minus(s[i], Smoothed(s, period, part)[i - 1]), part),
                          Smoothed(s, period, part)[i - 1])
    BY <2>1, SmoothedReads
  <2> QED
    BY <1>1, <2>2 DEF part
<1> HIDE DEF r
<1>3. ASSUME Bad # {}
      PROVE  FALSE
  <2>1. PICK k \in Bad : \A j \in Bad : k <= j
    <3> HIDE DEF Good
    <3>1. Bad \in SUBSET Nat
      BY <1>1
    <3> HIDE DEF Bad
    <3> QED
      BY <1>3, <3>1, LeastNumber
  <2>2. k \in 1..n /\ k >= period /\ k \in Nat
    BY <1>1
  <2>3. CASE k = period
    <3> DEFINE first == SubSeq(s, 1, period)
    <3>1. Len(first) = period /\ \A i \in 1..period : first[i] = s[i] /\ i \in 1..n
      BY <1>1, <2>2, <2>3
    <3>2. r[k] = Mean(first)
      BY <1>2, <2>2, <2>3
    <3> HIDE DEF first
    <3>3. Len(first) \in Nat \ {0} /\ \A i \in 1..Len(first) : Gain(first[i])
      BY <3>1
    <3>4. Gain(Mean(first)) /\ (Mean(first).num = 0 <=> \A i \in 1..Len(first) : first[i].num = 0)
      BY <3>3, MeanGain
    <3>5. Good(k)
      BY <2>3, <3>1, <3>2, <3>4
    <3> QED
      BY <3>5
  <2>4. CASE k # period
    <3>1. k - 1 \in 1..n /\ k - 1 >= period /\ ~(k <= k - 1)
      BY <1>1, <2>2, <2>4
    <3>2. Good(k - 1)
      <4> HIDE DEF Good
      <4> QED
        BY <2>1, <3>1
    <3> DEFINE v == s[k]
               p == r[k - 1]
               f == r[k]
    <3>3. f = Plus(Times(Minus(v, p), Wilder(period)), p)
      BY <1>2, <2>2, <2>4
    <3>4. Gain(p) /\ Gain(v) /\ (p.num = 0 <=> \A i \in 1..k - 1 : s[i].num = 0)
      BY <2>2, <3>2
    <3>5. (\A i \in 1..k : s[i].num = 0) <=> (p.num = 0 /\ v.num = 0)
      <4>1. \A i \in 1..k : i = k \/ i \in 1..k - 1
        BY <2>2
      <4>2. \A i \in 1..k - 1 : i \in 1..k
        BY <2>2
      <4>3. k \in 1..k
        BY <2>2
      <4> QED
        BY <3>4, <4>1, <4>2, <4>3
    <3> HIDE DEF v, p, f, Good
    <3>6. /\ p \in Rational /\ v \in Rational /\ p.num \in Int /\ p.den \in Int /\ p.den > 0
          /\ v.num \in Int /\ v.den \in Int /\ v.den > 0 /\ p.num >= 0 /\ v.num >= 0
      BY <3>4, WorthSelf DEF Gain
    <3>7. Worth(Wilder(period), 1, period)
      BY WorthFraction DEF Wilder
    <3>8. Worth(f, (v.num * p.den) * 1 + (p.num * v.den) * (period - 1), (v.den * p.den) * period)
      BY <3>3, <3>6, <3>7, StepWorth
    <3> DEFINE x == (v.num * p.den) * 1
               y == (p.num * v.den) * (period - 1)
               z == (v.den * p.den) * period
    <3>9. /\ x \in Int /\ x >= 0 /\ (x = 0 <=> v.num = 0)
          /\ y \in Int /\ y >= 0 /\ (y = 0 <=> p.num = 0)
          /\ z \in Int /\ z > 0 /\ Worth(f, x + y, z)
      <4>1. \A i, j \in Int : i >= 0 /\ j > 0 =>
                i * j \in Int /\ i * j >= 0 /\ (i * j = 0 <=> i = 0)
        OBVIOUS
      <4>2. \A i, j \in Int : i > 0 /\ j > 0 => i * j \in Int /\ i * j > 0
        OBVIOUS
      <4>3. period - 1 \in Int /\ period - 1 > 0 /\ period \in Int /\ period > 0
        OBVIOUS
      <4> DEFINE w == p.num * v.den
                 u == v.den * p.den
                 t == v.num * p.den
      <4>4. /\ w \in Int /\ w >= 0 /\ (w = 0 <=> p.num = 0) /\ u \in Int /\ u > 0
            /\ t \in Int /\ t >= 0 /\ (t = 0 <=> v.num = 0)
        BY <3>6, <4>1, <4>2
      <4> HIDE DEF w, u, t
      <4>5. /\ w * (period - 1) \in Int /\ w * (period - 1) >= 0
            /\ w * (period - 1) = 0 <=> w = 0
            /\ u * period \in Int /\ u * period > 0 /\ t * 1 = t
        BY <4>1, <4>2, <4>3, <4>4
      <4> QED
        BY <3>8, <4>4, <4>5 DEF w, u, t
    <3> HIDE DEF x, y, z
    <3>10. f \in Rational /\ f.num \in Int /\ (f.num < 0 <=> x + y < 0) /\ (f.num = 0 <=> x + y = 0)
      <4>1. x + y \in Int
        BY <3>9
      <4> QED
        BY <3>9, <4>1, WorthSign DEF Worth, Rational
    <3>11. f.num >= 0 /\ (f.num = 0 <=> p.num = 0 /\ v.num = 0)
      BY <3>9, <3>10
    <3>12. Gain(f)
      <4>1. Times(Minus(v, p), Wilder(period)) \in Rational
        BY <3>6, <3>7, RationalClosed DEF Worth
      <4> QED
        BY <3>3, <3>6, <3>11, <4>1, WorthGain
    <3>13. Good(k)
      BY <3>5, <3>11, <3>12 DEF Good, f
    <3> QED
      BY <3>13
  <2> QED
    BY <2>3, <2>4
<1> QED
  BY <1>3 DEF r

-----------------------------------------------------------------------------
(* Rsi.  What the market rose and what it fell, candle by candle.          *)

Change(cs, i) == cs[i + 1].close - cs[i].close
Rise(x) == IF x <= 0 THEN 0 ELSE x
Rises(cs) == [i \in 1..Between1(Len(cs)) |-> Whole(Rise(Change(cs, i)))]
Falls(cs) == [i \in 1..Between1(Len(cs)) |-> Whole(Rise(-Change(cs, i)))]

(* Rsi smooths the rises and the falls.                                    *)
LEMMA RsiReads ==
    ASSUME NEW cs, NEW n, Listed(cs, n), \A i \in 1..n : cs[i].close \in Int, NEW period
    PROVE  Rsi(cs, period) =
               [i \in 1..n |-> IF i <= period THEN None
                               ELSE RsiReading(Smoothed(Rises(cs), period, Wilder(period))[i - 1],
                                               Smoothed(Falls(cs), period, Wilder(period))[i - 1])]
<1> DEFINE deltas == [i \in 1..Len(cs) - 1 |-> Minus(Closes(cs)[i + 1], Closes(cs)[i])]
           ups == Each(LAMBDA d : Greater(d, Zero), deltas)
           downs == Each(LAMBDA d : Greater(Minus(Zero, d), Zero), deltas)
           m == Between1(n)
<1>1. n \in Nat /\ Len(cs) = n
  BY ListIsSeq DEF Listed
<1>2. m \in Nat /\ 1..n - 1 = 1..m /\ \A i \in 1..m : i \in 1..n /\ i + 1 \in 1..n
  BY <1>1 DEF Between1
<1> HIDE DEF m
<1>3. Rsi(cs, period) =
          [i \in 1..n |-> IF i <= period THEN None
                          ELSE RsiReading(Smoothed(ups, period, Wilder(period))[i - 1],
                                          Smoothed(downs, period, Wilder(period))[i - 1])]
  BY <1>1 DEF Rsi
<1>4. \A i \in 1..m : Change(cs, i) \in Int
  BY <1>2 DEF Change
<1>5. ASSUME NEW i \in 1..m
      PROVE  Minus(Closes(cs)[i + 1], Closes(cs)[i]) = Whole(Change(cs, i))
  <2>1. Closes(cs)[i + 1] = Whole(cs[i + 1].close) /\ Closes(cs)[i] = Whole(cs[i].close)
    BY <1>1, <1>2 DEF Closes, Each
  <2>2. cs[i + 1].close \in Int /\ cs[i].close \in Int
    BY <1>2
  <2> QED
    BY <2>1, <2>2, WholeMinus DEF Change
<1>6. deltas = [i \in 1..m |-> Whole(Change(cs, i))]
  BY <1>1, <1>2, <1>5
<1> HIDE DEF deltas
<1>7. Len(deltas) = m
  <2>1. Listed(deltas, m)
    BY <1>2, <1>6 DEF Listed
  <2> QED
    BY <2>1, ListIsSeq
<1>8. ASSUME NEW x \in Int
      PROVE  /\ Greater(Whole(x), Zero) = Whole(Rise(x))
             /\ Greater(Minus(Zero, Whole(x)), Zero) = Whole(Rise(-x))
  <2>1. ASSUME NEW y \in Int
        PROVE  Greater(Whole(y), Zero) = Whole(Rise(y))
    BY WholeOrder DEF Greater, Rise, Zero
  <2>2. Minus(Zero, Whole(x)) = Whole(-x) /\ -x \in Int
    <3>1. 0 - x = -x
      OBVIOUS
    <3> QED
      BY <3>1, WholeMinus DEF Zero
  <2> QED
    BY <2>1, <2>2
<1>9. ups = Rises(cs)
  <2>1. ups = [i \in 1..m |-> Greater(deltas[i], Zero)]
    BY <1>7 DEF Each
  <2>2. \A i \in 1..m : Greater(deltas[i], Zero) = Whole(Rise(Change(cs, i)))
    BY <1>4, <1>6, <1>8
  <2> QED
    BY <1>1, <2>1, <2>2 DEF Rises, m
<1>10. downs = Falls(cs)
  <2>1. downs = [i \in 1..m |-> Greater(Minus(Zero, deltas[i]), Zero)]
    BY <1>7 DEF Each
  <2>2. \A i \in 1..m : Greater(Minus(Zero, deltas[i]), Zero) = Whole(Rise(-Change(cs, i)))
    BY <1>4, <1>6, <1>8
  <2> QED
    BY <1>1, <2>1, <2>2 DEF Falls, m
<1> HIDE DEF ups, downs
<1> QED
  BY <1>3, <1>9, <1>10

(* Rises and falls are gains; both are zero as long as nothing moved.      *)
LEMMA MovesAreGains ==
    ASSUME NEW cs, NEW n, Listed(cs, n), \A i \in 1..n : cs[i].close \in Int
    PROVE  /\ Listed(Rises(cs), Between1(n)) /\ Listed(Falls(cs), Between1(n))
           /\ \A i \in 1..Between1(n) :
                  /\ Gain(Rises(cs)[i]) /\ Gain(Falls(cs)[i])
                  /\ (Rises(cs)[i].num = 0 /\ Falls(cs)[i].num = 0)
                         <=> cs[i + 1].close = cs[i].close
<1>1. n \in Nat /\ Len(cs) = n
  BY ListIsSeq DEF Listed
<1>2. Between1(n) \in Nat /\ \A i \in 1..Between1(n) : i \in 1..n /\ i + 1 \in 1..n
  BY <1>1 DEF Between1
<1>3. Listed(Rises(cs), Between1(n)) /\ Listed(Falls(cs), Between1(n))
  BY <1>1, <1>2 DEF Listed, Rises, Falls
<1>4. ASSUME NEW i \in 1..Between1(n)
      PROVE  /\ Gain(Rises(cs)[i]) /\ Gain(Falls(cs)[i])
             /\ (Rises(cs)[i].num = 0 /\ Falls(cs)[i].num = 0)
                    <=> cs[i + 1].close = cs[i].close
  <2> DEFINE x == Change(cs, i)
             up == Rise(x)
             down == Rise(-x)
  <2>1. Rises(cs)[i] = Whole(up) /\ Falls(cs)[i] = Whole(down)
    BY <1>1, <1>2 DEF Rises, Falls
  <2>2. cs[i + 1].close \in Int /\ cs[i].close \in Int
    BY <1>2
  <2>3. x \in Int /\ (x = 0 <=> cs[i + 1].close = cs[i].close)
    BY <2>2 DEF Change
  <2> HIDE DEF x
  <2>4. up \in Nat /\ down \in Nat /\ (up = 0 /\ down = 0 <=> x = 0)
    BY <2>3 DEF Rise
  <2> HIDE DEF up, down
  <2>5. \A k \in Nat : Gain(Whole(k)) /\ Whole(k).num = k
    BY WholeRational, WholeOrder DEF Gain, Zero
  <2> QED
    BY <2>1, <2>3, <2>4, <2>5
<1> QED
  BY <1>3, <1>4

(* What a reading of gains and losses is worth, when there were any.       *)
LEMMA RsiReadingWorth ==
    ASSUME NEW gain, Gain(gain), NEW loss, Gain(loss),
           gain.num * loss.den + loss.num * gain.den > 0
    PROVE  Worth(RsiReading(gain, loss), 100 * (gain.num * loss.den),
                 gain.num * loss.den + loss.num * gain.den)
<1> DEFINE a == gain.num
           b == gain.den
           c == loss.num
           d == loss.den
           r == RsiReading(gain, loss)
<1>1. /\ Worth(gain, a, b) /\ a \in Int /\ a >= 0 /\ b \in Int /\ b > 0
      /\ Worth(loss, c, d) /\ c \in Int /\ c >= 0 /\ d \in Int /\ d > 0
      /\ a * d + c * b > 0 /\ (c = 0 <=> loss = Zero)
      /\ gain \in Rational /\ loss \in Rational
  BY WorthSelf DEF Gain, Zero, Whole
<1>2. CASE c = 0
  <2>1. r = Hundred
    BY <1>1, <1>2 DEF RsiReading
  <2>2. Worth(Hundred, 100, 1) /\ Hundred \in Rational /\ Hundred.num = 100 /\ Hundred.den = 1
    BY WorthWhole, WholeOrder, WholeRational DEF Hundred
  <2> HIDE DEF a, b, c, d, r
  <2>3. a * d \in Int /\ c * b = 0
    BY <1>1, <1>2
  <2>4. 100 * (a * d + c * b) = (100 * (a * d)) * 1
    BY <2>3
  <2>5. Worth(r, 100 * (a * d), a * d + c * b)
    BY <2>1, <2>2, <2>4 DEF Worth
  <2> QED
    BY <2>5 DEF a, b, c, d, r
<1>3. CASE c # 0
  <2> DEFINE over == Over(gain, loss)
             one == Plus(Whole(1), over)
             part == Over(Hundred, one)
  <2>1. r = Minus(Hundred, part)
    BY <1>1, <1>3 DEF RsiReading
  <2>2. c > 0 /\ loss.num > 0
    BY <1>1, <1>3
  <2> HIDE DEF a, b, c, d, r
  <2> DEFINE x == a * d
             y == b * c
             z == c * b
  <2>3. x \in Int /\ x >= 0 /\ y \in Int /\ y > 0 /\ z = y
    <3>1. \A i, j \in Int : i >= 0 /\ j > 0 => i * j \in Int /\ i * j >= 0
      OBVIOUS
    <3>2. \A i, j \in Int : i > 0 /\ j > 0 => i * j \in Int /\ i * j > 0 /\ i * j = j * i
      OBVIOUS
    <3> QED
      BY <1>1, <2>2, <3>1, <3>2
  <2>4. Worth(over, x, y)
    BY <1>1, <2>2, WorthOver
  <2>5. Worth(Hundred, 100, 1) /\ Worth(Whole(1), 1, 1)
    BY WorthWhole DEF Hundred
  <2> HIDE DEF x, y, z, over
  <2>6. Worth(one, y + x, y)
    <3>1. Worth(one, 1 * y + x * 1, 1 * y)
      BY <2>3, <2>4, <2>5, WorthPlus
    <3>2. 1 * y + x * 1 = y + x /\ 1 * y = y
      BY <2>3
    <3> QED
      BY <3>1, <3>2
  <2>7. one.num > 0
    <3>1. y + x \in Int /\ y + x > 0
      BY <2>3
    <3> QED
      BY <2>3, <2>6, <3>1, WorthSign
  <2> HIDE DEF one
  <2>8. Worth(part, 100 * y, y + x)
    <3>1. Worth(part, 100 * y, 1 * (y + x))
      <4>1. y + x \in Int
        BY <2>3
      <4> QED
        BY <2>3, <2>5, <2>6, <2>7, <4>1, WorthOver
    <3>2. 1 * (y + x) = y + x
      BY <2>3
    <3> QED
      BY <3>1, <3>2
  <2> HIDE DEF part
  <2>9. Worth(r, 100 * x, x + z)
    <3>1. 100 * y \in Int /\ y + x \in Int
      BY <2>3
    <3>2. Worth(r, 100 * (y + x) - (100 * y) * 1, 1 * (y + x))
      BY <2>1, <2>5, <2>8, <3>1, WorthMinus
    <3>3. 100 * (y + x) - (100 * y) * 1 = 100 * x /\ 1 * (y + x) = x + z
      BY <2>3
    <3> QED
      BY <3>2, <3>3
  <2> QED
    BY <2>9 DEF x, z, a, b, c, d, r
<1> QED
  BY <1>2, <1>3

(* Two parts of a hundred that are all of it.                              *)
LEMMA PartsOfHundred ==
    ASSUME NEW p, NEW q, NEW a \in Int, NEW c \in Int, NEW s \in Int, s > 0, a + c = s,
           Worth(p, 100 * a, s), Worth(q, 100 * c, s)
    PROVE  Plus(p, q) = Hundred
<1> DEFINE n == p.num * q.den + q.num * p.den
           d == p.den * q.den
           x == 100 * a
           y == 100 * c
           k == s * s
<1>1. n \in Int /\ d \in Int /\ d > 0 /\ Plus(p, q) = Fraction(n, d)
  <2>1. p.num \in Int /\ p.den \in Int /\ p.den > 0 /\ q.num \in Int /\ q.den \in Int /\ q.den > 0
    BY DEF Worth, Rational
  <2> QED
    BY <2>1 DEF Plus
<1> HIDE DEF n, d
<1>2. x \in Int /\ y \in Int /\ Worth(p, x, s) /\ Worth(q, y, s)
  OBVIOUS
<1> HIDE DEF x, y
<1>3. Worth(Plus(p, q), x * s + y * s, s * s)
  BY <1>2, WorthPlus
<1>4. x * s + y * s = 100 * k /\ s * s = 1 * k /\ k \in Int /\ k > 0
  <2>1. x * s + y * s = (x + y) * s
    BY <1>2
  <2>2. x + y = 100 * s
    BY DEF x, y
  <2>3. (100 * s) * s = 100 * (s * s) /\ s * s > 0 /\ s * s \in Int /\ 1 * (s * s) = s * s
    OBVIOUS
  <2> QED
    BY <2>1, <2>2, <2>3
<1> HIDE DEF k
<1>5. Worth(Plus(p, q), 100 * k, 1 * k)
  BY <1>3, <1>4
<1>6. Worth(Plus(p, q), 100, 1)
  <2> DEFINE f == Plus(p, q)
  <2> HIDE DEF f
  <2>1. 100 \in Int /\ 1 \in Int /\ 1 > 0
    OBVIOUS
  <2>2. Worth(f, 100 * k, 1 * k)
    BY <1>5 DEF f
  <2>3. Worth(f, 100, 1)
    BY <1>4, <2>1, <2>2, WorthReduced
  <2> QED
    BY <2>3 DEF f
<1>7. Fraction(n, d) = Whole(100)
  <2>1. 100 \in Int /\ Worth(Fraction(n, d), 100, 1)
    BY <1>1, <1>6
  <2> QED
    BY <1>1, <2>1, WorthIsWhole
<1> QED
  BY <1>1, <1>7 DEF Hundred

(* Gains and losses read the rest of a hundred the other way round, unless *)
(* there was neither.                                                      *)
LEMMA ReadingsMirror ==
    ASSUME NEW gain, Gain(gain), NEW loss, Gain(loss)
    PROVE  IF gain.num = 0 /\ loss.num = 0
           THEN RsiReading(gain, loss) = Hundred /\ RsiReading(loss, gain) = Hundred
           ELSE Plus(RsiReading(gain, loss), RsiReading(loss, gain)) = Hundred
<1>1. CASE gain.num = 0 /\ loss.num = 0
  <2>1. gain = Zero /\ loss = Zero
    BY <1>1 DEF Gain
  <2> QED
    BY <1>1, <2>1 DEF RsiReading
<1>2. CASE ~(gain.num = 0 /\ loss.num = 0)
  <2> DEFINE a == gain.num * loss.den
             c == loss.num * gain.den
  <2>1. /\ gain.num \in Int /\ gain.num >= 0 /\ gain.den \in Int /\ gain.den > 0
        /\ loss.num \in Int /\ loss.num >= 0 /\ loss.den \in Int /\ loss.den > 0
    BY DEF Gain, Rational
  <2>2. a \in Int /\ c \in Int /\ a + c > 0 /\ c + a > 0
    <3>1. \A i, j \in Int : i >= 0 /\ j > 0 => i * j \in Int /\ i * j >= 0 /\ (i * j = 0 <=> i = 0)
      OBVIOUS
    <3>2. a \in Int /\ a >= 0 /\ (a = 0 <=> gain.num = 0)
      BY <2>1, <3>1
    <3>3. c \in Int /\ c >= 0 /\ (c = 0 <=> loss.num = 0)
      BY <2>1, <3>1
    <3> QED
      BY <1>2, <3>2, <3>3
  <2>3. Worth(RsiReading(gain, loss), 100 * a, a + c)
    BY <2>2, RsiReadingWorth
  <2>4. Worth(RsiReading(loss, gain), 100 * c, c + a)
    BY <2>2, RsiReadingWorth
  <2> HIDE DEF a, c
  <2>5. a + c \in Int /\ c + a = a + c
    BY <2>2
  <2>6. Plus(RsiReading(gain, loss), RsiReading(loss, gain)) = Hundred
    BY <2>2, <2>3, <2>4, <2>5, PartsOfHundred
  <2> QED
    BY <1>2, <2>6
<1> QED
  BY <1>1, <1>2

(* The market upside down falls where the market rose.                     *)
LEMMA MirroredMoves ==
    ASSUME NEW cs, NEW n, Listed(cs, n), \A i \in 1..n : cs[i] \in Candles
    PROVE  /\ Listed(Mirrored(cs), n) /\ \A i \in 1..n : Mirrored(cs)[i].close \in Int
           /\ Rises(Mirrored(cs)) = Falls(cs) /\ Falls(Mirrored(cs)) = Rises(cs)
<1> DEFINE top == 2 ^ MaxLog
           mirror(c) == [c EXCEPT !.close = top - c.close]
           ms == Mirrored(cs)
           m == Between1(n)
<1>1. n \in Nat /\ Len(cs) = n
  BY ListIsSeq DEF Listed
<1>2. top \in Int
  BY VolatilityAssumption
<1>3. ms = [i \in 1..n |-> mirror(cs[i])]
  BY <1>1 DEF Mirrored, Each
<1> HIDE DEF top
<1>4. \A i \in 1..n : mirror(cs[i]).close = top - cs[i].close
  BY ViewAssumption
<1> HIDE DEF mirror, ms
<1>5. Listed(ms, n)
  BY <1>1, <1>3 DEF Listed
<1>6. Len(ms) = n
  BY <1>5, ListIsSeq
<1>7. \A i \in 1..n : ms[i].close = top - cs[i].close /\ cs[i].close \in Int
  BY <1>3, <1>4, CandlesWhole
<1>8. \A i \in 1..n : ms[i].close \in Int
  BY <1>2, <1>7
<1>9. m \in Nat /\ \A i \in 1..m : i \in 1..n /\ i + 1 \in 1..n
  BY <1>1 DEF Between1
<1>10. ASSUME NEW i \in 1..m
       PROVE  Change(ms, i) = -Change(cs, i) /\ -Change(ms, i) = Change(cs, i)
  <2> DEFINE x == cs[i].close
             y == cs[i + 1].close
  <2>1. x \in Int /\ y \in Int /\ ms[i].close = top - x /\ ms[i + 1].close = top - y
    BY <1>7, <1>9
  <2>2. Change(ms, i) = (top - y) - (top - x) /\ Change(cs, i) = y - x
    BY <2>1 DEF Change
  <2> HIDE DEF x, y
  <2> QED
    BY <1>2, <2>1, <2>2
<1>11. Rises(ms) = Falls(cs) /\ Falls(ms) = Rises(cs)
  BY <1>1, <1>6, <1>10 DEF Rises, Falls
<1> QED
  BY <1>5, <1>8, <1>11 DEF ms

(* Rsi weighs rises and falls alike, of every list of candles (rsi of      *)
(* src/ta/indicators.py).                                                  *)
THEOREM RsiMirrorsHolds == ViewSpec => []RsiMirrors
<1>1. ViewTypeOK => RsiMirrors
  <2> SUFFICES ASSUME ViewTypeOK,
                      NEW i \in 1..Len(candles), Rsi(candles, Period)[i] # None
               PROVE  IF \E j \in 2..i : candles[j].close # candles[j - 1].close
                      THEN Plus(Rsi(candles, Period)[i], Rsi(Mirrored(candles), Period)[i])
                               = Hundred
                      ELSE {Rsi(candles, Period)[i], Rsi(Mirrored(candles), Period)[i]}
                               = {Hundred}
    BY DEF RsiMirrors
  <2> DEFINE n == Len(candles)
             m == Between1(n)
             ups == Rises(candles)
             downs == Falls(candles)
             k == i - 1
             gain == Smoothed(ups, Period, Wilder(Period))[k]
             loss == Smoothed(downs, Period, Wilder(Period))[k]
  <2>1. /\ n \in Nat /\ Listed(candles, n) /\ Period \in Nat /\ Period > 1
        /\ \A j \in 1..n : candles[j] \in Candles
    <3>1. candles \in Seq(Candles)
      BY DEF ViewTypeOK
    <3>2. n \in Nat /\ candles = [j \in 1..n |-> candles[j]]
      BY <3>1, LenProperties
    <3>3. \A j \in 1..n : candles[j] \in Candles
      BY <3>1, ElementOfSeq
    <3>4. Period \in Nat /\ Period > 1
      BY ViewAssumption
    <3> QED
      BY <3>2, <3>3, <3>4 DEF Listed
  <2>2. \A j \in 1..n : candles[j].close \in Int
    BY <2>1, CandlesWhole
  <2>3. /\ Listed(Mirrored(candles), n) /\ \A j \in 1..n : Mirrored(candles)[j].close \in Int
        /\ Rises(Mirrored(candles)) = downs /\ Falls(Mirrored(candles)) = ups
    BY <2>1, MirroredMoves
  <2>4. i > Period /\ Rsi(candles, Period)[i] = RsiReading(gain, loss)
    <3>1. Rsi(candles, Period) =
              [j \in 1..n |-> IF j <= Period THEN None
                              ELSE RsiReading(Smoothed(ups, Period, Wilder(Period))[j - 1],
                                              Smoothed(downs, Period, Wilder(Period))[j - 1])]
      BY <2>1, <2>2, RsiReads
    <3> HIDE DEF ups, downs
    <3> QED
      BY <2>1, <3>1
  <2>5. Rsi(Mirrored(candles), Period)[i] = RsiReading(loss, gain)
    <3> DEFINE ms == Mirrored(candles)
    <3> HIDE DEF ms
    <3>1. Rsi(ms, Period) =
              [j \in 1..n |-> IF j <= Period THEN None
                              ELSE RsiReading(Smoothed(Rises(ms), Period, Wilder(Period))[j - 1],
                                              Smoothed(Falls(ms), Period, Wilder(Period))[j - 1])]
      BY <2>3, RsiReads DEF ms
    <3>2. Rises(ms) = downs /\ Falls(ms) = ups
      BY <2>3 DEF ms
    <3> HIDE DEF ups, downs
    <3>3. Rsi(ms, Period)[i] = RsiReading(loss, gain)
      BY <2>1, <2>4, <3>1, <3>2
    <3> QED
      BY <3>3 DEF ms
  <2>6. /\ Listed(ups, m) /\ Listed(downs, m)
        /\ \A j \in 1..m : /\ Gain(ups[j]) /\ Gain(downs[j])
                           /\ (ups[j].num = 0 /\ downs[j].num = 0)
                                  <=> candles[j + 1].close = candles[j].close
    BY <2>1, <2>2, MovesAreGains
  <2>7. k \in 1..m /\ k >= Period /\ k + 1 = i
    BY <2>1, <2>4 DEF Between1
  <2> HIDE DEF ups, downs, m
  <2>8. /\ Gain(gain) /\ (gain.num = 0 <=> \A j \in 1..k : ups[j].num = 0)
        /\ Gain(loss) /\ (loss.num = 0 <=> \A j \in 1..k : downs[j].num = 0)
    <3> HIDE DEF k
    <3> QED
      BY <2>1, <2>6, <2>7, SmoothedGain
  <2> HIDE DEF gain, loss
  <2>9. (gain.num = 0 /\ loss.num = 0) <=> \A j \in 1..k : candles[j + 1].close = candles[j].close
    <3>1. \A j \in 1..k : j \in 1..m
      <4>1. m \in Nat
        BY <2>6 DEF Listed
      <4> QED
        BY <2>7, <4>1
    <3> QED
      BY <2>6, <2>8, <3>1
  <2>10. (\E j \in 2..i : candles[j].close # candles[j - 1].close)
             <=> ~(gain.num = 0 /\ loss.num = 0)
    <3>1. ASSUME NEW j \in 2..i, candles[j].close # candles[j - 1].close
          PROVE  \E l \in 1..k : candles[l + 1].close # candles[l].close
      <4>1. j - 1 \in 1..k /\ (j - 1) + 1 = j
        BY <2>7
      <4> QED
        BY <3>1, <4>1
    <3>2. ASSUME NEW l \in 1..k, candles[l + 1].close # candles[l].close
          PROVE  \E j \in 2..i : candles[j].close # candles[j - 1].close
      <4>1. l + 1 \in 2..i /\ (l + 1) - 1 = l
        BY <2>7
      <4> QED
        BY <3>2, <4>1
    <3> QED
      BY <2>9, <3>1, <3>2
  <2>11. IF gain.num = 0 /\ loss.num = 0
         THEN RsiReading(gain, loss) = Hundred /\ RsiReading(loss, gain) = Hundred
         ELSE Plus(RsiReading(gain, loss), RsiReading(loss, gain)) = Hundred
    BY <2>8, ReadingsMirror
  <2> QED
    BY <2>4, <2>5, <2>10, <2>11
<1> QED
  BY <1>1, ViewTypeCorrect, PTL

-----------------------------------------------------------------------------
(* Ranges.  A fraction lies between two whole numbers.                     *)

Within(a, f, b) == f \in Rational /\ AtMost(Whole(a), f) /\ AtMost(f, Whole(b))

(* Whether it does can be told from any of its values.                     *)
LEMMA WithinWorth ==
    ASSUME NEW f, NEW n \in Int, NEW d \in Int, d > 0, Worth(f, n, d), NEW a \in Int, NEW b \in Int
    PROVE  Within(a, f, b) <=> (a * d <= n /\ n <= b * d)
<1>1. Worth(Whole(a), a, 1) /\ Worth(Whole(b), b, 1) /\ 1 \in Int /\ 1 > 0 /\ f \in Rational
  BY WorthWhole DEF Worth
<1> DEFINE low == Whole(a)
           high == Whole(b)
<1> HIDE DEF low, high
<1>2. Worth(low, a, 1) /\ Worth(high, b, 1)
  BY <1>1 DEF low, high
<1>3. AtMost(low, f) <=> a * d <= n * 1
  BY <1>1, <1>2, WorthOrder
<1>4. AtMost(f, high) <=> n * 1 <= b * d
  BY <1>1, <1>2, WorthOrder
<1>5. n * 1 = n
  OBVIOUS
<1> QED
  BY <1>1, <1>3, <1>4, <1>5 DEF Within, low, high

(* The two numbers of a fraction between whole numbers.                    *)
LEMMA WithinParts ==
    ASSUME NEW f, NEW a \in Int, NEW b \in Int, Within(a, f, b)
    PROVE  /\ Worth(f, f.num, f.den) /\ f.num \in Int /\ f.den \in Int /\ f.den > 0
           /\ a * f.den <= f.num /\ f.num <= b * f.den
<1>1. f \in Rational
  BY DEF Within
<1>2. Worth(f, f.num, f.den) /\ f.num \in Int /\ f.den \in Int /\ f.den > 0
  BY <1>1, WorthSelf
<1> DEFINE x == f.num
           y == f.den
<1> HIDE DEF x, y
<1>3. Worth(f, x, y) /\ x \in Int /\ y \in Int /\ y > 0
  BY <1>2 DEF x, y
<1>4. a * y <= x /\ x <= b * y
  BY <1>3, WithinWorth
<1> QED
  BY <1>2, <1>4 DEF x, y

(* Whole numbers lie where they lie.                                       *)
LEMMA WithinWhole ==
    ASSUME NEW n \in Int, NEW a \in Int, NEW b \in Int, a <= n, n <= b
    PROVE  Within(a, Whole(n), b)
BY WholeRational, WholeOrder DEF Within

(* A sum lies between the sums of the bounds.                              *)
LEMMA PlusWithin ==
    ASSUME NEW p, NEW q, NEW a \in Int, NEW b \in Int, NEW c \in Int, NEW d \in Int,
           Within(a, p, b), Within(c, q, d)
    PROVE  Within(a + c, Plus(p, q), b + d)
<1> DEFINE x == p.num
           y == p.den
           u == q.num
           v == q.den
           f == Plus(p, q)
           n == x * v + u * y
           k == y * v
<1>1. /\ Worth(p, x, y) /\ x \in Int /\ y \in Int /\ y > 0 /\ a * y <= x /\ x <= b * y
      /\ Worth(q, u, v) /\ u \in Int /\ v \in Int /\ v > 0 /\ c * v <= u /\ u <= d * v
  BY WithinParts
<1> HIDE DEF x, y, u, v
<1>2. Worth(f, x * v + u * y, y * v)
  BY <1>1, WorthPlus
<1>3. \A i, j, m \in Int : m > 0 /\ i <= j => i * m <= j * m
  OBVIOUS
<1>4. \A i, j \in Int : i > 0 /\ j > 0 => i * j > 0 /\ i * j \in Int
  OBVIOUS
<1>5. /\ a * y \in Int /\ b * y \in Int /\ c * v \in Int
      /\ d * v \in Int /\ x * v \in Int /\ u * y \in Int
  BY <1>1
<1>6. (a * y) * v <= x * v /\ x * v <= (b * y) * v /\ (c * v) * y <= u * y /\ u * y <= (d * v) * y
  BY <1>1, <1>3, <1>5
<1>7. \A i, j \in Int : (i + j) * (y * v) = (i * y) * v + (j * v) * y
  BY <1>1
<1>8. (a + c) * k = (a * y) * v + (c * v) * y /\ (b + d) * k = (b * y) * v + (d * v) * y
  BY <1>7
<1>9. k \in Int /\ k > 0 /\ n \in Int
  BY <1>1, <1>4, <1>5
<1>10. (a + c) * k <= n /\ n <= (b + d) * k
  <2>1. /\ (a * y) * v \in Int /\ (c * v) * y \in Int
        /\ (b * y) * v \in Int /\ (d * v) * y \in Int
    BY <1>1, <1>5
  <2> HIDE DEF k
  <2> QED
    BY <1>5, <1>6, <1>8, <2>1
<1>11. Worth(f, n, k)
  BY <1>2
<1>12. a + c \in Int /\ b + d \in Int
  OBVIOUS
<1> HIDE DEF n, k, f
<1>13. Within(a + c, f, b + d)
  <2> DEFINE l == a + c
             h == b + d
  <2> HIDE DEF l, h
  <2>1. l \in Int /\ h \in Int /\ l * k <= n /\ n <= h * k
    BY <1>10, <1>12 DEF l, h
  <2>2. Within(l, f, h)
    BY <1>9, <1>11, <2>1, WithinWorth
  <2> QED
    BY <2>2 DEF l, h
<1> QED
  BY <1>13 DEF f

(* Where all of a list lies, so many times over its total does.            *)
LEMMA TotalWithin ==
    ASSUME NEW s, Len(s) \in Nat, NEW a \in Int, NEW b \in Int,
           \A i \in 1..Len(s) : Within(a, s[i], b)
    PROVE  Within(a * Len(s), Total(s), b * Len(s))
<1>1. PICK g : /\ g[0] = Zero
               /\ \A i \in 1..Len(s) : g[i] = Plus(g[i - 1], s[i])
               /\ Total(s) = g[Len(s)]
  BY TotalUnfolds
<1> DEFINE Good(n) == Within(a * n, g[n], b * n)
           Bad == {n \in 0..Len(s) : ~Good(n)}
<1>2. ASSUME Bad # {}
      PROVE  FALSE
  <2>1. PICK n \in Bad : \A k \in Bad : n <= k
    <3> HIDE DEF Good
    <3>1. Bad \in SUBSET Nat
      OBVIOUS
    <3> HIDE DEF Bad
    <3> QED
      BY <1>2, <3>1, LeastNumber
  <2>2. CASE n = 0
    <3>1. a * 0 = 0 /\ b * 0 = 0 /\ Within(0, Zero, 0)
      BY WithinWhole DEF Zero
    <3>2. Good(0)
      BY <1>1, <3>1
    <3> HIDE DEF Good
    <3> QED
      BY <2>2, <3>2
  <2>3. CASE n # 0
    <3>1. n - 1 \in 0..Len(s) /\ ~(n <= n - 1) /\ n \in 1..Len(s) /\ n - 1 \in Nat
      BY <2>3
    <3>2. Good(n - 1)
      <4> HIDE DEF Good
      <4> QED
        BY <2>1, <3>1
    <3> DEFINE p == g[n - 1]
               q == s[n]
               l == a * (n - 1)
               h == b * (n - 1)
    <3>3. g[n] = Plus(p, q) /\ Within(l, p, h) /\ Within(a, q, b) /\ l \in Int /\ h \in Int
      BY <1>1, <3>1, <3>2
    <3>4. l + a = a * n /\ h + b = b * n
      BY <3>1
    <3> HIDE DEF p, q, l, h
    <3>5. Within(l + a, Plus(p, q), h + b)
      BY <3>3, PlusWithin
    <3>6. Good(n)
      BY <3>3, <3>4, <3>5
    <3> QED
      BY <3>6
  <2> QED
    BY <2>2, <2>3
<1>3. Good(Len(s))
  <2> HIDE DEF Good
  <2> QED
    BY <1>2
<1> QED
  BY <1>1, <1>3

(* A mean lies where all of the list lies.                                 *)
LEMMA MeanWithin ==
    ASSUME NEW s, Len(s) \in Nat \ {0}, NEW a \in Int, NEW b \in Int,
           \A i \in 1..Len(s) : Within(a, s[i], b)
    PROVE  Within(a, Mean(s), b)
<1> DEFINE n == Len(s)
           t == Total(s)
           m == Mean(s)
           l == a * n
           h == b * n
           x == t.num
           y == t.den
           z == y * n
<1>1. Within(l, t, h) /\ l \in Int /\ h \in Int
  BY TotalWithin
<1>2. n \in Int /\ n > 0 /\ Worth(Whole(n), n, 1) /\ Whole(n).num = n
  BY WorthWhole, WholeOrder
<1>3. m = Over(t, Whole(n))
  BY DEF Mean
<1> HIDE DEF n, t, m
<1>4. Worth(t, x, y) /\ x \in Int /\ y \in Int /\ y > 0 /\ l * y <= x /\ x <= h * y
  <2> HIDE DEF l, h
  <2> QED
    BY <1>1, WithinParts
<1> HIDE DEF x, y
<1>5. Worth(m, x * 1, y * n)
  BY <1>2, <1>3, <1>4, WorthOver
<1>6. x * 1 = x /\ z \in Int /\ z > 0
  <2>1. \A i, j \in Int : i > 0 /\ j > 0 => i * j > 0 /\ i * j \in Int
    OBVIOUS
  <2> QED
    BY <1>2, <1>4, <2>1
<1>7. a * z = l * y /\ b * z = h * y
  BY <1>2, <1>4
<1> HIDE DEF z
<1>8. Worth(m, x, z) /\ a * z <= x /\ x <= b * z
  <2>1. Worth(m, x, z)
    BY <1>5, <1>6 DEF z
  <2> QED
    BY <1>4, <1>7, <2>1
<1>9. Within(a, m, b)
  BY <1>4, <1>6, <1>8, WithinWorth
<1> QED
  BY <1>9 DEF m

(* A step by a part of the way stays between its two ends.                 *)
LEMMA StepWithin ==
    ASSUME NEW v, NEW prev, NEW part, NEW x \in Int, NEW y \in Int, Worth(part, x, y),
           0 <= x, x <= y, y > 0, NEW a \in Int, NEW b \in Int,
           Within(a, v, b), Within(a, prev, b)
    PROVE  Within(a, Plus(Times(Minus(v, prev), part), prev), b)
<1> DEFINE vn == v.num
           vd == v.den
           pn == prev.num
           pd == prev.den
           f == Plus(Times(Minus(v, prev), part), prev)
           i == vn * pd
           j == pn * vd
           e == vd * pd
           z == y - x
<1>1. /\ vn \in Int /\ vd \in Int /\ vd > 0 /\ a * vd <= vn /\ vn <= b * vd
      /\ pn \in Int /\ pd \in Int /\ pd > 0 /\ a * pd <= pn /\ pn <= b * pd
  BY WithinParts
<1>2. Worth(f, i * x + j * z, e * y)
  BY StepWorth DEF Within
<1> HIDE DEF vn, vd, pn, pd, f
<1>3. \A k, l, m \in Int : m >= 0 /\ k <= l => k * m <= l * m
  OBVIOUS
<1>4. e \in Int /\ e > 0 /\ i \in Int /\ j \in Int
  <2>1. \A k, l \in Int : k > 0 /\ l > 0 => k * l > 0 /\ k * l \in Int
    OBVIOUS
  <2> QED
    BY <1>1, <2>1
<1>5. a * e <= i /\ i <= b * e /\ a * e <= j /\ j <= b * e
  <2>1. a * vd \in Int /\ b * vd \in Int /\ a * pd \in Int /\ b * pd \in Int
    BY <1>1
  <2>2. /\ (a * vd) * pd <= vn * pd /\ vn * pd <= (b * vd) * pd
        /\ (a * pd) * vd <= pn * vd /\ pn * vd <= (b * pd) * vd
    BY <1>1, <1>3, <2>1
  <2>3. \A k \in Int : (k * vd) * pd = k * e /\ (k * pd) * vd = k * e
    BY <1>1
  <2> QED
    BY <2>2, <2>3
<1> HIDE DEF i, j, e
<1>6. z \in Int /\ z >= 0 /\ y = x + z
  OBVIOUS
<1> HIDE DEF z
<1>7. /\ (a * e) * x <= i * x /\ i * x <= (b * e) * x
      /\ (a * e) * z <= j * z /\ j * z <= (b * e) * z
  <2>1. a * e \in Int /\ b * e \in Int
    BY <1>4
  <2> QED
    BY <1>3, <1>4, <1>5, <1>6, <2>1
<1>8. \A k \in Int : k * (e * y) = (k * e) * x + (k * e) * z
  BY <1>4, <1>6
<1> DEFINE n == i * x + j * z
           d == e * y
<1>9. n \in Int /\ d \in Int /\ d > 0 /\ Worth(f, n, d)
  <2>1. \A k, l \in Int : k > 0 /\ l > 0 => k * l > 0 /\ k * l \in Int
    OBVIOUS
  <2> QED
    BY <1>2, <1>4, <1>6, <2>1
<1>10. a * d <= n /\ n <= b * d
  <2>1. a * d = (a * e) * x + (a * e) * z /\ b * d = (b * e) * x + (b * e) * z
    BY <1>8
  <2>2. /\ (a * e) * x \in Int /\ (a * e) * z \in Int /\ (b * e) * x \in Int /\ (b * e) * z \in Int
        /\ i * x \in Int /\ j * z \in Int
    BY <1>4, <1>6
  <2> HIDE DEF d
  <2> QED
    BY <1>7, <2>1, <2>2
<1> HIDE DEF n, d
<1>11. Within(a, f, b)
  BY <1>9, <1>10, WithinWorth
<1> QED
  BY <1>11 DEF f

(* A smoothed list stays where the list lies.                              *)
LEMMA SmoothedWithin ==
    ASSUME NEW s, NEW n, Listed(s, n), NEW period \in Nat \ {0}, NEW part,
           NEW x \in Int, NEW y \in Int, Worth(part, x, y), 0 <= x, x <= y, y > 0,
           NEW k \in 1..n, k >= period, NEW a \in Int, NEW b \in Int,
           \A i \in 1..k : Within(a, s[i], b)
    PROVE  Within(a, Smoothed(s, period, part)[k], b)
<1> DEFINE r == Smoothed(s, period, part)
           Bad == {i \in 1..k : i >= period /\ ~Within(a, r[i], b)}
<1>1. n \in Nat /\ Len(s) = n /\ s \in Seq({s[i] : i \in 1..n})
  BY ListIsSeq DEF Listed
<1>2. \A i \in 1..n : r[i] = IF i < period THEN None
                             ELSE IF i = period THEN Mean(SubSeq(s, 1, period))
                             ELSE Plus(Times(Minus(s[i], r[i - 1]), part), r[i - 1])
  <2>1. Len(s) \in Nat
    BY <1>1
  <2>2. \A i \in 1..Len(s) : r[i] = IF i < period THEN None
                                    ELSE IF i = period THEN Mean(SubSeq(s, 1, period))
                                    ELSE Plus(Times(Minus(s[i], r[i - 1]), part), r[i - 1])
    BY <2>1, SmoothedReads
  <2> QED
    BY <1>1, <2>2
<1> HIDE DEF r
<1>3. ASSUME Bad # {}
      PROVE  FALSE
  <2>1. PICK i \in Bad : \A j \in Bad : i <= j
    <3>1. Bad \in SUBSET Nat
      BY <1>1
    <3> HIDE DEF Bad
    <3> QED
      BY <1>3, <3>1, LeastNumber
  <2>2. i \in 1..k /\ i \in 1..n /\ i >= period /\ i \in Nat /\ ~Within(a, r[i], b)
    BY <1>1
  <2>3. CASE i = period
    <3> DEFINE first == SubSeq(s, 1, period)
    <3>1. Len(first) = period /\ \A j \in 1..period : first[j] = s[j] /\ j \in 1..k
      BY <1>1, <2>2, <2>3
    <3>2. r[i] = Mean(first)
      BY <1>2, <2>2, <2>3
    <3> HIDE DEF first
    <3>3. Len(first) \in Nat \ {0} /\ \A j \in 1..Len(first) : Within(a, first[j], b)
      BY <3>1
    <3> QED
      BY <2>2, <3>2, <3>3, MeanWithin
  <2>4. CASE i # period
    <3>1. i - 1 \in 1..k /\ i - 1 >= period /\ ~(i <= i - 1)
      BY <1>1, <2>2, <2>4
    <3>2. Within(a, r[i - 1], b)
      BY <2>1, <3>1
    <3> DEFINE v == s[i]
               p == r[i - 1]
    <3>3. r[i] = Plus(Times(Minus(v, p), part), p)
      BY <1>2, <2>2, <2>4
    <3>4. Within(a, v, b) /\ Within(a, p, b)
      BY <2>2, <3>2
    <3> HIDE DEF v, p
    <3> QED
      BY <2>2, <3>3, <3>4, StepWithin
  <2> QED
    BY <2>3, <2>4
<1>4. k \notin Bad
  BY <1>3
<1> QED
  BY <1>4 DEF r

-----------------------------------------------------------------------------
(* Readings in their range.                                                *)

(* A list of whole numbers lies between its least and its greatest.        *)
LEMMA WholeExtremes ==
    ASSUME NEW s, NEW n \in Nat \ {0}, NEW v, Listed(s, n),
           \A i \in 1..n : v[i] \in Int /\ s[i] = Whole(v[i])
    PROVE  \E lo, hi \in Int : /\ Least(s) = Whole(lo) /\ Greatest(s) = Whole(hi)
                               /\ \A i \in 1..n : lo <= v[i] /\ v[i] <= hi
<1>1. Len(s) = n /\ DOMAIN s = 1..n
  BY ListIsSeq
<1>2. Fractional(s)
  BY <1>1, WholeRational DEF Fractional
<1>3. PICK t \in 1..n : s[t] = Greatest(s)
  BY <1>1, <1>2, ExtremesOf
<1>4. PICK b \in 1..n : s[b] = Least(s)
  BY <1>1, <1>2, ExtremesOf
<1>5. \A i \in 1..n : AtMost(s[i], Greatest(s)) /\ AtMost(Least(s), s[i])
  BY <1>1, <1>2, ExtremesOf
<1>6. ASSUME NEW i \in 1..n
      PROVE  v[b] <= v[i] /\ v[i] <= v[t]
  <2>1. AtMost(Whole(v[i]), Whole(v[t])) /\ AtMost(Whole(v[b]), Whole(v[i]))
    BY <1>3, <1>4, <1>5
  <2> QED
    BY <2>1, WholeOrder
<1> QED
  BY <1>3, <1>4, <1>6

(* The candles so far.                                                     *)
LEMMA PastReads ==
    ASSUME NEW cs \in Seq(Candles), NEW i \in 1..Len(cs)
    PROVE  /\ Listed(cs, Len(cs)) /\ i \in Nat \ {0} /\ Len(SubSeq(cs, 1, i)) = i
           /\ \A j \in 1..i : SubSeq(cs, 1, i)[j] = cs[j] /\ cs[j] \in Candles /\ j \in 1..Len(cs)
           /\ \A j \in 1..Len(cs) : cs[j] \in Candles
<1>1. /\ Len(cs) \in Nat /\ cs = [j \in 1..Len(cs) |-> cs[j]]
      /\ \A j \in 1..Len(cs) : cs[j] \in Candles
  BY LenProperties, ElementOfSeq
<1>2. Len(SubSeq(cs, 1, i)) = i /\ \A j \in 1..i : SubSeq(cs, 1, i)[j] = cs[j] /\ j \in 1..Len(cs)
  BY <1>1
<1> QED
  BY <1>1, <1>2 DEF Listed

(* Their closes, their lows and their highs lie between whole numbers.     *)
LEMMA PastExtremes ==
    ASSUME NEW cs \in Seq(Candles), NEW i \in 1..Len(cs)
    PROVE  LET past == SubSeq(cs, 1, i)
           IN  /\ \E lo, hi \in Int :
                      /\ Least(Closes(past)) = Whole(lo) /\ Greatest(Closes(past)) = Whole(hi)
                      /\ \A j \in 1..i : lo <= cs[j].close /\ cs[j].close <= hi
               /\ \E lo \in Int : /\ Least(Each(LAMBDA c : Whole(c.low), past)) = Whole(lo)
                                  /\ \A j \in 1..i : lo <= cs[j].low
               /\ \E hi \in Int : /\ Greatest(Each(LAMBDA c : Whole(c.high), past)) = Whole(hi)
                                  /\ \A j \in 1..i : cs[j].high <= hi
<1> DEFINE past == SubSeq(cs, 1, i)
           closes == Closes(past)
           lows == Each(LAMBDA c : Whole(c.low), past)
           highs == Each(LAMBDA c : Whole(c.high), past)
           close == [j \in 1..i |-> cs[j].close]
           low == [j \in 1..i |-> cs[j].low]
           high == [j \in 1..i |-> cs[j].high]
<1>1. i \in Nat \ {0} /\ Len(past) = i /\ \A j \in 1..i : past[j] = cs[j] /\ cs[j] \in Candles
  BY PastReads
<1> HIDE DEF past
<1>2. \A j \in 1..i : cs[j].low \in Int /\ cs[j].close \in Int /\ cs[j].high \in Int
  BY <1>1, CandlesWhole
<1>3. /\ closes = [j \in 1..i |-> Whole(cs[j].close)]
      /\ lows = [j \in 1..i |-> Whole(cs[j].low)]
      /\ highs = [j \in 1..i |-> Whole(cs[j].high)]
  BY <1>1 DEF Closes, Each
<1> HIDE DEF closes, lows, highs
<1>4. /\ Listed(closes, i) /\ \A j \in 1..i : close[j] \in Int /\ closes[j] = Whole(close[j])
      /\ Listed(lows, i) /\ \A j \in 1..i : low[j] \in Int /\ lows[j] = Whole(low[j])
      /\ Listed(highs, i) /\ \A j \in 1..i : high[j] \in Int /\ highs[j] = Whole(high[j])
  BY <1>1, <1>2, <1>3 DEF Listed
<1>5. /\ \A j \in 1..i : close[j] = cs[j].close /\ low[j] = cs[j].low /\ high[j] = cs[j].high
  OBVIOUS
<1> HIDE DEF close, low, high
<1>6. \E lo, hi \in Int : /\ Least(closes) = Whole(lo) /\ Greatest(closes) = Whole(hi)
                          /\ \A j \in 1..i : lo <= cs[j].close /\ cs[j].close <= hi
  <2>1. Listed(closes, i) /\ \A j \in 1..i : close[j] \in Int /\ closes[j] = Whole(close[j])
    BY <1>4
  <2>2. PICK lo, hi \in Int : /\ Least(closes) = Whole(lo) /\ Greatest(closes) = Whole(hi)
                              /\ \A j \in 1..i : lo <= close[j] /\ close[j] <= hi
    BY <1>1, <2>1, WholeExtremes
  <2> QED
    BY <1>5, <2>2
<1>7. \E lo, hi \in Int : /\ Least(lows) = Whole(lo) /\ Greatest(lows) = Whole(hi)
                          /\ \A j \in 1..i : lo <= cs[j].low /\ cs[j].low <= hi
  <2>1. Listed(lows, i) /\ \A j \in 1..i : low[j] \in Int /\ lows[j] = Whole(low[j])
    BY <1>4
  <2>2. PICK lo, hi \in Int : /\ Least(lows) = Whole(lo) /\ Greatest(lows) = Whole(hi)
                              /\ \A j \in 1..i : lo <= low[j] /\ low[j] <= hi
    BY <1>1, <2>1, WholeExtremes
  <2> QED
    BY <1>5, <2>2
<1>8. \E lo, hi \in Int : /\ Least(highs) = Whole(lo) /\ Greatest(highs) = Whole(hi)
                          /\ \A j \in 1..i : lo <= cs[j].high /\ cs[j].high <= hi
  <2>1. Listed(highs, i) /\ \A j \in 1..i : high[j] \in Int /\ highs[j] = Whole(high[j])
    BY <1>4
  <2>2. PICK lo, hi \in Int : /\ Least(highs) = Whole(lo) /\ Greatest(highs) = Whole(hi)
                              /\ \A j \in 1..i : lo <= high[j] /\ high[j] <= hi
    BY <1>1, <2>1, WholeExtremes
  <2> QED
    BY <1>5, <2>2
<1>9. \E lo \in Int : Least(lows) = Whole(lo) /\ \A j \in 1..i : lo <= cs[j].low
  BY <1>7
<1>10. \E hi \in Int : Greatest(highs) = Whole(hi) /\ \A j \in 1..i : cs[j].high <= hi
  BY <1>8
<1> QED
  BY <1>6, <1>9, <1>10, Zenon DEF closes, lows, highs, past

(* A list is what it grows from, and its last so many are a part of it.    *)
LEMMA WindowReads ==
    ASSUME NEW s, NEW n, Listed(s, n), NEW i \in 1..n, NEW period \in Nat \ {0}, i >= period
    PROVE  /\ Len(Window(s, i, period)) = period
           /\ \A j \in 1..period : /\ Window(s, i, period)[j] = s[i - period + j]
                                   /\ i - period + j \in 1..i
           /\ Listed(Window(s, i, period), period)
<1>1. n \in Nat /\ Grows(s, n, s, n)
  BY DEF Listed, Grows
<1> DEFINE a == i - period + 1
<1>2. a \in Nat \ {0} /\ i \in 0..n /\ i - a + 1 = period
  BY <1>1
<1> HIDE DEF a
<1>3. SubSeq(s, a, i) = [j \in 1..i - a + 1 |-> s[j + a - 1]]
  BY <1>1, <1>2, PartSame
<1>4. Window(s, i, period) = [j \in 1..period |-> s[j + a - 1]]
  BY <1>2, <1>3 DEF Window, a
<1>5. \A j \in 1..period : j + a - 1 = i - period + j /\ i - period + j \in 1..i
  BY <1>1 DEF a
<1>6. Listed(Window(s, i, period), period)
  BY <1>4 DEF Listed
<1>7. Len(Window(s, i, period)) = period
  BY <1>6, ListIsSeq
<1> QED
  BY <1>4, <1>5, <1>6, <1>7

(* Averages lie within what was averaged: sma, ema.                        *)
LEMMA AveragesWithin ==
    ASSUME NEW cs \in Seq(Candles), NEW i \in 1..Len(cs), NEW period \in Nat \ {0}, i >= period,
           NEW lo \in Int, NEW hi \in Int,
           \A j \in 1..i : lo <= cs[j].close /\ cs[j].close <= hi
    PROVE  Within(lo, Sma(cs, period)[i], hi) /\ Within(lo, Ema(cs, period)[i], hi)
<1> DEFINE n == Len(cs)
           closes == Closes(cs)
           window == Window(closes, i, period)
<1>1. n \in Nat /\ Listed(cs, n) /\ \A j \in 1..i : cs[j] \in Candles /\ j \in 1..n
  BY PastReads DEF Listed
<1>2. closes = [j \in 1..n |-> Whole(cs[j].close)]
  BY DEF Closes, Each
<1>3. Listed(closes, n)
  BY <1>1, <1>2 DEF Listed
<1>4. \A j \in 1..i : Within(lo, closes[j], hi)
  <2>1. ASSUME NEW j \in 1..i
        PROVE  Within(lo, closes[j], hi)
    <3>1. closes[j] = Whole(cs[j].close) /\ cs[j].close \in Int
      BY <1>1, <1>2, CandlesWhole
    <3> HIDE DEF closes
    <3> QED
      BY <3>1, WithinWhole
  <2> QED
    BY <2>1
<1>5. /\ Sma(cs, period)[i] = Mean(window)
      /\ Ema(cs, period) = Smoothed(closes, period, Exponential(period))
  BY <1>1 DEF Sma, Ema
<1> HIDE DEF closes
<1>6. /\ Len(window) = period
      /\ \A j \in 1..period : window[j] = closes[i - period + j] /\ i - period + j \in 1..i
  BY <1>1, <1>3, WindowReads
<1> HIDE DEF window
<1>7. Within(lo, Mean(window), hi)
  <2>1. Len(window) \in Nat \ {0} /\ \A j \in 1..Len(window) : Within(lo, window[j], hi)
    BY <1>4, <1>6
  <2> QED
    BY <2>1, MeanWithin
<1>8. Within(lo, Smoothed(closes, period, Exponential(period))[i], hi)
  <2> DEFINE y == period + 1
  <2>1. y \in Int /\ 2 \in Int /\ 0 <= 2 /\ 2 <= y /\ y > 0
    OBVIOUS
  <2>2. Worth(Exponential(period), 2, y)
    BY <2>1, WorthFraction DEF Exponential
  <2> HIDE DEF y
  <2> QED
    BY <1>1, <1>3, <1>4, <2>1, <2>2, SmoothedWithin
<1> QED
  BY <1>5, <1>7, <1>8

(* A part of turnover in volume is a price between low and high (vwap).    *)
LEMMA WeightedWithin ==
    ASSUME NEW s, NEW w, NEW n, NEW v, Listed(s, n), Listed(w, n), NEW a \in Int, NEW b \in Int,
           \A i \in 1..n : v[i] \in Nat /\ w[i] = Whole(v[i]) /\ Within(a * v[i], s[i], b * v[i])
    PROVE  \E k \in Nat : /\ Worth(Total(w), k, 1) /\ (k = 0 => Total(w) = Zero)
                          /\ Within(a * k, Total(s), b * k)
<1>1. n \in Nat /\ Len(s) = n /\ Len(w) = n
  BY ListIsSeq DEF Listed
<1>2. PICK g : /\ g[0] = Zero
               /\ \A i \in 1..n : g[i] = Plus(g[i - 1], s[i])
               /\ Total(s) = g[n]
  BY <1>1, TotalUnfolds
<1>3. PICK h : /\ h[0] = Zero
               /\ \A i \in 1..n : h[i] = Plus(h[i - 1], w[i])
               /\ Total(w) = h[n]
  BY <1>1, TotalUnfolds
<1> DEFINE Good(m) == \E k \in Nat : Worth(h[m], k, 1) /\ Within(a * k, g[m], b * k)
           Bad == {m \in 0..n : ~Good(m)}
<1>4. ASSUME Bad # {}
      PROVE  FALSE
  <2>1. PICK m \in Bad : \A k \in Bad : m <= k
    <3> HIDE DEF Good
    <3>1. Bad \in SUBSET Nat
      BY <1>1
    <3> HIDE DEF Bad
    <3> QED
      BY <1>4, <3>1, LeastNumber
  <2>2. CASE m = 0
    <3>1. a * 0 = 0 /\ b * 0 = 0 /\ Within(0, Zero, 0) /\ Worth(Zero, 0, 1)
      BY WithinWhole, WorthWhole DEF Zero
    <3>2. Good(0)
      BY <1>2, <1>3, <3>1
    <3> HIDE DEF Good
    <3> QED
      BY <2>2, <3>2
  <2>3. CASE m # 0
    <3>1. m - 1 \in 0..n /\ ~(m <= m - 1) /\ m \in 1..n /\ m - 1 \in Nat
      BY <1>1, <2>3
    <3>2. Good(m - 1)
      <4> HIDE DEF Good
      <4> QED
        BY <2>1, <3>1
    <3> DEFINE p == g[m - 1]
               q == s[m]
               u == h[m - 1]
               x == v[m]
    <3>3. PICK k \in Nat : Worth(u, k, 1) /\ Within(a * k, p, b * k)
      BY <3>2
    <3>4. /\ g[m] = Plus(p, q) /\ h[m] = Plus(u, Whole(x)) /\ x \in Nat
          /\ Within(a * x, q, b * x)
      BY <1>2, <1>3, <3>1
    <3> HIDE DEF p, q, u, x
    <3>5. Worth(Plus(u, Whole(x)), k + x, 1)
      <4>1. Worth(Whole(x), x, 1)
        BY <3>4, WorthWhole
      <4>2. Worth(Plus(u, Whole(x)), k * 1 + x * 1, 1 * 1)
        BY <3>3, <3>4, <4>1, WorthPlus
      <4>3. k * 1 + x * 1 = k + x /\ 1 * 1 = 1
        BY <3>4
      <4> QED
        BY <4>2, <4>3
    <3>6. Within(a * (k + x), Plus(p, q), b * (k + x))
      <4> DEFINE l == a * k
                 c == b * k
                 d == a * x
                 e == b * x
      <4>1. /\ l \in Int /\ c \in Int /\ d \in Int /\ e \in Int
            /\ l + d = a * (k + x) /\ c + e = b * (k + x)
        BY <3>4
      <4>2. Within(l, p, c) /\ Within(d, q, e)
        BY <3>3, <3>4
      <4> HIDE DEF l, c, d, e
      <4>3. Within(l + d, Plus(p, q), c + e)
        BY <4>1, <4>2, PlusWithin
      <4> QED
        BY <4>1, <4>3
    <3>7. k + x \in Nat
      BY <3>4
    <3>8. Good(m)
      BY <3>4, <3>5, <3>6, <3>7
    <3> QED
      BY <3>8
  <2> QED
    BY <2>2, <2>3
<1>5. PICK k \in Nat : Worth(Total(w), k, 1) /\ Within(a * k, Total(s), b * k)
  <2>1. Good(n)
    <3> HIDE DEF Good
    <3> QED
      BY <1>1, <1>4
  <2> QED
    BY <1>2, <1>3, <2>1
<1>6. k = 0 => Total(w) = Zero
  <2>1. \A i \in 1..Len(w) : Gain(w[i])
    <3>1. \A x \in Nat : Gain(Whole(x))
      BY WholeRational, WholeOrder DEF Gain, Zero
    <3> QED
      BY <1>1, <3>1
  <2>2. Gain(Total(w))
    BY <1>1, <2>1, TotalGain
  <2>3. k = 0 => Total(w).num = 0
    <3> DEFINE t == Total(w)
    <3> HIDE DEF t
    <3>1. k \in Int /\ 1 \in Int /\ 1 > 0 /\ Worth(t, k, 1)
      BY <1>5 DEF t
    <3>2. t.num = 0 <=> k = 0
      BY <3>1, WorthSign
    <3> QED
      BY <3>2 DEF t
  <2> QED
    BY <2>2, <2>3 DEF Gain
<1> QED
  BY <1>5, <1>6

(* Vwap lies between the lowest low and the highest high.                  *)
LEMMA VwapWithin ==
    ASSUME NEW cs \in Seq(Candles), NEW i \in 1..Len(cs), NEW lo \in Int, NEW hi \in Int,
           \A j \in 1..i : lo <= cs[j].low /\ cs[j].high <= hi, Vwap(cs)[i] # None
    PROVE  Within(lo, Vwap(cs)[i], hi)
<1> DEFINE past == SubSeq(cs, 1, i)
           w == Each(LAMBDA c : Whole(c.volume), past)
           s == Each(LAMBDA c : Fraction((c.high + c.low + c.close) * c.volume, 3), past)
           v == [j \in 1..i |-> cs[j].volume]
           volume == Total(w)
           turnover == Total(s)
           f == Over(turnover, volume)
<1>1. i \in Nat \ {0} /\ Len(past) = i /\ \A j \in 1..i : past[j] = cs[j] /\ cs[j] \in Candles
  BY PastReads
<1>2. Vwap(cs)[i] = IF volume = Zero THEN None ELSE f
  BY DEF Vwap
<1> HIDE DEF past
<1>3. /\ w = [j \in 1..i |-> Whole(cs[j].volume)]
      /\ s = [j \in 1..i |-> Fraction((cs[j].high + cs[j].low + cs[j].close) * cs[j].volume, 3)]
  BY <1>1 DEF Each
<1> HIDE DEF w, s
<1>4. Listed(w, i) /\ Listed(s, i)
  BY <1>1, <1>3 DEF Listed
<1>5. ASSUME NEW j \in 1..i
      PROVE  v[j] \in Nat /\ w[j] = Whole(v[j]) /\ Within(lo * v[j], s[j], hi * v[j])
  <2> DEFINE x == v[j]
             y == cs[j].high + cs[j].low + cs[j].close
             l == lo * x
             h == hi * x
             n == y * x
             t == Fraction(n, 3)
  <2>1. /\ x \in Nat /\ w[j] = Whole(x) /\ s[j] = t /\ y \in Int
        /\ lo * 3 <= y /\ y <= hi * 3
    <3>1. /\ cs[j].high \in Nat /\ cs[j].low \in Nat /\ cs[j].close \in Nat /\ cs[j].volume \in Nat
          /\ cs[j].low <= cs[j].close /\ cs[j].close <= cs[j].high
          /\ lo <= cs[j].low /\ cs[j].high <= hi
      BY <1>1, CandlesWhole
    <3>2. x = cs[j].volume
      OBVIOUS
    <3>3. w[j] = Whole(x) /\ s[j] = t
      BY <1>3, <3>2
    <3>4. y \in Int /\ lo * 3 <= y /\ y <= hi * 3
      <4> DEFINE p == cs[j].high
                 q == cs[j].low
                 e == cs[j].close
      <4>1. p \in Nat /\ q \in Nat /\ e \in Nat /\ lo <= q /\ q <= e /\ e <= p /\ p <= hi
        BY <3>1
      <4>2. y = p + q + e
        OBVIOUS
      <4> HIDE DEF p, q, e, y
      <4> QED
        BY <4>1, <4>2
    <3> HIDE DEF x, y, t
    <3> QED
      BY <3>1, <3>2, <3>3, <3>4
  <2> HIDE DEF x, y
  <2>2. n \in Int /\ l \in Int /\ h \in Int /\ l * 3 <= n /\ n <= h * 3
    <3>1. \A p, q \in Int, e \in Nat : p <= q => p * e <= q * e
      OBVIOUS
    <3>2. lo * 3 \in Int /\ hi * 3 \in Int
      OBVIOUS
    <3>3. (lo * 3) * x <= y * x /\ y * x <= (hi * 3) * x
      BY <2>1, <3>1, <3>2
    <3>4. (lo * 3) * x = l * 3 /\ (hi * 3) * x = h * 3 /\ y * x \in Int /\ l \in Int /\ h \in Int
      BY <2>1
    <3> HIDE DEF l, h
    <3> QED
      BY <3>3, <3>4
  <2> HIDE DEF n, l, h
  <2>3. 3 \in Int /\ 3 > 0
    OBVIOUS
  <2>4. Worth(t, n, 3)
    BY <2>2, <2>3, WorthFraction
  <2> HIDE DEF t
  <2>5. Within(l, t, h)
    BY <2>2, <2>3, <2>4, WithinWorth
  <2> QED
    BY <2>1, <2>5 DEF x, l, h
<1> HIDE DEF v
<1>6. PICK k \in Nat : /\ Worth(volume, k, 1) /\ (k = 0 => volume = Zero)
                       /\ Within(lo * k, turnover, hi * k)
  BY <1>4, <1>5, WeightedWithin
<1>7. volume # Zero /\ Vwap(cs)[i] = f
  BY <1>2
<1> HIDE DEF volume, turnover
<1> DEFINE x == turnover.num
           y == turnover.den
           l == lo * k
           h == hi * k
           z == y * k
<1>8. k \in Int /\ k > 0 /\ volume.num > 0 /\ 1 \in Int /\ 1 > 0 /\ l \in Int /\ h \in Int
  <2>1. k \in Int /\ k > 0 /\ 1 \in Int /\ 1 > 0 /\ l \in Int /\ h \in Int
    BY <1>6, <1>7
  <2>2. volume.num > 0
    BY <1>6, <2>1, WorthSign
  <2> QED
    BY <2>1, <2>2
<1>9. Worth(turnover, x, y) /\ x \in Int /\ y \in Int /\ y > 0 /\ l * y <= x /\ x <= h * y
  <2>1. Within(l, turnover, h)
    BY <1>6
  <2> HIDE DEF l, h
  <2> QED
    BY <1>8, <2>1, WithinParts
<1> HIDE DEF x, y
<1>10. Worth(f, x * 1, y * k)
  BY <1>6, <1>8, <1>9, WorthOver
<1>11. z \in Int /\ z > 0 /\ x * 1 = x /\ lo * z = l * y /\ hi * z = h * y
  <2>1. \A p, q \in Int : p > 0 /\ q > 0 => p * q > 0 /\ p * q \in Int
    OBVIOUS
  <2>2. z \in Int /\ z > 0 /\ x * 1 = x
    BY <1>8, <1>9, <2>1
  <2>3. lo * z = l * y /\ hi * z = h * y
    BY <1>8, <1>9
  <2> QED
    BY <2>2, <2>3
<1>12. Worth(f, x, z)
  BY <1>10, <1>11 DEF z
<1> HIDE DEF z, f
<1>13. lo * z <= x /\ x <= hi * z
  BY <1>9, <1>11
<1>14. Within(lo, f, hi)
  BY <1>9, <1>11, <1>12, <1>13, WithinWorth
<1> QED
  BY <1>7, <1>14

(* Rsi reads from 0 to 100.                                                *)
LEMMA RsiWithin ==
    ASSUME NEW cs \in Seq(Candles), NEW i \in 1..Len(cs), NEW period \in Nat, period > 1,
           Rsi(cs, period)[i] # None
    PROVE  Within(0, Rsi(cs, period)[i], 100)
<1> DEFINE n == Len(cs)
           m == Between1(n)
           ups == Rises(cs)
           downs == Falls(cs)
           k == i - 1
           gain == Smoothed(ups, period, Wilder(period))[k]
           loss == Smoothed(downs, period, Wilder(period))[k]
           x == gain.num * loss.den
           y == loss.num * gain.den
           r == RsiReading(gain, loss)
<1>1. n \in Nat /\ Listed(cs, n) /\ \A j \in 1..n : cs[j] \in Candles
  BY PastReads DEF Listed
<1>2. \A j \in 1..n : cs[j].close \in Int
  BY <1>1, CandlesWhole
<1>3. i > period /\ Rsi(cs, period)[i] = r
  <2>1. Rsi(cs, period) =
            [j \in 1..n |-> IF j <= period THEN None
                            ELSE RsiReading(Smoothed(ups, period, Wilder(period))[j - 1],
                                            Smoothed(downs, period, Wilder(period))[j - 1])]
    BY <1>1, <1>2, RsiReads
  <2> HIDE DEF ups, downs
  <2> QED
    BY <1>1, <2>1
<1>4. /\ Listed(ups, m) /\ Listed(downs, m)
      /\ \A j \in 1..m : Gain(ups[j]) /\ Gain(downs[j])
  BY <1>1, <1>2, MovesAreGains
<1>5. k \in 1..m /\ k >= period
  BY <1>1, <1>3 DEF Between1
<1> HIDE DEF ups, downs, m
<1>6. Gain(gain) /\ Gain(loss)
  <2> HIDE DEF k
  <2> QED
    BY <1>4, <1>5, SmoothedGain
<1> HIDE DEF gain, loss
<1>7. /\ gain.num \in Int /\ gain.num >= 0 /\ gain.den \in Int /\ gain.den > 0
      /\ loss.num \in Int /\ loss.num >= 0 /\ loss.den \in Int /\ loss.den > 0
      /\ loss.num = 0 => loss = Zero
  BY <1>6, WorthSelf DEF Gain
<1>8. x \in Int /\ x >= 0 /\ y \in Int /\ y >= 0 /\ (y = 0 <=> loss.num = 0)
  <2>1. \A p, q \in Int : p >= 0 /\ q > 0 => p * q \in Int /\ p * q >= 0 /\ (p * q = 0 <=> p = 0)
    OBVIOUS
  <2> QED
    BY <1>7, <2>1
<1>9. CASE x + y > 0
  <2>1. Worth(r, 100 * x, x + y)
    BY <1>6, <1>9, RsiReadingWorth
  <2> HIDE DEF r, x, y
  <2> DEFINE a == 100 * x
             b == x + y
  <2>2. a \in Int /\ b \in Int /\ b > 0 /\ 0 * b <= a /\ a <= 100 * b /\ 0 \in Int /\ 100 \in Int
    BY <1>8, <1>9
  <2>3. Worth(r, a, b)
    BY <2>1
  <2> HIDE DEF a, b
  <2>4. Within(0, r, 100)
    BY <2>2, <2>3, WithinWorth
  <2> QED
    BY <1>3, <2>4 DEF r
<1>10. CASE ~(x + y > 0)
  <2>1. loss = Zero
    BY <1>7, <1>8, <1>10
  <2>2. r = Whole(100)
    BY <2>1 DEF RsiReading, Hundred
  <2> HIDE DEF r
  <2>3. Within(0, Whole(100), 100)
    BY WithinWhole
  <2> QED
    BY <1>3, <2>2, <2>3 DEF r
<1> QED
  BY <1>9, <1>10

(* A true range lies between zero and the highs of both candles.           *)
LEMMA TrueRangeWithin ==
    ASSUME NEW p \in Candles, NEW c \in Candles, NEW hi \in Int, p.high <= hi, c.high <= hi
    PROVE  Within(0, TrueRange(p, c), hi)
<1> DEFINE h == c.high
           l == c.low
           x == p.close
           Gap(a, b) == IF a <= b THEN b - a ELSE a - b
           s == <<Whole(h - l), Distance(Whole(h), Whole(x)), Distance(Whole(l), Whole(x))>>
<1>1. h \in Nat /\ l \in Nat /\ x \in Nat /\ l <= h /\ h <= hi /\ x <= hi
  <2>1. /\ c.low \in Nat /\ c.close \in Nat /\ c.high \in Nat
        /\ c.low <= c.close /\ c.close <= c.high
    BY CandlesWhole
  <2>2. p.close \in Nat /\ p.high \in Nat /\ p.close <= p.high
    BY CandlesWhole
  <2> QED
    BY <2>1, <2>2
<1>2. TrueRange(p, c) = Greatest(s)
  BY DEF TrueRange
<1> HIDE DEF h, l, x
<1>3. ASSUME NEW a \in Nat, NEW b \in Nat
      PROVE  Distance(Whole(a), Whole(b)) = Whole(Gap(a, b))
  <2>1. CASE a <= b
    BY <2>1, WholeOrder, WholeMinus DEF Distance
  <2>2. CASE ~(a <= b)
    BY <2>2, WholeOrder, WholeMinus DEF Distance
  <2> QED
    BY <2>1, <2>2
<1> DEFINE u == h - l
           v == Gap(h, x)
           w == Gap(l, x)
<1>4. /\ u \in Int /\ 0 <= u /\ u <= hi /\ v \in Int /\ 0 <= v /\ v <= hi
      /\ w \in Int /\ 0 <= w /\ w <= hi
  BY <1>1
<1>5. s = <<Whole(u), Whole(v), Whole(w)>>
  <2>1. Distance(Whole(h), Whole(x)) = Whole(v) /\ Distance(Whole(l), Whole(x)) = Whole(w)
    BY <1>1, <1>3
  <2> HIDE DEF v, w
  <2> QED
    BY <2>1
<1> HIDE DEF u, v, w
<1>6. Within(0, Whole(u), hi) /\ Within(0, Whole(v), hi) /\ Within(0, Whole(w), hi)
  BY <1>4, WithinWhole
<1>7. /\ Len(s) = 3 /\ DOMAIN s = 1..Len(s)
      /\ \A i \in 1..3 : s[i] \in {Whole(u), Whole(v), Whole(w)}
  <2> DEFINE e == Whole(u)
             f == Whole(v)
             g == Whole(w)
  <2> HIDE DEF e, f, g
  <2>1. s = <<e, f, g>>
    BY <1>5 DEF e, f, g
  <2> HIDE DEF s
  <2>2. Len(s) = 3 /\ DOMAIN s = 1..3 /\ s[1] = e /\ s[2] = f /\ s[3] = g
    BY <2>1
  <2>3. \A i \in 1..3 : i = 1 \/ i = 2 \/ i = 3
    OBVIOUS
  <2> QED
    BY <2>2, <2>3 DEF e, f, g
<1> HIDE DEF s
<1>8. Fractional(s) /\ Len(s) # 0
  BY <1>4, <1>7, WholeRational DEF Fractional
<1>9. PICK i \in 1..Len(s) : s[i] = Greatest(s)
  BY <1>7, <1>8, ExtremesOf
<1> QED
  BY <1>2, <1>6, <1>7, <1>9

(* Atr lies between zero and the highest high.                             *)
LEMMA AtrWithin ==
    ASSUME NEW cs \in Seq(Candles), NEW i \in 1..Len(cs), NEW period \in Nat, period > 1,
           NEW hi \in Int, \A j \in 1..i : cs[j].high <= hi,
           Atr(cs, period)[i] # None
    PROVE  Within(0, Atr(cs, period)[i], hi)
<1> DEFINE n == Len(cs)
           ranges == [j \in 1..n - 1 |-> TrueRange(cs[j], cs[j + 1])]
           m == Between1(n)
           smooth == Smoothed(ranges, period, Wilder(period))
           k == i - 1
<1>1. n \in Nat /\ i \in 1..n /\ \A j \in 1..n : cs[j] \in Candles
  BY PastReads DEF Listed
<1>2. Atr(cs, period)[i] = IF i = 1 THEN None ELSE smooth[k]
  BY <1>1 DEF Atr
<1>3. i # 1 /\ Atr(cs, period)[i] = smooth[k]
  BY <1>2
<1>4. m \in Nat /\ 1..n - 1 = 1..m /\ k \in 1..m /\ n - 1 = m
  BY <1>1, <1>3 DEF Between1
<1>5. ranges = [j \in 1..m |-> TrueRange(cs[j], cs[j + 1])]
  BY <1>4
<1> HIDE DEF ranges, m
<1>6. Listed(ranges, m)
  BY <1>4, <1>5 DEF Listed
<1>7. \A j \in 1..k : Within(0, ranges[j], hi)
  <2>1. ASSUME NEW j \in 1..k
        PROVE  Within(0, ranges[j], hi)
    <3>1. j \in 1..m /\ j \in 1..i /\ j + 1 \in 1..i /\ j \in 1..n /\ j + 1 \in 1..n
      BY <1>1, <1>4
    <3>2. ranges[j] = TrueRange(cs[j], cs[j + 1])
      BY <1>5, <3>1
    <3> QED
      BY <1>1, <3>1, <3>2, TrueRangeWithin
  <2> QED
    BY <2>1
<1>8. smooth = [j \in 1..m |-> smooth[j]]
  <2>1. Len(ranges) = m /\ Len(ranges) \in Nat
    BY <1>4, <1>6, ListIsSeq
  <2>2. Listed(smooth, m)
    BY <2>1, SmoothedReads
  <2> QED
    BY <2>2 DEF Listed
<1>9. k >= period
  <2>1. Len(ranges) = m /\ Len(ranges) \in Nat
    BY <1>4, <1>6, ListIsSeq
  <2>2. k < period => smooth[k] = None
    BY <1>4, <2>1, SmoothedReads
  <2>3. k \in Int /\ period \in Int
    BY <1>1
  <2> QED
    BY <1>3, <2>2, <2>3
<1>10. Within(0, smooth[k], hi)
  <2>1. Worth(Wilder(period), 1, period)
    BY WorthFraction DEF Wilder
  <2>2. period \in Int /\ 1 \in Int /\ 0 \in Int /\ 0 <= 1 /\ 1 <= period /\ period > 0
    OBVIOUS
  <2> HIDE DEF k
  <2> QED
    BY <1>4, <1>6, <1>7, <1>9, <2>1, <2>2, SmoothedWithin
<1> QED
  BY <1>3, <1>10

(* A fraction compares by any of its values.                               *)
LEMMA WorthCompare ==
    ASSUME NEW f, NEW n \in Int, NEW z \in Int, z > 0, Worth(f, n, z), NEW e \in Int, NEW d \in Int
    PROVE  /\ e * f.den <= f.num * d <=> e * z <= n * d
           /\ e * f.den < f.num * d <=> e * z < n * d
<1> DEFINE x == f.num
           y == f.den
<1>1. x \in Int /\ y \in Int /\ y > 0 /\ x * z = n * y
  BY DEF Worth, Rational
<1> HIDE DEF x, y
<1>2. \A p, q, r \in Int : r > 0 => (p <= q <=> p * r <= q * r) /\ (p < q <=> p * r < q * r)
  OBVIOUS
<1>3. e * y \in Int /\ x * d \in Int /\ e * z \in Int /\ n * d \in Int
  BY <1>1
<1>4. (e * y) * z = (e * z) * y /\ (x * d) * z = (n * d) * y
  <2>1. (e * y) * z = (e * z) * y
    BY <1>1
  <2>2. (x * d) * z = (x * z) * d /\ (n * d) * y = (n * y) * d
    BY <1>1
  <2> QED
    BY <1>1, <2>1, <2>2
<1>5. /\ e * y <= x * d <=> (e * y) * z <= (x * d) * z
      /\ e * y < x * d <=> (e * y) * z < (x * d) * z
      /\ e * z <= n * d <=> (e * z) * y <= (n * d) * y
      /\ e * z < n * d <=> (e * z) * y < (n * d) * y
  BY <1>1, <1>2, <1>3
<1> QED
  BY <1>4, <1>5 DEF x, y

(* Those of a list without losses that lie above some value.               *)
Far(s, t, n) == {j \in 1..n : Below(t, s[j])}

(* A total is at least so many times the value, and more if there are any. *)
LEMMA FarBelowTotal ==
    ASSUME NEW s, NEW n, Listed(s, n), \A i \in 1..n : s[i] \in Rational /\ s[i].num >= 0,
           NEW t \in Rational, t.num >= 0
    PROVE  LET k == Cardinality(Far(s, t, n))
           IN  /\ k \in Nat /\ Total(s) \in Rational
               /\ (k * t.num) * Total(s).den <= Total(s).num * t.den
               /\ k # 0 => (k * t.num) * Total(s).den < Total(s).num * t.den
<1> DEFINE c == t.num
           d == t.den
<1>1. n \in Nat /\ Len(s) = n
  BY ListIsSeq DEF Listed
<1>2. PICK g : /\ g[0] = Zero
               /\ \A i \in 1..n : g[i] = Plus(g[i - 1], s[i])
               /\ Total(s) = g[n]
  BY <1>1, TotalUnfolds
<1>3. c \in Int /\ c >= 0 /\ d \in Int /\ d > 0
  BY DEF Rational
<1> HIDE DEF c, d
<1> DEFINE K(m) == Cardinality(Far(s, t, m))
           Good(m) == /\ IsFiniteSet(Far(s, t, m)) /\ K(m) \in Nat /\ g[m] \in Rational
                      /\ (K(m) * c) * g[m].den <= g[m].num * d
                      /\ K(m) # 0 => (K(m) * c) * g[m].den < g[m].num * d
           Bad == {m \in 0..n : ~Good(m)}
<1>4. ASSUME Bad # {}
      PROVE  FALSE
  <2>1. PICK m \in Bad : \A k \in Bad : m <= k
    <3> HIDE DEF Good
    <3>1. Bad \in SUBSET Nat
      BY <1>1
    <3> HIDE DEF Bad
    <3> QED
      BY <1>4, <3>1, LeastNumber
  <2>2. CASE m = 0
    <3>1. Far(s, t, 0) = {}
      BY DEF Far
    <3>2. IsFiniteSet(Far(s, t, 0)) /\ K(0) = 0
      BY <3>1, FS_EmptySet
    <3>3. g[0] \in Rational /\ g[0].num = 0 /\ g[0].den = 1
      BY <1>2, WholeRational, WholeOrder DEF Zero
    <3>4. (0 * c) * 1 = 0 /\ 0 * d = 0
      BY <1>3
    <3>5. Good(0)
      BY <3>2, <3>3, <3>4
    <3> HIDE DEF Good
    <3> QED
      BY <2>2, <3>5
  <2>3. CASE m # 0
    <3>1. m - 1 \in 0..n /\ ~(m <= m - 1) /\ m \in 1..n /\ m - 1 \in Nat
      BY <1>1, <2>3
    <3>2. Good(m - 1)
      <4> HIDE DEF Good
      <4> QED
        BY <2>1, <3>1
    <3> DEFINE p == g[m - 1]
               q == s[m]
               f == g[m]
               k == K(m - 1)
               x == p.num
               y == p.den
               u == q.num
               v == q.den
               before == Far(s, t, m - 1)
               after == Far(s, t, m)
    <3>3. /\ f = Plus(p, q) /\ p \in Rational /\ q \in Rational
          /\ u >= 0 /\ k \in Nat /\ IsFiniteSet(before) /\ k = Cardinality(before)
          /\ (k * c) * y <= x * d /\ (k # 0 => (k * c) * y < x * d)
      BY <1>2, <3>1, <3>2
    <3>4. Below(t, q) <=> c * v < u * d
      BY DEF Below, c, d
    <3>5. after = IF Below(t, q) THEN before \cup {m} ELSE before
      <4>1. 1..m = 1..m - 1 \cup {m}
        BY <3>1
      <4> QED
        BY <4>1 DEF Far
    <3>6. m \notin before
      BY <3>1 DEF Far
    <3>7. f = g[m] /\ K(m) = Cardinality(after)
      OBVIOUS
    <3> HIDE DEF p, q, f, k, before, after, Good, K
    <3>8. /\ Worth(p, x, y) /\ x \in Int /\ y \in Int /\ y > 0
          /\ Worth(q, u, v) /\ u \in Int /\ v \in Int /\ v > 0
      BY <3>3, WorthSelf
    <3> HIDE DEF x, y, u, v
    <3>9. Worth(f, x * v + u * y, y * v)
      BY <3>3, <3>8, WorthPlus
    <3> DEFINE a == x * v + u * y
               b == y * v
    <3>10. a \in Int /\ b \in Int /\ b > 0 /\ Worth(f, a, b) /\ f \in Rational
      <4>1. \A i, j \in Int : i > 0 /\ j > 0 => i * j > 0 /\ i * j \in Int
        OBVIOUS
      <4>2. b > 0 /\ b \in Int
        BY <3>8, <4>1
      <4>3. a \in Int
        BY <3>8
      <4> QED
        BY <3>9, <4>2, <4>3 DEF Worth
    <3>11. a * d = (x * d) * v + (u * d) * y
      BY <1>3, <3>8
    <3>12. \A i \in Int : /\ (i * c) * b = ((i * c) * y) * v
                          /\ ((i + 1) * c) * b = ((i * c) * y) * v + (c * v) * y
      BY <1>3, <3>8
    <3> HIDE DEF a, b
    <3>13. /\ x * d \in Int /\ u * d \in Int /\ u * d >= 0 /\ c * v \in Int /\ (k * c) * y \in Int
      <4>1. \A i, j \in Int : i >= 0 /\ j > 0 => i * j >= 0 /\ i * j \in Int
        OBVIOUS
      <4> QED
        BY <1>3, <3>3, <3>8, <4>1
    <3>14. /\ \A i, j, l \in Int : l > 0 => (i <= j => i * l <= j * l) /\ (i < j => i * l < j * l)
           /\ \A i, l \in Int : l > 0 /\ i >= 0 => i * l >= 0
           /\ \A i, l \in Int : i * l \in Int
      OBVIOUS
    <3>15. /\ ((k * c) * y) * v <= (x * d) * v /\ (k # 0 => ((k * c) * y) * v < (x * d) * v)
           /\ ((k * c) * y) * v \in Int /\ (x * d) * v \in Int
           /\ (u * d) * y \in Int /\ (u * d) * y >= 0 /\ (c * v) * y \in Int
           /\ (c * v < u * d => (c * v) * y < (u * d) * y)
      <4> DEFINE e == (k * c) * y
                 h == x * d
                 i == u * d
                 j == c * v
      <4>1. e \in Int /\ h \in Int /\ i \in Int /\ i >= 0 /\ j \in Int /\ e <= h /\ (k # 0 => e < h)
        BY <3>3, <3>13
      <4> HIDE DEF e, h, i, j
      <4>2. e * v <= h * v /\ (k # 0 => e * v < h * v) /\ (j < i => j * y < i * y) /\ i * y >= 0
        BY <3>8, <3>14, <4>1
      <4>3. e * v \in Int /\ h * v \in Int /\ i * y \in Int /\ j * y \in Int
        BY <3>8, <3>14, <4>1
      <4> QED
        BY <4>2, <4>3 DEF e, h, i, j
    <3>16. CASE Below(t, q)
      <4>1. IsFiniteSet(after) /\ Cardinality(after) = k + 1
        BY <3>3, <3>5, <3>6, <3>16, FS_AddElement
      <4>2. ((k + 1) * c) * b < a * d
        BY <3>3, <3>4, <3>11, <3>12, <3>15, <3>16
      <4> DEFINE e == (k + 1) * c
      <4>3. e \in Int /\ k + 1 \in Nat
        BY <1>3, <3>3
      <4> HIDE DEF e
      <4>4. e * b < a * d
        BY <4>2 DEF e
      <4>5. e * f.den < f.num * d
        BY <1>3, <3>10, <4>3, <4>4, WorthCompare
      <4>6. (k + 1) * c = e
        BY DEF e
      <4>7. e * f.den <= f.num * d
        <5>1. e * f.den \in Int /\ f.num * d \in Int
          BY <1>3, <3>10, <4>3 DEF Rational
        <5> QED
          BY <4>5, <5>1
      <4>8. Good(m)
        BY <3>7, <3>10, <4>1, <4>3, <4>5, <4>6, <4>7 DEF Good, after, K, f
      <4> QED
        BY <4>8
    <3>17. CASE ~Below(t, q)
      <4>1. IsFiniteSet(after) /\ Cardinality(after) = k
        BY <3>3, <3>5, <3>17
      <4>2. (k * c) * b <= a * d /\ (k # 0 => (k * c) * b < a * d)
        <5>1. (k * c) * b = ((k * c) * y) * v
          BY <3>3, <3>12
        <5> QED
          BY <3>11, <3>15, <5>1
      <4> DEFINE e == k * c
      <4>3. e \in Int
        BY <1>3, <3>3
      <4> HIDE DEF e
      <4>4. e * b <= a * d /\ (k # 0 => e * b < a * d)
        BY <4>2 DEF e
      <4>5. e * f.den <= f.num * d /\ (k # 0 => e * f.den < f.num * d)
        BY <1>3, <3>10, <4>3, <4>4, WorthCompare
      <4>6. k * c = e
        BY DEF e
      <4>7. Good(m)
        BY <3>3, <3>7, <3>10, <4>1, <4>5, <4>6 DEF Good, after, K, f
      <4> QED
        BY <4>7
    <3> QED
      BY <3>16, <3>17
  <2> QED
    BY <2>2, <2>3
<1>5. Good(n)
  <2> HIDE DEF Good
  <2> QED
    BY <1>1, <1>4
<1> QED
  BY <1>2, <1>5 DEF c, d

(* A square is not negative.                                               *)
LEMMA SquareNatural ==
    ASSUME NEW p \in Rational
    PROVE  Square(p) \in Rational /\ Square(p).num >= 0
<1> DEFINE x == p.num
           y == p.den
           f == Square(p)
<1>1. Worth(p, x, y) /\ x \in Int /\ y \in Int /\ y > 0
  BY WorthSelf
<1> HIDE DEF x, y
<1>2. Worth(f, x * x, y * y)
  BY <1>1, WorthTimes DEF Square
<1> DEFINE a == x * x
           b == y * y
<1>3. a \in Int /\ a >= 0 /\ b \in Int /\ b > 0 /\ Worth(f, a, b)
  <2>1. \A i \in Int : i * i >= 0 /\ i * i \in Int /\ (i > 0 => i * i > 0)
    OBVIOUS
  <2> QED
    BY <1>1, <1>2, <2>1
<1> HIDE DEF a, b, f
<1>4. ~(f.num < 0) /\ f \in Rational /\ f.num \in Int
  BY <1>3, WorthSign DEF Worth, Rational
<1>5. f.num >= 0
  BY <1>4
<1> QED
  BY <1>4, <1>5 DEF f

(* Fewer than one in num_std^2 of a list are further from its mean than    *)
(* num_std deviations (Chebyshev's inequality).                            *)
LEMMA FewFarFromMean ==
    ASSUME NEW w, NEW n \in Nat \ {0}, Listed(w, n), \A i \in 1..n : w[i] \in Rational,
           NEW num_std \in Int
    PROVE  LET middle == Mean(w)
               variance == Mean(Each(LAMBDA c : Square(Minus(c, middle)), w))
               spread == Times(Whole(num_std * num_std), variance)
               outside == {j \in 1..n : Below(spread, Square(Minus(w[j], middle)))}
           IN  Cardinality(outside) * num_std * num_std < n
<1> DEFINE middle == Mean(w)
           s == Each(LAMBDA c : Square(Minus(c, middle)), w)
           variance == Mean(s)
           e == num_std * num_std
           t == Times(Whole(e), variance)
           outside == {j \in 1..n : Below(t, Square(Minus(w[j], middle)))}
           k == Cardinality(outside)
           total == Total(s)
<1>1. Len(w) = n /\ n \in Int /\ n > 0
  <2>1. Len(w) = n
    BY ListIsSeq
  <2> QED
    BY <2>1
<1>2. middle \in Rational
  BY <1>1, MeanRational DEF Fractional
<1> HIDE DEF middle
<1>3. s = [j \in 1..n |-> Square(Minus(w[j], middle))]
  BY <1>1 DEF Each
<1> HIDE DEF s
<1>4. Listed(s, n) /\ \A j \in 1..n : s[j] \in Rational /\ s[j].num >= 0
  <2>1. \A j \in 1..n : Minus(w[j], middle) \in Rational
    BY <1>2, RationalClosed
  <2> QED
    BY <1>3, <2>1, SquareNatural DEF Listed
<1>5. outside = Far(s, t, n)
  BY <1>3 DEF Far
<1>6. Len(s) = n /\ total \in Rational
  BY <1>4, ListIsSeq, TotalRational DEF Fractional
<1>7. variance = Over(total, Whole(n))
  BY <1>6 DEF Mean
<1> HIDE DEF total, variance, t, outside
<1> DEFINE a == total.num
           b == total.den
           z == b * n
           c == t.num
           d == t.den
<1>8. Worth(total, a, b) /\ a \in Int /\ b \in Int /\ b > 0
  BY <1>6, WorthSelf
<1>9. total.num >= 0
  <2> DEFINE none == Cardinality(Far(s, Zero, n))
  <2>1. Zero \in Rational /\ Zero.num = 0 /\ Zero.den = 1
    BY WholeRational, WholeOrder DEF Zero
  <2>2. none \in Nat /\ (none * Zero.num) * Total(s).den <= Total(s).num * Zero.den
    BY <1>4, <2>1, FarBelowTotal
  <2> HIDE DEF none
  <2>3. (none * 0) * b <= a * 1
    BY <2>1, <2>2 DEF total
  <2> HIDE DEF a, b
  <2>4. 0 <= a
    BY <1>8, <2>2, <2>3
  <2> QED
    BY <1>8, <2>4 DEF a
<1>10. Worth(Whole(n), n, 1) /\ Whole(n).num > 0 /\ e \in Int /\ e >= 0 /\ Worth(Whole(e), e, 1)
  <2>1. \A i \in Int : i * i \in Int /\ i * i >= 0
    OBVIOUS
  <2>2. e \in Int /\ e >= 0
    BY <2>1
  <2> HIDE DEF e
  <2> QED
    BY <1>1, <2>2, WorthWhole, WholeOrder
<1>11. a >= 0
  BY <1>9
<1> HIDE DEF a, b, e
<1>12. z \in Int /\ z > 0
  <2>1. \A i, j \in Int : i > 0 /\ j > 0 => i * j \in Int /\ i * j > 0
    OBVIOUS
  <2> QED
    BY <1>1, <1>8, <2>1
<1>13. Worth(variance, a, z)
  <2>1. Worth(variance, a * 1, b * n)
    BY <1>1, <1>7, <1>8, <1>10, WorthOver
  <2>2. a * 1 = a
    BY <1>8
  <2> QED
    BY <2>1, <2>2
<1> HIDE DEF z
<1>14. Worth(t, e * a, z)
  <2>1. Worth(t, e * a, 1 * z)
    BY <1>8, <1>10, <1>12, <1>13, WorthTimes DEF t
  <2>2. 1 * z = z
    BY <1>12
  <2> QED
    BY <2>1, <2>2
<1>15. t \in Rational /\ c \in Int /\ d \in Int /\ d > 0 /\ c * z = (e * a) * d
  BY <1>14 DEF Worth, Rational
<1>16. c >= 0
  <2> DEFINE f == e * a
  <2>1. f \in Int /\ f >= 0
    <3>1. \A i, j \in Int : i >= 0 /\ j >= 0 => i * j \in Int /\ i * j >= 0
      OBVIOUS
    <3> QED
      BY <1>8, <1>10, <1>11, <3>1
  <2>2. Worth(t, f, z)
    BY <1>14
  <2> HIDE DEF f
  <2>3. ~(t.num < 0)
    BY <1>12, <2>1, <2>2, WorthSign
  <2> QED
    BY <1>15, <2>3
<1>17. k \in Nat /\ (k # 0 => (k * c) * b < a * d)
  BY <1>4, <1>5, <1>15, <1>16, FarBelowTotal DEF a, b, total
<1> HIDE DEF c, d, k
<1>18. CASE k = 0
  <2>1. k * num_std * num_std = 0
    BY <1>18
  <2> QED
    BY <1>1, <2>1 DEF k, outside, t, variance, s, middle, e
<1>19. CASE k # 0
  <2> DEFINE f == a * d
             g == k * c
  <2>1. g * b < f /\ f \in Int /\ g \in Int /\ g * b \in Int /\ g * b >= 0
    <3>1. \A i, j \in Int : i >= 0 /\ j >= 0 => i * j \in Int /\ i * j >= 0
      OBVIOUS
    <3>2. g \in Int /\ g >= 0 /\ f \in Int
      BY <1>8, <1>11, <1>15, <1>16, <1>17, <3>1
    <3> QED
      BY <1>8, <1>17, <1>19, <3>1, <3>2
  <2> HIDE DEF g
  <2>2. f > 0
    BY <2>1
  <2>3. (g * b) * n < f * n
    <3>1. \A i, j, l \in Int : l > 0 /\ i < j => i * l < j * l
      OBVIOUS
    <3> HIDE DEF f
    <3> QED
      BY <1>1, <2>1, <3>1
  <2>4. (g * b) * n = (k * e) * f
    <3>1. (g * b) * n = g * z
      BY <1>1, <1>8, <2>1 DEF z
    <3>2. g * z = k * (c * z)
      BY <1>12, <1>15, <1>17 DEF g
    <3>3. k * ((e * a) * d) = (k * e) * (a * d)
      BY <1>8, <1>10, <1>15, <1>17
    <3> QED
      BY <1>15, <3>1, <3>2, <3>3
  <2> HIDE DEF f
  <2>5. k * e \in Int
    BY <1>10, <1>17
  <2>6. k * e < n
    <3>1. \A i, j, l \in Int : l > 0 /\ i * l < j * l => i < j
      OBVIOUS
    <3>2. n * f = f * n
      BY <1>1, <2>1
    <3>3. (k * e) * f < n * f
      BY <2>3, <2>4, <3>2
    <3> QED
      BY <1>1, <2>1, <2>2, <2>5, <3>1, <3>3
  <2>7. k * num_std * num_std = k * e
    BY <1>17 DEF e
  <2> QED
    BY <2>6, <2>7 DEF k, outside, t, variance, s, middle, e
<1> QED
  BY <1>18, <1>19

(* Averages within what was averaged, rsi within 0 and 100, the bands      *)
(* around all but one in NumStd^2 of their closes (src/ta/indicators.py).  *)
THEOREM ReadingsInRangeHolds == ViewSpec => []ReadingsInRange
<1>1. ViewTypeOK => ReadingsInRange
  <2> SUFFICES ASSUME ViewTypeOK, NEW i \in 1..Len(candles)
               PROVE  LET past == SubSeq(candles, 1, i)
                          closes == Closes(past)
                          lows == Each(LAMBDA c : Whole(c.low), past)
                          highs == Each(LAMBDA c : Whole(c.high), past)
                          band == BollingerBands(candles, Period, NumStd)[i]
                          window == Window(closes, i, Period)
                          outside ==
                              {j \in 1..Period :
                                   Below(band.spread, Square(Minus(window[j], band.middle)))}
                      IN  /\ Between(Least(closes), Sma(candles, Period)[i], Greatest(closes))
                          /\ Between(Least(closes), Ema(candles, Period)[i], Greatest(closes))
                          /\ Between(Least(lows), Vwap(candles)[i], Greatest(highs))
                          /\ Between(Zero, Atr(candles, Period)[i], Greatest(highs))
                          /\ Between(Zero, Rsi(candles, Period)[i], Hundred)
                          /\ band # None => Cardinality(outside) * NumStd * NumStd < Period
    BY DEF ReadingsInRange
  <2> DEFINE n == Len(candles)
             past == SubSeq(candles, 1, i)
             closes == Closes(past)
             lows == Each(LAMBDA c : Whole(c.low), past)
             highs == Each(LAMBDA c : Whole(c.high), past)
             band == BollingerBands(candles, Period, NumStd)[i]
             window == Window(closes, i, Period)
             outside ==
                 {j \in 1..Period : Below(band.spread, Square(Minus(window[j], band.middle)))}
  <2>1. /\ candles \in Seq(Candles) /\ Period \in Nat \ {0} /\ Period > 1 /\ NumStd \in Int
        /\ i \in 1..n /\ n \in Nat /\ Period \in Nat
    BY ViewAssumption, LenProperties DEF ViewTypeOK
  <2>2. /\ \E lo, hi \in Int :
               /\ Least(closes) = Whole(lo) /\ Greatest(closes) = Whole(hi)
               /\ \A j \in 1..i : lo <= candles[j].close /\ candles[j].close <= hi
        /\ \E lo \in Int : Least(lows) = Whole(lo) /\ \A j \in 1..i : lo <= candles[j].low
        /\ \E hi \in Int : Greatest(highs) = Whole(hi) /\ \A j \in 1..i : candles[j].high <= hi
    BY <2>1, PastExtremes
  <2> HIDE DEF lows, highs
  <2>3. \A f : \A lo, hi \in Int : Within(lo, f, hi) => Between(Whole(lo), f, Whole(hi))
    BY DEF Within, Between
  <2>4. /\ Between(Least(closes), Sma(candles, Period)[i], Greatest(closes))
        /\ Between(Least(closes), Ema(candles, Period)[i], Greatest(closes))
    <3>1. PICK lo, hi \in Int :
              /\ Least(closes) = Whole(lo) /\ Greatest(closes) = Whole(hi)
              /\ \A j \in 1..i : lo <= candles[j].close /\ candles[j].close <= hi
      BY <2>2
    <3> HIDE DEF closes
    <3>2. CASE i >= Period
      <4>1. Within(lo, Sma(candles, Period)[i], hi) /\ Within(lo, Ema(candles, Period)[i], hi)
        BY <2>1, <3>1, <3>2, AveragesWithin
      <4> QED
        BY <2>3, <3>1, <4>1
    <3>3. CASE ~(i >= Period)
      <4>1. i < Period
        BY <2>1, <3>3
      <4>2. Sma(candles, Period)[i] = None
        BY <2>1, <4>1 DEF Sma
      <4>3. Len(Closes(candles)) \in Nat /\ Len(Closes(candles)) = n
        <5>1. Closes(candles) = [j \in 1..n |-> Whole(candles[j].close)]
          BY DEF Closes, Each
        <5>2. Listed(Closes(candles), n)
          BY <2>1, <5>1 DEF Listed
        <5> QED
          BY <2>1, <5>2, ListIsSeq
      <4> DEFINE s == Closes(candles)
      <4> HIDE DEF s
      <4>4. Len(s) \in Nat /\ i \in 1..Len(s)
        BY <2>1, <4>3 DEF s
      <4>5. Smoothed(s, Period, Exponential(Period))[i] = None
        BY <2>1, <4>1, <4>4, SmoothedReads
      <4>6. Ema(candles, Period)[i] = None
        BY <4>5 DEF s, Ema
      <4> QED
        BY <4>2, <4>6 DEF Between
    <3> QED
      BY <3>2, <3>3
  <2>5. Between(Least(lows), Vwap(candles)[i], Greatest(highs))
    <3>1. PICK lo \in Int : Least(lows) = Whole(lo) /\ \A j \in 1..i : lo <= candles[j].low
      BY <2>2
    <3>2. PICK hi \in Int : Greatest(highs) = Whole(hi) /\ \A j \in 1..i : candles[j].high <= hi
      BY <2>2
    <3>3. Vwap(candles)[i] # None => Within(lo, Vwap(candles)[i], hi)
      BY <2>1, <3>1, <3>2, VwapWithin
    <3> QED
      BY <2>3, <3>1, <3>2, <3>3 DEF Between
  <2>6. Between(Zero, Atr(candles, Period)[i], Greatest(highs))
    <3>1. PICK hi \in Int : Greatest(highs) = Whole(hi) /\ \A j \in 1..i : candles[j].high <= hi
      BY <2>2
    <3>2. Atr(candles, Period)[i] # None => Within(0, Atr(candles, Period)[i], hi)
      BY <2>1, <3>1, AtrWithin
    <3> QED
      BY <2>3, <3>1, <3>2 DEF Between, Zero
  <2>7. Between(Zero, Rsi(candles, Period)[i], Hundred)
    <3>1. Rsi(candles, Period)[i] # None => Within(0, Rsi(candles, Period)[i], 100)
      BY <2>1, RsiWithin
    <3> QED
      BY <2>3, <3>1 DEF Between, Zero, Hundred
  <2>8. ASSUME band # None
        PROVE  Cardinality(outside) * NumStd * NumStd < Period
    <3> DEFINE all == Closes(candles)
               w == Window(all, i, Period)
               middle == Mean(w)
               variance == Mean(Each(LAMBDA c : Square(Minus(c, middle)), w))
               spread == Times(Whole(NumStd * NumStd), variance)
    <3>1. i >= Period /\ band = [middle |-> middle, spread |-> spread]
      <4>1. band = IF i < Period THEN None ELSE [middle |-> middle, spread |-> spread]
        BY <2>1 DEF BollingerBands
      <4> HIDE DEF band, w
      <4> QED
        BY <2>1, <2>8, <4>1
    <3>2. /\ Listed(all, n) /\ Listed(closes, i)
          /\ \A j \in 1..i : closes[j] = all[j] /\ all[j] \in Rational
      <4>1. /\ Len(past) = i
            /\ \A j \in 1..i : past[j] = candles[j] /\ candles[j] \in Candles /\ j \in 1..n
        BY <2>1, PastReads
      <4>2. all = [j \in 1..n |-> Whole(candles[j].close)]
        BY DEF Closes, Each
      <4> HIDE DEF past
      <4>3. closes = [j \in 1..i |-> Whole(candles[j].close)]
        BY <4>1 DEF Closes, Each
      <4>4. \A j \in 1..i : Whole(candles[j].close) \in Rational
        BY <4>1, CandlesWhole, WholeRational
      <4> HIDE DEF all, closes
      <4> QED
        BY <2>1, <4>1, <4>2, <4>3, <4>4 DEF Listed
    <3> HIDE DEF all, closes
    <3>3. /\ Listed(w, Period) /\ Listed(window, Period)
          /\ \A j \in 1..Period : w[j] \in Rational /\ window[j] = w[j]
      <4>1. /\ Listed(w, Period)
            /\ \A j \in 1..Period : w[j] = all[i - Period + j] /\ i - Period + j \in 1..i
        BY <2>1, <3>1, <3>2, WindowReads
      <4>2. /\ Listed(window, Period)
            /\ \A j \in 1..Period : window[j] = closes[i - Period + j]
        <5>1. i \in 1..i
          BY <2>1
        <5> QED
          BY <2>1, <3>1, <3>2, <5>1, WindowReads
      <4> QED
        BY <3>2, <4>1, <4>2
    <3> HIDE DEF w, window, band
    <3>4. Cardinality({j \in 1..Period : Below(spread, Square(Minus(w[j], middle)))})
              * NumStd * NumStd < Period
      BY <2>1, <3>3, FewFarFromMean
    <3>5. outside = {j \in 1..Period : Below(spread, Square(Minus(w[j], middle)))}
      <4>1. band.middle = middle /\ band.spread = spread
        BY <3>1
      <4> HIDE DEF middle, spread
      <4> QED
        BY <3>3, <4>1
    <3> QED
      BY <3>4, <3>5
  <2> QED
    BY <2>4, <2>5, <2>6, <2>7, <2>8 DEF lows, highs
<1> QED
  BY <1>1, ViewTypeCorrect, PTL

-----------------------------------------------------------------------------
(* Strength.  A ratio is at least or at most a bound.                      *)

(* How a ratio compares with a bound.                                      *)
LEMMA RatioBounds ==
    ASSUME NEW f, NEW n \in Int, NEW d \in Int, d > 0, Worth(f, n, d),
           NEW a \in Int, NEW b \in Int, b > 0
    PROVE  /\ AtMost(Fraction(a, b), f) <=> a * d <= n * b
           /\ AtMost(f, Fraction(a, b)) <=> n * b <= a * d
<1> DEFINE g == Fraction(a, b)
<1>1. Worth(g, a, b)
  BY WorthFraction
<1> HIDE DEF g
<1>2. AtMost(g, f) <=> a * d <= n * b
  BY <1>1, WorthOrder
<1>3. AtMost(f, g) <=> n * b <= a * d
  BY <1>1, WorthOrder
<1> QED
  BY <1>2, <1>3 DEF g

(* The mood of a ratio between two bounds.                                 *)
LEMMA MoodOf ==
    ASSUME NEW ratio, NEW bull, NEW bear
    PROVE  Mood(Biased(ratio, bull, bear)) =
               IF AtMost(bull, ratio) THEN 1 ELSE IF AtMost(ratio, bear) THEN -1 ELSE 0
<1>1. Mood(Bullish) = 1 /\ Mood(Neutral) = 0 /\ Mood(Bearish) = -1
  BY DEF Mood, Bullish, Neutral, Bearish
<1> QED
  BY <1>1 DEF Biased

(* The mood of puts and calls.                                             *)
LEMMA PcrMood ==
    ASSUME NEW calls \in Nat \ {0}, NEW puts \in Nat
    PROVE  Mood(Pcr(calls, puts).bias) = IF 6 * calls <= 5 * puts THEN 1
                                         ELSE IF 10 * puts <= 7 * calls THEN -1 ELSE 0
<1> DEFINE ratio == Over(Whole(puts), Whole(calls))
<1>1. Pcr(calls, puts).bias = Biased(ratio, Fraction(6, 5), Fraction(7, 10))
  BY DEF Pcr
<1>2. Worth(ratio, puts, calls)
  <2>1. Worth(Whole(puts), puts, 1) /\ Worth(Whole(calls), calls, 1) /\ Whole(calls).num > 0
    BY WorthWhole, WholeOrder
  <2>2. Worth(ratio, puts * 1, 1 * calls)
    BY <2>1, WorthOver
  <2>3. puts * 1 = puts /\ 1 * calls = calls
    OBVIOUS
  <2> QED
    BY <2>2, <2>3
<1> HIDE DEF ratio
<1>3. AtMost(Fraction(6, 5), ratio) <=> 6 * calls <= puts * 5
  BY <1>2, RatioBounds
<1>4. AtMost(ratio, Fraction(7, 10)) <=> puts * 10 <= 7 * calls
  BY <1>2, RatioBounds
<1>5. puts * 5 = 5 * puts /\ puts * 10 = 10 * puts
  OBVIOUS
<1> QED
  BY <1>1, <1>3, <1>4, <1>5, MoodOf

(* The mood of advances and declines.                                      *)
LEMMA BreadthMoodReads ==
    ASSUME NEW a \in Nat, NEW d \in Nat
    PROVE  LET e == IF d = 0 THEN 1 ELSE d
           IN  BreadthMood(a, d) = IF 3 * e <= 2 * a THEN 1
                                   ELSE IF 100 * a <= 67 * e THEN -1 ELSE 0
<1> DEFINE e == IF d = 0 THEN 1 ELSE d
           ratio == IF d = 0 THEN Whole(a) ELSE Fraction(a, d)
<1>1. IndexBreadth(a, d).bias = Biased(ratio, Fraction(3, 2), Fraction(67, 100))
  BY DEF IndexBreadth
<1>2. Worth(ratio, a, e) /\ e \in Int /\ e > 0
  <2>1. d # 0 => d \in Int /\ d > 0
    OBVIOUS
  <2>2. d # 0 => Worth(Fraction(a, d), a, d)
    BY <2>1, WorthFraction
  <2> QED
    BY <2>1, <2>2, WorthWhole
<1> HIDE DEF e, ratio
<1>3. AtMost(Fraction(3, 2), ratio) <=> 3 * e <= a * 2
  BY <1>2, RatioBounds
<1>4. AtMost(ratio, Fraction(67, 100)) <=> a * 100 <= 67 * e
  BY <1>2, RatioBounds
<1>5. a * 2 = 2 * a /\ a * 100 = 100 * a
  OBVIOUS
<1>6. BreadthMood(a, d) = IF 3 * e <= 2 * a THEN 1 ELSE IF 100 * a <= 67 * e THEN -1 ELSE 0
  BY <1>1, <1>3, <1>4, <1>5, MoodOf DEF BreadthMood
<1> QED
  BY <1>6 DEF e

(* The number of the regime.                                               *)
LEMMA RegimeReads ==
    ASSUME NEW v \in Int
    PROVE  RegimeNow(v) = IF v < 12 THEN 1 ELSE IF v < 18 THEN 2 ELSE IF v < 25 THEN 3 ELSE 4
<1> DEFINE r == InterpretVix(v).regime
           k == IF v < 12 THEN 1 ELSE IF v < 18 THEN 2 ELSE IF v < 25 THEN 3 ELSE 4
           I == {i \in 1..Len(Regimes) : Regimes[i] = r}
<1>1. RegimeNow(v) = IF I # {} THEN Min(I) ELSE 0
  BY Zenon DEF RegimeNow, SelectInSeq
<1>2. r = IF v < 12 THEN "LOW_VOLATILITY" ELSE IF v < 18 THEN "NORMAL"
          ELSE IF v < 25 THEN "ELEVATED" ELSE "HIGH_FEAR"
  BY DEF InterpretVix
<1> HIDE DEF r
<1>3. /\ Len(Regimes) = 4 /\ Regimes[1] = "LOW_VOLATILITY" /\ Regimes[2] = "NORMAL"
      /\ Regimes[3] = "ELEVATED" /\ Regimes[4] = "HIGH_FEAR"
  BY DEF Regimes
<1>4. I = {k}
  <2>1. \A i \in 1..4 : i = 1 \/ i = 2 \/ i = 3 \/ i = 4
    OBVIOUS
  <2>2. \A i \in 1..4 : Regimes[i] = r <=> i = k
    BY <1>2, <1>3, <2>1
  <2>3. k \in 1..4
    OBVIOUS
  <2> HIDE DEF k
  <2> QED
    BY <1>3, <2>2, <2>3
<1>5. Min({k}) = k
  <2>1. k \in Int
    OBVIOUS
  <2> HIDE DEF k
  <2> QED
    BY <2>1, LeastIsMin
<1> QED
  BY <1>1, <1>4, <1>5

(* The levels.  Those ahead of a strike: more interest, or as much and     *)
(* earlier in the chain.                                                   *)
AheadIn(oi, n, i) == {j \in 1..n : oi[j] > oi[i] \/ (oi[j] = oi[i] /\ j < i)}

(* No two strikes have equally many ahead of them, and every number of     *)
(* them below the length of the chain is that of one strike.               *)
LEMMA RanksAreOne ==
    ASSUME NEW n \in Nat, NEW oi, \A i \in 1..n : oi[i] \in Int
    PROVE  /\ \A i \in 1..n : /\ IsFiniteSet(AheadIn(oi, n, i))
                              /\ Cardinality(AheadIn(oi, n, i)) \in 0..n - 1
           /\ \A i, j \in 1..n :
                  Cardinality(AheadIn(oi, n, i)) = Cardinality(AheadIn(oi, n, j)) => i = j
           /\ \A r \in 0..n - 1 : \E i \in 1..n : Cardinality(AheadIn(oi, n, i)) = r
<1> DEFINE A(i) == AheadIn(oi, n, i)
           rank == [i \in 1..n |-> Cardinality(A(i))]
<1>1. IsFiniteSet(1..n) /\ Cardinality(1..n) = n
  BY FirstNumbers
<1>2. ASSUME NEW i \in 1..n
      PROVE  IsFiniteSet(A(i)) /\ Cardinality(A(i)) \in 0..n - 1
  <2>1. A(i) \in SUBSET (1..n) /\ i \notin A(i)
    BY DEF AheadIn
  <2> DEFINE S == A(i)
  <2> HIDE DEF S
  <2>2. S \in SUBSET (1..n) /\ i \notin S
    BY <2>1 DEF S
  <2>3. IsFiniteSet(S) /\ Cardinality(S) <= n /\ (Cardinality(S) = n => S = 1..n)
    BY <1>1, <2>2, FS_Subset
  <2>4. Cardinality(S) \in Nat
    BY <2>3, FS_CardinalityType
  <2>5. Cardinality(S) # n
    BY <2>2, <2>3
  <2> QED
    BY <2>3, <2>4, <2>5 DEF S
<1>3. ASSUME NEW i \in 1..n, NEW j \in 1..n, i \in A(j)
      PROVE  Cardinality(A(i)) < Cardinality(A(j))
  <2>1. A(i) \in SUBSET A(j)
    <3>1. oi[i] \in Int /\ oi[j] \in Int /\ (oi[i] > oi[j] \/ (oi[i] = oi[j] /\ i < j))
      BY <1>3 DEF AheadIn
    <3>2. ASSUME NEW k \in 1..n, oi[k] > oi[i] \/ (oi[k] = oi[i] /\ k < i)
          PROVE  oi[k] > oi[j] \/ (oi[k] = oi[j] /\ k < j)
      BY <3>1, <3>2
    <3> QED
      BY <3>2 DEF AheadIn
  <2>2. i \notin A(i)
    BY DEF AheadIn
  <2> DEFINE S == A(i)
             T == A(j)
  <2>3. S \in SUBSET T /\ i \in T /\ i \notin S /\ IsFiniteSet(T)
    BY <1>2, <1>3, <2>1, <2>2
  <2>4. Cardinality(S) \in Int /\ Cardinality(T) \in Int
    BY <1>2
  <2> HIDE DEF S, T
  <2>5. Cardinality(S) <= Cardinality(T) /\ Cardinality(S) # Cardinality(T)
    BY <2>3, FS_Subset
  <2>6. Cardinality(S) < Cardinality(T)
    BY <2>4, <2>5
  <2> QED
    BY <2>6 DEF S, T
<1>4. ASSUME NEW i \in 1..n, NEW j \in 1..n, Cardinality(A(i)) = Cardinality(A(j))
      PROVE  i = j
  <2>1. i = j \/ i \in A(j) \/ j \in A(i)
    BY DEF AheadIn
  <2> HIDE DEF A
  <2> QED
    BY <1>2, <1>3, <1>4, <2>1
<1>5. rank \in Injection(1..n, 0..n - 1)
  <2>1. \A i \in 1..n : rank[i] = Cardinality(A(i))
    OBVIOUS
  <2>2. rank \in [1..n -> 0..n - 1]
    BY <1>2
  <2> HIDE DEF A, rank
  <2> QED
    BY <1>4, <2>1, <2>2 DEF Injection, IsInjective
<1>6. IsFiniteSet(0..n - 1) /\ Cardinality(0..n - 1) = n
  <2>1. IsFiniteSet(0..n - 1) /\ Cardinality(0..n - 1) = IF 0 > n - 1 THEN 0 ELSE n - 1 - 0 + 1
    BY FS_Interval
  <2> QED
    BY <2>1
<1> HIDE DEF A
<1>7. rank \in Surjection(1..n, 0..n - 1)
  <2> DEFINE T == 0..n - 1
             S == 1..n
             f == rank
  <2>1. /\ f \in Injection(S, T) /\ IsFiniteSet(T)
        /\ Cardinality(S) = Cardinality(T)
    BY <1>1, <1>5, <1>6
  <2> HIDE DEF T, S, f
  <2>2. f \in Surjection(S, T)
    BY <2>1, FS_Injection
  <2> QED
    BY <2>2 DEF T, S, f
<1>8. \A r \in 0..n - 1 : \E i \in 1..n : Cardinality(A(i)) = r
  BY <1>7 DEF Surjection
<1> QED
  BY <1>2, <1>4, <1>8 DEF A

(* A strike is a level when fewer than TopN are ahead of it.               *)
LEMMA LevelRanks ==
    ASSUME NEW oi, \A i \in Chain : oi[i] \in Nat, NEW s \in Chain
    PROVE  IsLevel(s, oi) <=> Cardinality(AheadIn(oi, Len(Strikes), s)) < TopN
<1> DEFINE n == Len(Strikes)
           levels == [i \in Chain |-> [strike |-> Strikes[i], oi |-> oi[i]]]
           rank(i) == Cardinality(AheadIn(oi, n, i))
           Ahead(i) == {j \in 1..Len(levels) : \/ levels[j].oi > levels[i].oi
                                               \/ levels[j].oi = levels[i].oi /\ j < i}
           At(r) == CHOOSE i \in 1..n : rank(i) = r - 1
           m == IF TopN < n THEN TopN ELSE n
<1>1. /\ n \in Nat /\ Chain = 1..n /\ TopN \in Nat
      /\ \A i, j \in 1..n : Strikes[i] = Strikes[j] => i = j
  BY ViewAssumption, LenProperties DEF Chain
<1>2. Len(levels) = n
  <2>1. Listed(levels, n)
    BY <1>1 DEF Listed
  <2> HIDE DEF levels
  <2> QED
    BY <2>1, ListIsSeq
<1>3. \A i \in 1..n : levels[i].oi = oi[i] /\ levels[i].strike = Strikes[i]
  BY <1>1
<1>4. \A i \in 1..n : Ahead(i) = AheadIn(oi, n, i)
  <2> HIDE DEF levels
  <2> QED
    BY <1>2, <1>3 DEF AheadIn
<1>5. Levels(oi) = [r \in 1..m |-> levels[At(r)]]
  <2>1. Levels(oi) = Top(levels, TopN)
    BY DEF Levels
  <2>2. Top(levels, TopN) =
            [r \in 1..m |-> levels[CHOOSE i \in 1..n : Cardinality(Ahead(i)) = r - 1]]
    <3> HIDE DEF levels
    <3> QED
      BY <1>2 DEF Top
  <2>3. \A r : (CHOOSE i \in 1..n : Cardinality(Ahead(i)) = r - 1) = At(r)
    <3> HIDE DEF levels, Ahead
    <3>1. \A r : \A i \in 1..n : Cardinality(Ahead(i)) = r - 1 <=> rank(i) = r - 1
      BY <1>4
    <3> QED
      BY <3>1
  <2> HIDE DEF levels, Ahead, At, m
  <2> QED
    BY <2>1, <2>2, <2>3
<1> HIDE DEF levels
<1>6. /\ \A i \in 1..n : rank(i) \in 0..n - 1
      /\ \A i, j \in 1..n : rank(i) = rank(j) => i = j
      /\ \A r \in 0..n - 1 : \E i \in 1..n : rank(i) = r
  <2>1. \A i \in 1..n : oi[i] \in Int
    BY <1>1
  <2> QED
    BY <1>1, <2>1, RanksAreOne
<1> HIDE DEF rank, At
<1>7. ASSUME NEW r \in 1..m
      PROVE  At(r) \in 1..n /\ rank(At(r)) = r - 1
  <2>1. r - 1 \in 0..n - 1
    BY <1>1
  <2>2. \E i \in 1..n : rank(i) = r - 1
    BY <1>6, <2>1
  <2> QED
    BY <2>2 DEF At
<1>8. DOMAIN Levels(oi) = 1..m /\ \A r \in 1..m : Levels(oi)[r].strike = Strikes[At(r)]
  BY <1>3, <1>5, <1>7
<1>9. ASSUME IsLevel(s, oi)
      PROVE  rank(s) < TopN
  <2>1. PICK r \in 1..m : Strikes[At(r)] = Strikes[s]
    BY <1>8, <1>9 DEF IsLevel
  <2>2. At(r) = s
    BY <1>1, <1>7, <2>1
  <2>3. rank(s) = r - 1
    BY <1>7, <2>2
  <2> QED
    BY <1>1, <2>3
<1>10. ASSUME rank(s) < TopN
       PROVE  IsLevel(s, oi)
  <2> DEFINE r == rank(s) + 1
  <2>1. s \in 1..n /\ rank(s) \in 0..n - 1
    BY <1>1, <1>6
  <2>2. r \in 1..m /\ r - 1 = rank(s)
    BY <1>1, <1>10, <2>1
  <2> HIDE DEF r, m
  <2>3. At(r) = s
    BY <1>6, <1>7, <2>1, <2>2
  <2> QED
    BY <1>8, <2>2, <2>3 DEF IsLevel
<1> QED
  BY <1>9, <1>10 DEF rank

(* A level that gains interest, the others keeping theirs, stays one.      *)
LEMMA LevelStays ==
    ASSUME NEW oi, \A i \in Chain : oi[i] \in Nat, NEW new, \A i \in Chain : new[i] \in Nat,
           NEW s \in Chain, \A i \in Chain \ {s} : new[i] = oi[i],
           new[s] > oi[s], IsLevel(s, oi)
    PROVE  IsLevel(s, new)
<1> DEFINE n == Len(Strikes)
           S == AheadIn(oi, n, s)
           T == AheadIn(new, n, s)
<1>1. n \in Nat /\ Chain = 1..n /\ TopN \in Nat /\ \A i \in 1..n : oi[i] \in Int /\ new[i] \in Int
  <2>1. Strikes \in Seq(Nat \ {0}) /\ TopN \in Nat
    BY ViewAssumption
  <2>2. n \in Nat
    BY <2>1, LenProperties
  <2>3. \A k \in Nat : k \in Int
    OBVIOUS
  <2> QED
    BY <2>1, <2>2, <2>3 DEF Chain
<1>2. T \in SUBSET S
  <2>1. ASSUME NEW j \in 1..n, new[j] > new[s] \/ (new[j] = new[s] /\ j < s)
        PROVE  oi[j] > oi[s] \/ (oi[j] = oi[s] /\ j < s)
    <3>1. oi[s] \in Int /\ new[s] \in Int /\ oi[j] \in Int /\ new[j] \in Int
      BY <1>1
    <3>2. CASE j = s
      BY <2>1, <3>1, <3>2
    <3>3. CASE j # s
      <4>1. new[j] = oi[j]
        BY <1>1, <3>3
      <4> QED
        BY <2>1, <3>1, <4>1
    <3> QED
      BY <3>2, <3>3
  <2> QED
    BY <2>1 DEF AheadIn
<1>3. IsFiniteSet(S) /\ Cardinality(S) \in Int
  <2>1. \A i \in 1..n : oi[i] \in Int
    BY <1>1
  <2>2. IsFiniteSet(AheadIn(oi, n, s)) /\ Cardinality(AheadIn(oi, n, s)) \in 0..n - 1
    BY <1>1, <2>1, RanksAreOne
  <2> QED
    BY <1>1, <2>2
<1>4. Cardinality(T) \in Int
  <2>1. \A i \in 1..n : new[i] \in Int
    BY <1>1
  <2>2. Cardinality(AheadIn(new, n, s)) \in 0..n - 1
    BY <1>1, <2>1, RanksAreOne
  <2> QED
    BY <1>1, <2>2
<1>5. Cardinality(S) < TopN
  BY LevelRanks
<1> HIDE DEF S, T
<1>6. Cardinality(T) <= Cardinality(S)
  BY <1>2, <1>3, FS_Subset
<1>7. Cardinality(T) < TopN
  BY <1>1, <1>3, <1>4, <1>5, <1>6
<1> QED
  BY <1>7, LevelRanks DEF T

(* A move undone reads as the opposite of the move.                        *)
LEMMA MoveUndone ==
    ASSUME NEW a \in Int, NEW b \in Int, a # b, NEW p \in Int, NEW q \in Int, p # q
    PROVE  {AnalyzeOi(a, b, p, q), AnalyzeOi(b, a, q, p)}
               \in {{"LONG_BUILDUP", "LONG_UNWINDING"}, {"SHORT_BUILDUP", "SHORT_COVERING"}}
<1>1. CASE a > b /\ p > q
  <2>1. AnalyzeOi(a, b, p, q) = "LONG_BUILDUP" /\ AnalyzeOi(b, a, q, p) = "LONG_UNWINDING"
    BY <1>1 DEF AnalyzeOi
  <2> QED
    BY <2>1
<1>2. CASE a > b /\ q > p
  <2>1. AnalyzeOi(a, b, p, q) = "SHORT_BUILDUP" /\ AnalyzeOi(b, a, q, p) = "SHORT_COVERING"
    BY <1>2 DEF AnalyzeOi
  <2> QED
    BY <2>1
<1>3. CASE b > a /\ p > q
  <2>1. AnalyzeOi(a, b, p, q) = "SHORT_COVERING" /\ AnalyzeOi(b, a, q, p) = "SHORT_BUILDUP"
    BY <1>3 DEF AnalyzeOi
  <2> QED
    BY <2>1
<1>4. CASE b > a /\ q > p
  <2>1. AnalyzeOi(a, b, p, q) = "LONG_UNWINDING" /\ AnalyzeOi(b, a, q, p) = "LONG_BUILDUP"
    BY <1>4 DEF AnalyzeOi
  <2> QED
    BY <2>1
<1> QED
  BY <1>1, <1>2, <1>3, <1>4

(* Readings of strength follow the market (src/market/strength.py), for    *)
(* every option chain and every number of levels.                          *)
THEOREM StrengthReadingsHolds == ViewSpec => StrengthReadings
<1> DEFINE Step ==
        /\ Sum(call_oi) > 0 /\ Sum(put_oi') > Sum(put_oi) =>
               ChainMood(call_oi, put_oi) <= ChainMood(call_oi', put_oi')
        /\ Sum(call_oi) > 0 /\ Sum(call_oi') > Sum(call_oi) =>
               ChainMood(call_oi', put_oi') <= ChainMood(call_oi, put_oi)
        /\ \A s \in Chain :
               IsLevel(s, call_oi) /\ call_oi'[s] > call_oi[s] => IsLevel(s, call_oi')
        /\ Sum(call_oi') # Sum(call_oi) /\ price' # price =>
               {AnalyzeOi(Sum(call_oi'), Sum(call_oi), price', price),
                AnalyzeOi(Sum(call_oi), Sum(call_oi'), price, price')}
                   \in {{"LONG_BUILDUP", "LONG_UNWINDING"},
                        {"SHORT_BUILDUP", "SHORT_COVERING"}}
        /\ advances' >= advances /\ declines' <= declines =>
               BreadthMood(advances, declines) <= BreadthMood(advances', declines')
        /\ vix' >= vix => RegimeNow(vix') >= RegimeNow(vix)
<1>1. ASSUME ViewTypeOK, ViewTypeOK', [ViewNext]_viewVars
      PROVE  Step
  <2>1. /\ call_oi \in [Chain -> Nat] /\ put_oi \in [Chain -> Nat] /\ price \in Int
        /\ call_oi' \in [Chain -> Nat] /\ put_oi' \in [Chain -> Nat] /\ price' \in Int
        /\ advances \in Nat /\ declines \in Nat /\ advances' \in Nat /\ declines' \in Nat
        /\ vix \in Int /\ vix' \in Int
    BY <1>1, ViewAssumption DEF ViewTypeOK, Chain
  <2>2. \/ call_oi' = call_oi
        \/ put_oi' = put_oi /\ \E s \in Chain : \A i \in Chain \ {s} : call_oi'[i] = call_oi[i]
    <3>1. CASE ChainMoves
      BY <2>1, <3>1 DEF ChainMoves
    <3> QED
      BY <1>1, <3>1 DEF ViewNext, NewCandle, NewIv, BreadthMoves, viewVars, chainVars
  <2>3. /\ Sum(call_oi) \in Nat /\ Sum(call_oi') \in Nat
        /\ Sum(put_oi) \in Nat /\ Sum(put_oi') \in Nat
    <3>1. Len(Strikes) \in Nat
      BY ViewAssumption, LenProperties
    <3>2. IsFiniteSet(Chain)
      BY <3>1, FirstNumbers DEF Chain
    <3>3. \A f \in [Chain -> Nat] : Sum(f) \in Nat
      BY <3>2, SumNatural DEF Sum
    <3> QED
      BY <2>1, <3>3
  <2> DEFINE c == Sum(call_oi)
             d == Sum(call_oi')
             p == Sum(put_oi)
             q == Sum(put_oi')
             PcrMoodOf(x, y) == IF 6 * x <= 5 * y THEN 1 ELSE IF 10 * y <= 7 * x THEN -1 ELSE 0
  <2>4. /\ c > 0 => ChainMood(call_oi, put_oi) = PcrMoodOf(c, p)
        /\ d > 0 => ChainMood(call_oi', put_oi') = PcrMoodOf(d, q)
    <3>1. \A x, y \in Nat : x > 0 => Mood(Pcr(x, y).bias) = PcrMoodOf(x, y)
      BY PcrMood
    <3> HIDE DEF PcrMoodOf
    <3> QED
      BY <2>3, <3>1 DEF ChainMood
  <2>5. c > 0 /\ q > p => ChainMood(call_oi, put_oi) <= ChainMood(call_oi', put_oi')
    <3> SUFFICES ASSUME c > 0, q > p
                 PROVE  ChainMood(call_oi, put_oi) <= ChainMood(call_oi', put_oi')
      OBVIOUS
    <3>1. put_oi' # put_oi
      <4>1. q # p
        BY <2>3
      <4> QED
        BY <4>1
    <3>2. d = c
      BY <2>2, <3>1
    <3> HIDE DEF c, d, p, q
    <3>3. PcrMoodOf(c, p) <= PcrMoodOf(d, q)
      BY <2>3, <3>2 DEF c, d, p, q
    <3> QED
      BY <2>4, <3>2, <3>3
  <2>6. c > 0 /\ d > c => ChainMood(call_oi', put_oi') <= ChainMood(call_oi, put_oi)
    <3> SUFFICES ASSUME c > 0, d > c
                 PROVE  ChainMood(call_oi', put_oi') <= ChainMood(call_oi, put_oi)
      OBVIOUS
    <3>1. call_oi' # call_oi
      <4>1. c # d
        BY <2>3
      <4> QED
        BY <4>1
    <3>2. p = q
      BY <2>2, <3>1
    <3>3. c \in Nat /\ d \in Nat /\ p \in Nat /\ q \in Nat
      BY <2>3
    <3> HIDE DEF c, d, p, q
    <3>4. PcrMoodOf(d, q) <= PcrMoodOf(c, p) /\ d > 0
      BY <3>2, <3>3
    <3> QED
      BY <2>4, <3>4
  <2>7. ASSUME NEW s \in Chain, IsLevel(s, call_oi), call_oi'[s] > call_oi[s]
        PROVE  IsLevel(s, call_oi')
    <3>1. call_oi' # call_oi
      <4>1. call_oi'[s] # call_oi[s]
        BY <2>1, <2>7
      <4> QED
        BY <4>1
    <3>2. \A i \in Chain \ {s} : call_oi'[i] = call_oi[i]
      <4>1. PICK t \in Chain : \A i \in Chain \ {t} : call_oi'[i] = call_oi[i]
        BY <2>2, <3>1
      <4>2. t = s
        BY <2>1, <2>7, <4>1
      <4> QED
        BY <4>1, <4>2
    <3>3. \A i \in Chain : call_oi[i] \in Nat /\ call_oi'[i] \in Nat
      BY <2>1
    <3> QED
      BY <2>7, <3>2, <3>3, LevelStays
  <2>8. d # c /\ price' # price =>
            {AnalyzeOi(d, c, price', price), AnalyzeOi(c, d, price, price')}
                \in {{"LONG_BUILDUP", "LONG_UNWINDING"}, {"SHORT_BUILDUP", "SHORT_COVERING"}}
    <3>1. c \in Int /\ d \in Int
      BY <2>3
    <3> HIDE DEF c, d
    <3> QED
      BY <2>1, <3>1, MoveUndone
  <2>9. advances' >= advances /\ declines' <= declines =>
            BreadthMood(advances, declines) <= BreadthMood(advances', declines')
    <3> DEFINE E(x) == IF x = 0 THEN 1 ELSE x
               M(x, y) == IF 3 * y <= 2 * x THEN 1 ELSE IF 100 * x <= 67 * y THEN -1 ELSE 0
    <3>1. \A x, y \in Nat : BreadthMood(x, y) = M(x, E(y))
      BY BreadthMoodReads
    <3>2. \A x, y \in Nat : y <= x => E(y) <= E(x) /\ E(y) \in Nat /\ E(x) \in Nat
      OBVIOUS
    <3>3. \A x, y, u, v \in Nat : x <= u /\ v <= y => M(x, y) <= M(u, v)
      OBVIOUS
    <3> HIDE DEF E, M
    <3> QED
      BY <2>1, <3>1, <3>2, <3>3
  <2>10. vix' >= vix => RegimeNow(vix') >= RegimeNow(vix)
    BY <2>1, RegimeReads
  <2> QED
    BY <2>5, <2>6, <2>7, <2>8, <2>9, <2>10
<1> HIDE DEF Step
<1>2. ViewTypeOK /\ ViewTypeOK' /\ [ViewNext]_viewVars => [Step]_viewVars
  BY <1>1
<1>3. ViewSpec => [][Step]_viewVars
  BY <1>2, ViewTypeCorrect, PTL DEF ViewSpec
<1>4. StrengthReadings <=> [][Step]_viewVars
  BY PTL DEF StrengthReadings, Step
<1> QED
  BY <1>3, <1>4
=============================================================================
