----------------------------- MODULE Fractions -----------------------------
(* Python's Decimal as the analysis modules use it: exact arithmetic.  The *)
(* rounding to 28 digits is left out.                                      *)
EXTENDS Integers, SequencesExt

(* Gcd[n][m] is the greatest common divisor of m and n.                    *)
Gcd[n \in Nat] == [m \in Nat |-> IF n = 0 THEN m ELSE Gcd[m % n][n]]

Magnitude(n) == IF n < 0 THEN -n ELSE n

Fraction(n, d) ==
    LET g == Gcd[Magnitude(d)][Magnitude(n)]
        s == IF d < 0 THEN -1 ELSE 1
    IN  [num |-> s * (n \div g), den |-> s * (d \div g)]

Whole(n) == [num |-> n, den |-> 1]

Zero == Whole(0)
Hundred == Whole(100)

Plus(p, q) == Fraction(p.num * q.den + q.num * p.den, p.den * q.den)
Minus(p, q) == Fraction(p.num * q.den - q.num * p.den, p.den * q.den)
Times(p, q) == Fraction(p.num * q.num, p.den * q.den)
Over(p, q) == Fraction(p.num * q.den, p.den * q.num)

AtMost(p, q) == p.num * q.den <= q.num * p.den
Below(p, q) == p.num * q.den < q.num * p.den

Greater(p, q) == IF AtMost(p, q) THEN q ELSE p
Lesser(p, q) == IF AtMost(p, q) THEN p ELSE q
Distance(p, q) == IF AtMost(p, q) THEN Minus(q, p) ELSE Minus(p, q)
Square(p) == Times(p, p)

Total(s) ==
    LET upTo[i \in 0..Len(s)] == IF i = 0 THEN Zero ELSE Plus(upTo[i - 1], s[i])
    IN  upTo[Len(s)]
Mean(s) == Over(Total(s), Whole(Len(s)))
Greatest(s) == CHOOSE v \in ToSet(s) : \A w \in ToSet(s) : AtMost(w, v)
Least(s) == CHOOSE v \in ToSet(s) : \A w \in ToSet(s) : AtMost(v, w)

(* What the readings below make of a sequence.                             *)
Each(f(_), s) == [i \in 1..Len(s) |-> f(s[i])]
=============================================================================
