------------------------------ MODULE UtilProofs ------------------------------
(***************************************************************************)
(* Lemmas on what the functions of util.c compute, and on the induction    *)
(* and the recursion that they need: both over a set of numbers, not over  *)
(* an operator.                                                            *)
(***************************************************************************)
EXTENDS Util, FiniteSetsExt, FiniteSetTheorems, WellFoundedInduction, TLAPS

-------------------------------------------------------------------------------
(* Induction and recursion.                                                *)

\* Induction, for a set in place of a property.
LEMMA SetInduction ==
  ASSUME NEW S, 0 \in S, \A n \in Nat : n \in S => n + 1 \in S
  PROVE  Nat \subseteq S
<1> DEFINE R == OpToRel(<, Nat)
           out == Nat \ S
<1> SUFFICES ASSUME out # {} PROVE FALSE
  OBVIOUS
<1>1. IsWellFoundedOn(R, Nat)
  BY NatLessThanWellFounded
<1>2. PICK n \in out : \A m \in out : ~(<<m, n>> \in R)
  <2> HIDE DEF R
  <2> QED
    BY <1>1, WFMin
<1>3. \A m \in out : ~(m < n)
  BY <1>2 DEF OpToRel
<1>4. n # 0 /\ n - 1 \in Nat /\ (n - 1) + 1 = n /\ n - 1 < n
  OBVIOUS
<1>5. n - 1 \in S
  BY <1>3, <1>4
<1> QED
  BY <1>4, <1>5

\* Induction from all smaller numbers.
LEMMA StrongInduction ==
  ASSUME NEW S, \A n \in Nat : (\A m \in 0 .. n - 1 : m \in S) => n \in S
  PROVE  Nat \subseteq S
<1> DEFINE below == {n \in Nat : \A m \in 0 .. n - 1 : m \in S}
<1>1. 0 \in below
  OBVIOUS
<1>2. ASSUME NEW n \in Nat, n \in below
      PROVE  n + 1 \in below
  <2>1. n \in S
    BY <1>2
  <2>2. \A m \in 0 .. (n + 1) - 1 : m \in 0 .. n - 1 \/ m = n
    OBVIOUS
  <2> QED
    BY <1>2, <2>1, <2>2
<1>3. Nat \subseteq below
  <2> HIDE DEF below
  <2> QED
    BY <1>1, <1>2, SetInduction
<1>4. ASSUME NEW n \in Nat PROVE n \in S
  <2>1. n + 1 \in below /\ n \in 0 .. (n + 1) - 1
    BY <1>3
  <2> QED
    BY <2>1
<1> QED
  BY <1>4

\* A function that is defined by steps g from a start a.
Iterated(f, N, a, g) == f = [n \in 0 .. N |-> IF n = 0 THEN a ELSE g[n][f[n - 1]]]

\* There is such a function: a recursive definition of this form has a value.
LEMMA IterationExists ==
  ASSUME NEW N \in Nat, NEW S, NEW a \in S, NEW g \in [1 .. N -> [S -> S]]
  PROVE  \E f \in [0 .. N -> S] : Iterated(f, N, a, g)
<1> DEFINE P(f, m) == /\ f \in [0 .. m -> S]
                      /\ f[0] = a
                      /\ \A n \in 1 .. m : f[n] = g[n][f[n - 1]]
           good == {m \in Nat : m <= N => \E f : P(f, m)}
<1>1. 0 \in good
  <2> DEFINE f == [n \in 0 .. 0 |-> a]
  <2>1. f \in [0 .. 0 -> S] /\ f[0] = a
    OBVIOUS
  <2>2. \A n \in 1 .. 0 : f[n] = g[n][f[n - 1]]
    OBVIOUS
  <2>3. P(f, 0)
    BY <2>1, <2>2
  <2> QED
    BY <2>3
<1>2. ASSUME NEW m \in Nat, m \in good
      PROVE  m + 1 \in good
  <2> SUFFICES ASSUME m + 1 <= N
               PROVE  \E f : P(f, m + 1)
    OBVIOUS
  <2>1. PICK f : P(f, m)
    BY <1>2
  <2> DEFINE h == [n \in 0 .. m + 1 |-> IF n = m + 1 THEN g[m + 1][f[m]] ELSE f[n]]
  <2>2. m + 1 \in 1 .. N /\ m \in 0 .. m
    OBVIOUS
  <2>3. g[m + 1] \in [S -> S] /\ f[m] \in S
    BY <2>1, <2>2
  <2>4. g[m + 1][f[m]] \in S
    BY <2>3
  <2>5. h \in [0 .. m + 1 -> S]
    BY <2>1, <2>4
  <2>6. h[0] = a
    BY <2>1
  <2>7. ASSUME NEW n \in 1 .. m + 1
        PROVE  h[n] = g[n][h[n - 1]]
    <3>1. n - 1 \in 0 .. m /\ h[n - 1] = f[n - 1]
      OBVIOUS
    <3>2. CASE n = m + 1
      BY <3>1, <3>2
    <3>3. CASE n # m + 1
      <4>1. n \in 1 .. m /\ h[n] = f[n]
        BY <3>3
      <4> QED
        BY <2>1, <3>1, <4>1
    <3> QED
      BY <3>2, <3>3
  <2> QED
    BY <2>5, <2>6, <2>7
<1>3. N \in good
  <2> HIDE DEF good
  <2> QED
    BY <1>1, <1>2, SetInduction
<1>4. PICK f : P(f, N)
  BY <1>3
<1>5. Iterated(f, N, a, g)
  <2>1. \A n \in 0 .. N : f[n] = IF n = 0 THEN a ELSE g[n][f[n - 1]]
    BY <1>4
  <2> QED
    BY <1>4, <2>1 DEF Iterated
<1> QED
  BY <1>4, <1>5
\* A nonempty set of numbers with a bound has a greatest one.
LEMMA GreatestOfBounded ==
  ASSUME NEW S \in SUBSET Nat, NEW s \in S, NEW bound \in Nat, \A x \in S : x <= bound
  PROVE  Max(S) \in S /\ \A x \in S : x <= Max(S)
<1> DEFINE above == {n \in Nat : \E x \in S : n = bound - x}
<1>1. \E n \in above : \A m \in above : n <= m
  <2> SUFFICES ASSUME \A n \in above : \E m \in above : m < n
               PROVE  FALSE
    OBVIOUS
  <2> DEFINE out == Nat \ above
  <2>1. ASSUME NEW n \in Nat, \A m \in 0 .. n - 1 : m \in out
        PROVE  n \in out
    BY <2>1
  <2>2. Nat \subseteq out
    <3> HIDE DEF out
    <3> QED
      BY <2>1, StrongInduction
  <2>3. bound - s \in above
    OBVIOUS
  <2> QED
    BY <2>2, <2>3
<1>2. PICK n \in above : \A m \in above : n <= m
  BY <1>1
<1>3. PICK x \in S : n = bound - x
  OBVIOUS
<1>4. \A y \in S : y <= x
  <2> SUFFICES ASSUME NEW y \in S PROVE y <= x
    OBVIOUS
  <2>1. bound - y \in above /\ x \in Nat /\ y \in Nat
    OBVIOUS
  <2>2. n <= bound - y
    BY <1>2, <2>1
  <2> HIDE DEF above
  <2> QED
    BY <1>3, <2>1, <2>2
<1>5. \E z \in S : \A y \in S : z >= y
  BY <1>4
<1> QED
  BY <1>5 DEF Max

\* Finitely many numbers have a bound.
LEMMA ValuesBounded ==
  ASSUME NEW N \in Nat, NEW v \in [0 .. N - 1 -> Nat]
  PROVE  \E bound \in Nat : \A i \in 0 .. N - 1 : v[i] <= bound
<1> DEFINE good == {n \in Nat : n <= N =>
                      \E bound \in Nat : \A i \in 0 .. n - 1 : v[i] <= bound}
<1>1. 0 \in good
  OBVIOUS
<1>2. ASSUME NEW n \in Nat, n \in good
      PROVE  n + 1 \in good
  <2> SUFFICES ASSUME n + 1 <= N
               PROVE  \E bound \in Nat : \A i \in 0 .. (n + 1) - 1 : v[i] <= bound
    OBVIOUS
  <2>1. PICK bound \in Nat : \A i \in 0 .. n - 1 : v[i] <= bound
    BY <1>2
  <2>2. v[n] \in Nat
    OBVIOUS
  <2>3. /\ bound + v[n] \in Nat
        /\ \A i \in 0 .. (n + 1) - 1 : v[i] <= bound + v[n]
    BY <2>1, <2>2
  <2> QED
    BY <2>3
<1>3. N \in good
  <2> HIDE DEF good
  <2> QED
    BY <1>1, <1>2, SetInduction
<1> QED
  BY <1>3

\* The greatest of finitely many numbers, at least 1.
LEMMA GreatestOfAll ==
  ASSUME NEW N \in Nat, NEW v \in [0 .. N - 1 -> Nat]
  PROVE  /\ Max({1} \cup {v[i] : i \in 0 .. N - 1}) \in Nat \ {0}
         /\ \A i \in 0 .. N - 1 : v[i] <= Max({1} \cup {v[j] : j \in 0 .. N - 1})
<1> DEFINE S == {1} \cup {v[i] : i \in 0 .. N - 1}
<1>1. PICK bound \in Nat : \A i \in 0 .. N - 1 : v[i] <= bound
  BY ValuesBounded
<1>2. S \in SUBSET Nat /\ 1 \in S /\ \A i \in 0 .. N - 1 : v[i] \in S
  OBVIOUS
<1>3. bound + 1 \in Nat /\ \A x \in S : x <= bound + 1
  BY <1>1
<1>4. Max(S) \in S /\ \A x \in S : x <= Max(S)
  <2> HIDE DEF S
  <2> QED
    BY <1>2, <1>3, GreatestOfBounded
<1>5. Max(S) \in Nat /\ 1 <= Max(S) /\ \A i \in 0 .. N - 1 : v[i] <= Max(S)
  <2> HIDE DEF S
  <2> QED
    BY <1>2, <1>4
<1> QED
  BY <1>5

-------------------------------------------------------------------------------
(* The greatest common divisor.                                            *)

Divisors(a) == {d \in Nat : \E q \in Int : a = q * d}

\* A number is known by its divisors.
LEMMA EqualDivisors ==
  ASSUME NEW a \in Nat, NEW b \in Nat, Divisors(a) = Divisors(b)
  PROVE  a = b
<1>1. a \in Divisors(a) /\ b \in Divisors(b)
  <2>1. a = 1 * a /\ b = 1 * b
    OBVIOUS
  <2> QED
    BY <2>1 DEF Divisors
<1>2. PICK p \in Int : a = p * b
  BY <1>1 DEF Divisors
<1>3. PICK q \in Int : b = q * a
  BY <1>1 DEF Divisors
<1>4. CASE a = 0 \/ b = 0
  BY <1>2, <1>3, <1>4
<1>5. CASE a > 0 /\ b > 0
  <2>1. p > 0 /\ q > 0
    <3>1. ASSUME p <= 0 PROVE p * b <= 0
      BY <1>5, <3>1, Z3
    <3>2. ASSUME q <= 0 PROVE q * a <= 0
      BY <1>5, <3>2, Z3
    <3> QED
      BY <1>2, <1>3, <1>5, <3>1, <3>2
  <2>2. p * b >= b
    BY <1>5, <2>1, Z3
  <2>3. q * a >= a
    BY <1>5, <2>1, Z3
  <2> QED
    BY <1>2, <1>3, <2>2, <2>3
<1> QED
  BY <1>4, <1>5

\* Every number divides 0.
LEMMA AllDivideZero == Divisors(0) = Nat
<1>1. \A d \in Nat : 0 = 0 * d
  OBVIOUS
<1> QED
  BY <1>1 DEF Divisors

\* The divisors of two numbers are those of the second and of the remainder.
LEMMA CommonDivisors ==
  ASSUME NEW a \in Nat, NEW b \in Nat \ {0}
  PROVE  Divisors(a) \cap Divisors(b) = Divisors(b) \cap Divisors(a % b)
<1> DEFINE n == a \div b
           r == a % b
<1>1. n \in Int /\ r \in Nat /\ a = n * b + r
  BY Z3
<1> HIDE DEF n, r
<1>2. ASSUME NEW d \in Nat, d \in Divisors(b)
      PROVE  d \in Divisors(a) <=> d \in Divisors(r)
  <2>1. PICK q \in Int : b = q * d
    BY <1>2 DEF Divisors
  <2>2. ASSUME NEW p \in Int, a = p * d
        PROVE  d \in Divisors(r)
    <3>1. (p - n * q) * d = p * d - n * (q * d)
      BY <1>1, Z3
    <3>2. r = (p - n * q) * d
      BY <1>1, <2>1, <2>2, <3>1
    <3>3. p - n * q \in Int
      BY <1>1
    <3> QED
      BY <3>2, <3>3 DEF Divisors
  <2>3. ASSUME NEW p \in Int, r = p * d
        PROVE  d \in Divisors(a)
    <3>1. (n * q + p) * d = n * (q * d) + p * d
      BY <1>1, Z3
    <3>2. a = (n * q + p) * d
      BY <1>1, <2>1, <2>3, <3>1
    <3>3. n * q + p \in Int
      BY <1>1
    <3> QED
      BY <3>2, <3>3 DEF Divisors
  <2> QED
    BY <2>2, <2>3 DEF Divisors
<1>3. Divisors(a) \subseteq Nat /\ Divisors(b) \subseteq Nat /\ Divisors(r) \subseteq Nat
  BY DEF Divisors
<1>4. Divisors(a) \cap Divisors(b) = Divisors(b) \cap Divisors(r)
  BY <1>2, <1>3
<1> QED
  BY <1>4 DEF r

\* Euclid's equation defines a function: the number with the common divisors
\* satisfies it.
LEMMA GcdEquation ==
  ASSUME NEW a \in Nat, NEW b \in Nat
  PROVE  gcd[<<a, b>>] = IF b = 0 THEN a ELSE gcd[<<b, a % b>>]
<1> DEFINE With(D) == CHOOSE g \in Nat : Divisors(g) = D
           f == [pair \in Nat \X Nat |-> With(Divisors(pair[1]) \cap Divisors(pair[2]))]
           Step(h, pair) == IF pair[2] = 0 THEN pair[1] ELSE h[<<pair[2], pair[1] % pair[2]>>]
           Euclid(h) == h = [pair \in Nat \X Nat |-> Step(h, pair)]
<1>1. ASSUME NEW pair \in Nat \X Nat
      PROVE  f[pair] = Step(f, pair)
  <2> DEFINE x == pair[1]
             y == pair[2]
  <2>1. x \in Nat /\ y \in Nat
    OBVIOUS
  <2>2. f[pair] = With(Divisors(x) \cap Divisors(y))
    OBVIOUS
  <2>3. CASE y = 0
    <3>1. Divisors(x) \cap Divisors(y) = Divisors(x)
      BY <2>3, AllDivideZero DEF Divisors
    <3>2. With(Divisors(x)) = x
      BY <2>1, EqualDivisors
    <3> QED
      BY <2>2, <2>3, <3>1, <3>2
  <2>4. CASE y # 0
    <3>1. Divisors(x) \cap Divisors(y) = Divisors(y) \cap Divisors(x % y)
      BY <2>1, <2>4, CommonDivisors
    <3>2. x % y \in Nat
      BY <2>1, <2>4
    <3>3. f[<<y, x % y>>] = With(Divisors(y) \cap Divisors(x % y))
      BY <2>1, <3>2
    <3>4. f[pair] = f[<<y, x % y>>]
      <4> HIDE DEF f, With
      <4> QED
        BY <2>2, <3>1, <3>3
    <3> HIDE DEF f
    <3> QED
      BY <2>4, <3>4
  <2> QED
    BY <2>3, <2>4
<1>2. Euclid(f)
  <2>1. f = [pair \in Nat \X Nat |-> f[pair]]
    OBVIOUS
  <2> HIDE DEF f, Step
  <2> QED
    BY <1>1, <2>1
<1>3. gcd = CHOOSE h : Euclid(h)
  BY DEF gcd
<1>4. Euclid(gcd)
  <2> HIDE DEF Euclid, f
  <2> QED
    BY <1>2, <1>3
<1>5. gcd[<<a, b>>] = Step(gcd, <<a, b>>)
  <2>1. <<a, b>> \in Nat \X Nat
    OBVIOUS
  <2> HIDE DEF Step
  <2> QED
    BY <1>4, <2>1
<1> QED
  BY <1>5

\* What gcd() returns has exactly the common divisors of its arguments as divisors:
\* it is the greatest of them, and 0 if both are.
LEMMA GcdIsGreatest ==
  ASSUME NEW a \in Nat, NEW b \in Nat
  PROVE  /\ gcd[<<a, b>>] \in Nat
         /\ Divisors(gcd[<<a, b>>]) = Divisors(a) \cap Divisors(b)
<1> DEFINE Right(x, y) == /\ gcd[<<x, y>>] \in Nat
                          /\ Divisors(gcd[<<x, y>>]) = Divisors(x) \cap Divisors(y)
           right == {y \in Nat : \A x \in Nat : Right(x, y)}
<1>1. ASSUME NEW y \in Nat, \A z \in 0 .. y - 1 : z \in right
      PROVE  y \in right
  <2> SUFFICES ASSUME NEW x \in Nat PROVE Right(x, y)
    OBVIOUS
  <2>1. CASE y = 0
    <3>1. gcd[<<x, y>>] = x
      BY <2>1, GcdEquation
    <3>2. Divisors(x) \cap Divisors(y) = Divisors(x)
      BY <2>1, AllDivideZero DEF Divisors
    <3> QED
      BY <3>1, <3>2
  <2>2. CASE y # 0
    <3>1. gcd[<<x, y>>] = gcd[<<y, x % y>>]
      BY <2>2, GcdEquation
    <3>2. x % y \in 0 .. y - 1
      BY <2>2
    <3>3. Right(y, x % y)
      BY <1>1, <3>2
    <3>4. Divisors(x) \cap Divisors(y) = Divisors(y) \cap Divisors(x % y)
      BY <2>2, CommonDivisors
    <3> QED
      BY <3>1, <3>3, <3>4
  <2> QED
    BY <2>1, <2>2
<1>2. Nat \subseteq right
  <2> HIDE DEF right
  <2> QED
    BY <1>1, StrongInduction
<1> QED
  BY <1>2

\* Accumulated over the values of a function, from 0: the result is a number, and
\* its divisors are those that all values have in common.
LEMMA GcdOfAll ==
  ASSUME NEW N \in Nat, NEW v \in [0 .. N - 1 -> Nat]
  PROVE  LET tick[n \in 0 .. N] == IF n = 0 THEN 0 ELSE gcd[<<v[n - 1], tick[n - 1]>>]
         IN  /\ tick[N] \in Nat
             /\ Divisors(tick[N]) = {d \in Nat : \A i \in 0 .. N - 1 : d \in Divisors(v[i])}
<1> DEFINE Rec(f) == f = [n \in 0 .. N |-> IF n = 0 THEN 0 ELSE gcd[<<v[n - 1], f[n - 1]>>]]
           tick == CHOOSE f : Rec(f)
<1>1. Rec(tick)
  <2> DEFINE g == [n \in 1 .. N |-> [t \in Nat |-> gcd[<<v[n - 1], t>>]]]
  <2>1. ASSUME NEW n \in 1 .. N, NEW t \in Nat
        PROVE  gcd[<<v[n - 1], t>>] \in Nat
    <3>1. v[n - 1] \in Nat
      OBVIOUS
    <3> QED
      BY <3>1, GcdIsGreatest
  <2>2. g \in [1 .. N -> [Nat -> Nat]]
    BY <2>1
  <2>3. PICK f \in [0 .. N -> Nat] : Iterated(f, N, 0, g)
    <3> HIDE DEF g
    <3> QED
      BY <2>2, IterationExists
  <2>4. Rec(f)
    <3>1. ASSUME NEW n \in 0 .. N
          PROVE  f[n] = IF n = 0 THEN 0 ELSE gcd[<<v[n - 1], f[n - 1]>>]
      <4>1. f[n] = IF n = 0 THEN 0 ELSE g[n][f[n - 1]]
        <5> HIDE DEF g
        <5> QED
          BY <2>3 DEF Iterated
      <4>2. CASE n = 0
        BY <4>1, <4>2
      <4>3. CASE n # 0
        <5>1. n \in 1 .. N /\ f[n - 1] \in Nat
          BY <4>3
        <5> QED
          BY <4>1, <4>3, <5>1
      <4> QED
        BY <4>2, <4>3
    <3>2. f = [n \in 0 .. N |-> f[n]]
      OBVIOUS
    <3> QED
      BY <3>1, <3>2
  <2> HIDE DEF Rec
  <2> QED
    BY <2>4
<1> HIDE DEF tick
<1>2. \A n \in 0 .. N : tick[n] = IF n = 0 THEN 0 ELSE gcd[<<v[n - 1], tick[n - 1]>>]
  BY <1>1
<1> DEFINE Common(n) == {d \in Nat : \A i \in 0 .. n - 1 : d \in Divisors(v[i])}
           good == {n \in Nat : n <= N => tick[n] \in Nat /\ Divisors(tick[n]) = Common(n)}
<1>3. 0 \in good
  <2>1. tick[0] = 0
    <3>1. 0 \in 0 .. N
      OBVIOUS
    <3> QED
      BY <1>2, <3>1, Zenon
  <2>2. Common(0) = Nat
    OBVIOUS
  <2> QED
    BY <2>1, <2>2, AllDivideZero
<1>4. ASSUME NEW n \in Nat, n \in good
      PROVE  n + 1 \in good
  <2> SUFFICES ASSUME n + 1 <= N
               PROVE  tick[n + 1] \in Nat /\ Divisors(tick[n + 1]) = Common(n + 1)
    OBVIOUS
  <2>1. tick[n] \in Nat /\ Divisors(tick[n]) = Common(n) /\ v[n] \in Nat
    BY <1>4
  <2>2. tick[n + 1] = gcd[<<v[n], tick[n]>>]
    <3>1. n + 1 \in 0 .. N /\ n + 1 # 0 /\ (n + 1) - 1 = n
      OBVIOUS
    <3> QED
      BY <1>2, <3>1, Zenon
  <2>3. Common(n + 1) = Divisors(v[n]) \cap Common(n)
    <3>1. Divisors(v[n]) \subseteq Nat
      BY DEF Divisors
    <3>2. \A i \in 0 .. (n + 1) - 1 : i \in 0 .. n - 1 \/ i = n
      OBVIOUS
    <3>3. n \in 0 .. (n + 1) - 1 /\ \A i \in 0 .. n - 1 : i \in 0 .. (n + 1) - 1
      OBVIOUS
    <3> QED
      BY <3>1, <3>2, <3>3
  <2>4. /\ gcd[<<v[n], tick[n]>>] \in Nat
        /\ Divisors(gcd[<<v[n], tick[n]>>]) = Divisors(v[n]) \cap Divisors(tick[n])
    BY <2>1, GcdIsGreatest
  <2> HIDE DEF Common
  <2> QED
    BY <2>1, <2>2, <2>3, <2>4
<1>5. N \in good
  <2> HIDE DEF good
  <2> QED
    BY <1>3, <1>4, SetInduction
<1>6. tick[N] \in Nat /\ Divisors(tick[N]) = Common(N)
  BY <1>5
<1> QED
  BY <1>6 DEF tick

-------------------------------------------------------------------------------
(* The truncation.                                                         *)

\* One pass of the loop of truncate_utf8_string().
Pass(line, size, i) ==
  IF ByteAt(line, i) = NUL \/ i + Width(ByteAt(line, i)) >= size
    THEN i ELSE i + Width(ByteAt(line, i))

\* A pass leads from an index to an index.
LEMMA PassIsNumber ==
  ASSUME NEW line \in Seq(0 .. UTF8_MAX_BYTE_COUNT), NEW size, NEW i \in Nat
  PROVE  Pass(line, size, i) \in Nat
<1>1. ByteAt(line, i) \in -1 .. UTF8_MAX_BYTE_COUNT
  <2>1. CASE i < Len(line)
    <3>1. i + 1 \in 1 .. Len(line)
      BY <2>1
    <3>2. line[i + 1] \in 0 .. UTF8_MAX_BYTE_COUNT
      <4> DEFINE byte == 0 .. UTF8_MAX_BYTE_COUNT
      <4>1. line \in Seq(byte)
        OBVIOUS
      <4> HIDE DEF byte
      <4>2. line[i + 1] \in byte
        BY <3>1, <4>1
      <4> QED
        BY <4>2 DEF byte
    <3> QED
      BY <2>1, <3>2 DEF ByteAt, UTF8_MAX_BYTE_COUNT
  <2>2. CASE ~(i < Len(line))
    BY <2>2 DEF ByteAt, NUL, UTF8_MAX_BYTE_COUNT
  <2> QED
    BY <2>1, <2>2
<1>2. Width(ByteAt(line, i)) \in Nat
  BY <1>1 DEF Width, UTF8_MAX_BYTE_COUNT
<1> QED
  BY <1>2 DEF Pass

\* The indexes after so many passes from the first byte.
Passes(index, line, size, limit) ==
  /\ index \in [0 .. limit -> Nat]
  /\ index[0] = 0
  /\ \A n \in 1 .. limit : index[n] = Pass(line, size, index[n - 1])

\* The result is the index after as many passes as characters are allowed.
LEMMA TruncateIsPasses ==
  ASSUME NEW line \in Seq(0 .. UTF8_MAX_BYTE_COUNT), NEW size, NEW limit \in Nat
  PROVE  \E index : /\ Passes(index, line, size, limit)
                    /\ truncate_utf8_string(line, size, limit) = index[limit]
<1> DEFINE Rec(f) == f = [n \in 0 .. limit |->
                            IF n = 0 THEN 0
                            ELSE IF \/ ByteAt(line, f[n - 1]) = NUL
                                    \/ f[n - 1] + Width(ByteAt(line, f[n - 1])) >= size
                                   THEN f[n - 1]
                                   ELSE f[n - 1] + Width(ByteAt(line, f[n - 1]))]
           index == CHOOSE f : Rec(f)
<1>1. truncate_utf8_string(line, size, limit) = index[limit]
  BY DEF truncate_utf8_string
<1>2. \E f \in [0 .. limit -> Nat] : Rec(f)
  <2> DEFINE pass == [i \in Nat |-> Pass(line, size, i)]
             g == [n \in 1 .. limit |-> pass]
  <2>1. g \in [1 .. limit -> [Nat -> Nat]]
    <3>1. pass \in [Nat -> Nat]
      BY PassIsNumber
    <3> HIDE DEF pass
    <3> QED
      BY <3>1
  <2>2. PICK f \in [0 .. limit -> Nat] : Iterated(f, limit, 0, g)
    <3> HIDE DEF g
    <3> QED
      BY <2>1, IterationExists
  <2>3. ASSUME NEW n \in 0 .. limit
        PROVE  f[n] = IF n = 0 THEN 0 ELSE Pass(line, size, f[n - 1])
    <3>1. f[n] = IF n = 0 THEN 0 ELSE g[n][f[n - 1]]
      <4> HIDE DEF g
      <4> QED
        BY <2>2 DEF Iterated
    <3>2. CASE n = 0
      BY <3>1, <3>2
    <3>3. CASE n # 0
      <4>1. n \in 1 .. limit /\ f[n - 1] \in Nat
        BY <3>3
      <4> QED
        BY <3>1, <3>3, <4>1
    <3> QED
      BY <3>2, <3>3
  <2>4. f = [n \in 0 .. limit |-> f[n]]
    OBVIOUS
  <2>5. Rec(f)
    BY <2>3, <2>4 DEF Pass
  <2> QED
    BY <2>5
<1>3. Rec(index)
  <2> HIDE DEF Rec
  <2> QED
    BY <1>2
<1> HIDE DEF index
<1>4. ASSUME NEW n \in 0 .. limit
      PROVE  index[n] = IF n = 0 THEN 0 ELSE Pass(line, size, index[n - 1])
  BY <1>3 DEF Pass
<1> DEFINE good == {n \in Nat : n <= limit => index[n] \in Nat}
<1>5. 0 \in good
  <2>1. 0 \in 0 .. limit
    OBVIOUS
  <2> QED
    BY <1>4, <2>1
<1>6. ASSUME NEW n \in Nat, n \in good
      PROVE  n + 1 \in good
  <2> SUFFICES ASSUME n + 1 <= limit PROVE index[n + 1] \in Nat
    OBVIOUS
  <2>1. n + 1 \in 0 .. limit /\ n + 1 # 0 /\ (n + 1) - 1 = n /\ index[n] \in Nat
    BY <1>6
  <2>2. index[n + 1] = Pass(line, size, index[n])
    BY <1>4, <2>1, Zenon
  <2> QED
    BY <2>1, <2>2, PassIsNumber
<1>7. Nat \subseteq good
  <2> HIDE DEF good
  <2> QED
    BY <1>5, <1>6, SetInduction
<1>8. index \in [0 .. limit -> Nat]
  <2>1. index = [n \in 0 .. limit |-> index[n]]
    BY <1>3
  <2>2. \A n \in 0 .. limit : index[n] \in Nat
    BY <1>7
  <2> QED
    BY <2>1, <2>2
<1>9. \A n \in 1 .. limit : index[n] = Pass(line, size, index[n - 1])
  BY <1>4
<1>10. index[0] = 0
  <2>1. 0 \in 0 .. limit
    OBVIOUS
  <2> QED
    BY <1>4, <2>1
<1>11. Passes(index, line, size, limit)
  BY <1>8, <1>9, <1>10 DEF Passes
<1> QED
  BY <1>1, <1>11 DEF index
===============================================================================
