------------------------- MODULE StrictWriteProofs --------------------------
(***************************************************************************)
(* Proofs about StrictWrite, for every schema, batch and number format:    *)
(* the verdict on a write depends on what it holds and never on the order  *)
(* in which its cells are looked at; it is refused exactly if some part of *)
(* it has no place in the schema; and the columns sent read back, row by   *)
(* row, as what the request asks for.                                      *)
(*                                                                         *)
(* First come the lemmas about one value: what a number rounds to, what    *)
(* lowering and writeValue make of a literal, a vector entry, a NULL or a  *)
(* fetched cell.  Induction goes through the least counterexample, so that *)
(* recursive functions (the powers of two, compact's loop) can be reasoned *)
(* about.                                                                  *)
(***************************************************************************)
EXTENDS StrictWrite, FiniteSetTheorems, SequenceTheorems, WellFoundedInduction, TLAPS

(***************************************************************************)
(* Least elements, loops, powers of two and rounding.                      *)
(***************************************************************************)
\* A set of numbers that is not empty has a least one: the form of induction that
\* the proofs below use.
LEMMA Least ==
  ASSUME NEW T, T \subseteq Nat, T # {}
  PROVE  \E x \in T : \A y \in T : x <= y
<1>1. PICK x \in T : \A y \in T : ~(<<y, x>> \in OpToRel(<, Nat))
  BY NatLessThanWellFounded, WFMin, Zenon
<1>2. \A y \in T : ~(y < x)
  BY <1>1 DEF OpToRel
<1>3. QED
  BY <1>2

\* A loop over the naturals that carries a value of S.
IsStep(step, S) == step \in [Nat \X S -> S]
IsLoop(f, S, x, step) ==
  /\ f \in [Nat -> S] /\ f[0] = x
  /\ \A n \in Nat : f[n + 1] = step[<<n, f[n]>>]

\* A loop has a run: a step on the values of S, from x, defines a function.
LEMMA Loop ==
  ASSUME NEW S, NEW x \in S, NEW step, IsStep(step, S)
  PROVE  \E f : IsLoop(f, S, x, step)
<1> USE DEF IsStep
<1> DEFINE Run(n, g) == /\ g \in [0..n -> S] /\ g[0] = x
                        /\ \A i \in 0..(n - 1) : g[i + 1] = step[<<i, g[i]>>]
<1>1. ASSUME NEW n \in Nat PROVE \E g : Run(n, g)
  <2> DEFINE T == {m \in Nat : ~\E g : Run(m, g)}
  <2>1. SUFFICES ASSUME T # {} PROVE FALSE
    OBVIOUS
  <2>2. PICK m \in T : \A y \in T : m <= y
    BY <2>1, Least
  <2>3. m # 0
    <3>1. Run(0, [i \in 0..0 |-> x])
      OBVIOUS
    <3>2. QED
      BY <2>2, <3>1
  <2>4. m \in Nat /\ m - 1 \in Nat /\ m - 1 \notin T
    BY <2>2, <2>3
  <2>5. PICK g : Run(m - 1, g)
    BY <2>4
  <2> DEFINE h == [i \in 0..m |-> IF i = m THEN step[<<m - 1, g[m - 1]>>] ELSE g[i]]
  <2>6. Run(m, h)
    <3>1. h \in [0..m -> S]
      BY <2>4, <2>5
    <3>2. h[0] = x
      BY <2>4, <2>5
    <3>3. ASSUME NEW i \in 0..(m - 1) PROVE h[i + 1] = step[<<i, h[i]>>]
      <4>1. h[i] = g[i]
        BY <2>4
      <4>2. CASE i = m - 1
        <5>1. i + 1 = m /\ i + 1 \in 0..m
          BY <2>4, <4>2
        <5>2. QED
          BY <4>1, <4>2, <5>1
      <4>3. CASE i # m - 1
        <5>1. i \in 0..((m - 1) - 1) /\ h[i + 1] = g[i + 1]
          BY <2>4, <4>3
        <5>2. QED
          BY <2>5, <4>1, <5>1
      <4>4. QED
        BY <4>2, <4>3
    <3>4. QED
      BY <3>1, <3>2, <3>3
  <2>7. QED
    BY <2>2, <2>6
<1>2. ASSUME NEW n \in Nat, NEW g, NEW h, Run(n, g), Run(n + 1, h) PROVE g[n] = h[n]
  <2> DEFINE T == {i \in 0..n : g[i] # h[i]}
  <2>1. SUFFICES ASSUME T # {} PROVE FALSE
    OBVIOUS
  <2>2. PICK m \in T : \A y \in T : m <= y
    <3>1. T \subseteq Nat
      OBVIOUS
    <3> HIDE DEF T
    <3>2. QED
      BY <2>1, <3>1, Least
  <2>3. m # 0 /\ m \in 0..n
    BY <1>2, <2>2
  <2>4. m - 1 \in 0..(n - 1) /\ m - 1 \in 0..((n + 1) - 1) /\ m - 1 \notin T /\ (m - 1) + 1 = m
    BY <2>2, <2>3
  <2>5. g[m - 1] = h[m - 1]
    BY <2>3, <2>4
  <2>6. g[m] = step[<<m - 1, g[m - 1]>>]
    BY <1>2, <2>4
  <2>7. h[m] = step[<<m - 1, h[m - 1]>>]
    BY <1>2, <2>4
  <2>8. QED
    BY <2>2, <2>5, <2>6, <2>7
<1> DEFINE of(n) == CHOOSE g : Run(n, g)
           f == [n \in Nat |-> of(n)[n]]
<1>3. ASSUME NEW n \in Nat PROVE Run(n, of(n))
  BY <1>1
<1> HIDE DEF of
<1>4. f \in [Nat -> S] /\ f[0] = x
  <2>1. ASSUME NEW n \in Nat PROVE of(n)[n] \in S
    BY <1>3
  <2>2. of(0)[0] = x
    BY <1>3
  <2>3. QED
    BY <2>1, <2>2
<1>5. ASSUME NEW n \in Nat PROVE f[n + 1] = step[<<n, f[n]>>]
  <2>1. Run(n, of(n)) /\ Run(n + 1, of(n + 1)) /\ n + 1 \in Nat
    BY <1>3
  <2>2. of(n)[n] = of(n + 1)[n]
    BY <1>2, <2>1
  <2>3. of(n + 1)[n + 1] = step[<<n, of(n + 1)[n]>>]
    BY <2>1
  <2>4. QED
    BY <2>1, <2>2, <2>3
<1>6. QED
  BY <1>4, <1>5 DEF IsLoop

\* The powers of two are what their recursive definition says.
LEMMA TwoSteps ==
  /\ Two \in [Nat -> Nat] /\ Two[0] = 1 /\ \A n \in Nat : Two[n + 1] = 2 * Two[n]
<1> DEFINE step == [p \in Nat \X Nat |-> 2 * p[2]]
           Def(f) == f = [n \in Nat |-> IF n = 0 THEN 1 ELSE 2 * f[n - 1]]
<1>1. step \in [Nat \X Nat -> Nat] /\ \A m, n \in Nat : step[<<m, n>>] = 2 * n
  OBVIOUS
<1> HIDE DEF step
<1>2. PICK f : IsLoop(f, Nat, 1, step)
  <2>1. 1 \in Nat /\ IsStep(step, Nat)
    BY <1>1 DEF IsStep
  <2>2. QED
    BY <2>1, Loop
<1>3. \A n \in Nat : f[n + 1] = 2 * f[n]
  BY <1>1, <1>2 DEF IsLoop
<1>4. Def(f)
  <2>1. ASSUME NEW n \in Nat PROVE f[n] = IF n = 0 THEN 1 ELSE 2 * f[n - 1]
    <3>1. CASE n = 0
      BY <1>2, <3>1 DEF IsLoop
    <3>2. CASE n # 0
      <4>1. n - 1 \in Nat /\ (n - 1) + 1 = n
        BY <3>2
      <4>2. QED
        BY <1>3, <3>2, <4>1
    <3>3. QED
      BY <3>1, <3>2
  <2>2. QED
    BY <1>2, <2>1 DEF IsLoop
<1>5. Def(Two)
  <2>1. Two = CHOOSE g : Def(g)
    BY DEF Two
  <2> HIDE DEF Def
  <2>2. QED
    BY <1>4, <2>1
<1>6. Two[0] = 1 /\ \A n \in Nat : Two[n + 1] = 2 * Two[n]
  BY <1>5
<1>7. ASSUME NEW n \in Nat PROVE Two[n] \in Nat
  <2> DEFINE T == {m \in Nat : Two[m] \notin Nat}
  <2>1. SUFFICES ASSUME T # {} PROVE FALSE
    OBVIOUS
  <2>2. PICK m \in T : \A y \in T : m <= y
    BY <2>1, Least
  <2>3. m # 0
    BY <1>6, <2>2
  <2>4. m - 1 \in Nat /\ m - 1 \notin T /\ (m - 1) + 1 = m
    BY <2>2, <2>3
  <2>5. QED
    BY <1>6, <2>2, <2>4
<1>8. Two \in [Nat -> Nat]
  <2>1. Two = [n \in Nat |-> Two[n]]
    BY <1>5
  <2>2. QED
    BY <1>7, <2>1
<1>9. QED
  BY <1>6, <1>8

\* The power of a sum is the product of the powers.
LEMMA TwoSum ==
  ASSUME NEW m \in Nat, NEW n \in Nat PROVE Two[m + n] = Two[m] * Two[n]
<1> DEFINE T == {k \in Nat : Two[m + k] # Two[m] * Two[k]}
<1>1. SUFFICES ASSUME T # {} PROVE FALSE
  OBVIOUS
<1>2. PICK k \in T : \A y \in T : k <= y
  BY <1>1, Least
<1>3. k # 0
  BY <1>2, TwoSteps
<1>4. k - 1 \in Nat /\ k - 1 \notin T /\ (k - 1) + 1 = k /\ m + k = (m + (k - 1)) + 1 /\ m + (k - 1) \in Nat
  BY <1>2, <1>3
<1> DEFINE a == Two[m]
           b == Two[k - 1]
<1>5. Two[m + (k - 1)] = a * b
  BY <1>4
<1>6. Two[m + k] = 2 * Two[m + (k - 1)] /\ Two[k] = 2 * b
  BY <1>4, TwoSteps
<1>7. a \in Nat /\ b \in Nat
  BY <1>4, TwoSteps
<1> HIDE DEF a, b
<1>8. a * (2 * b) = 2 * (a * b)
  BY <1>7
<1>9. QED
  BY <1>2, <1>5, <1>6, <1>8 DEF a

\* No power of two is below its exponent.
LEMMA TwoExceeds ==
  ASSUME NEW n \in Nat PROVE Two[n] \in Nat /\ n < Two[n] /\ Two[n + 1] = 2 * Two[n]
<1> DEFINE T == {k \in Nat : ~(k < Two[k])}
<1>1. ASSUME T # {} PROVE FALSE
  <2>1. PICK k \in T : \A y \in T : k <= y
    BY <1>1, Least
  <2>2. k # 0
    BY <2>1, TwoSteps
  <2>3. k - 1 \in Nat /\ k - 1 \notin T /\ (k - 1) + 1 = k
    BY <2>1, <2>2
  <2>4. Two[k] = 2 * Two[k - 1] /\ k - 1 < Two[k - 1] /\ Two[k - 1] \in Nat
    BY <2>3, TwoSteps
  <2>5. QED
    BY <2>1, <2>3, <2>4
<1>2. QED
  BY <1>1, TwoSteps

\* Powers of two grow with their exponents.
LEMMA TwoGrows ==
  ASSUME NEW m \in Nat, NEW n \in Nat, m <= n
  PROVE  Two[m] <= Two[n] /\ (m < n => 2 * Two[m] <= Two[n]) /\ \E k \in Nat : k > 0 /\ Two[n] = k * Two[m]
<1> DEFINE d == n - m
           a == Two[m]
           b == Two[d]
<1>1. d \in Nat /\ m + d = n /\ (m < n => d > 0)
  OBVIOUS
<1>2. a \in Nat /\ b \in Nat /\ d < b
  BY <1>1, TwoExceeds
<1>3. Two[n] = a * b
  BY <1>1, TwoSum
<1> HIDE DEF a, b, d
<1>4. b >= 1 /\ (m < n => b >= 2)
  BY <1>1, <1>2
<1>5. a * b >= a /\ (b >= 2 => a * b >= 2 * a) /\ a * b = b * a
  BY <1>2, <1>4
<1>6. QED
  BY <1>2, <1>3, <1>4, <1>5 DEF a

\* The spacing of the floats at a is a power of two that leaves a the mantissa's bits.
LEMMA UlpFits ==
  ASSUME NEW a \in Nat, NEW bits \in Nat
  PROVE  \E e \in Nat : /\ Ulp(a, bits) = Two[e] /\ a < Two[bits + e]
                        /\ e = 0 \/ 2 * a >= Two[bits + e]
<1> DEFINE Right(e) == a < Two[bits + e] /\ (e = 0 \/ 2 * a >= Two[bits + e])
           T == {e \in Nat : a < Two[bits + e]}
<1>1. a \in T
  <2>1. a < Two[a] /\ Two[a] \in Nat
    BY TwoExceeds
  <2>2. Two[a] <= Two[bits + a] /\ bits + a \in Nat /\ Two[bits + a] \in Nat
    BY TwoGrows, TwoExceeds
  <2>3. QED
    BY <2>1, <2>2
<1>2. PICK e \in T : \A y \in T : e <= y
  BY <1>1, Least
<1>3. e \in 0..a
  BY <1>1, <1>2
<1>4. Right(e)
  <2>1. CASE e = 0
    BY <1>2, <2>1
  <2>2. CASE e # 0
    <3>1. e - 1 \in Nat /\ e - 1 \notin T /\ bits + (e - 1) \in Nat /\ (bits + (e - 1)) + 1 = bits + e
      BY <1>2, <2>2
    <3>2. ~(a < Two[bits + (e - 1)]) /\ Two[bits + e] = 2 * Two[bits + (e - 1)] /\ Two[bits + (e - 1)] \in Nat
      BY <3>1, TwoExceeds
    <3>3. QED
      BY <1>2, <3>2
  <2>3. QED
    BY <2>1, <2>2
<1> DEFINE c == CHOOSE x \in 0..a : Right(x)
<1>5. c \in 0..a /\ Right(c) /\ Ulp(a, bits) = Two[c]
  BY <1>3, <1>4 DEF Ulp
<1> HIDE DEF c
<1>6. QED
  BY <1>5

\* Below the reach of a spacing, the spacing is that one or a finer one.
LEMMA UlpBelow ==
  ASSUME NEW a \in Nat, NEW bits \in Nat, NEW e \in Nat, a < Two[bits + e]
  PROVE  \E d \in 0..e : Ulp(a, bits) = Two[d] /\ a < Two[bits + d]
<1>1. PICK d \in Nat : /\ Ulp(a, bits) = Two[d] /\ a < Two[bits + d]
                       /\ d = 0 \/ 2 * a >= Two[bits + d]
  BY UlpFits
<1>2. ASSUME d > e PROVE FALSE
  <2>1. bits + e \in Nat /\ bits + d \in Nat /\ bits + e < bits + d /\ d # 0
    BY <1>2
  <2>2. 2 * Two[bits + e] <= Two[bits + d] /\ Two[bits + e] \in Nat /\ Two[bits + d] \in Nat
    <3> DEFINE m == bits + e
               n == bits + d
    <3>1. m \in Nat /\ n \in Nat /\ m < n /\ m <= n
      BY <2>1
    <3> HIDE DEF m, n
    <3>2. 2 * Two[m] <= Two[n] /\ Two[m] \in Nat /\ Two[n] \in Nat
      BY <3>1, TwoGrows, TwoExceeds
    <3>3. QED
      BY <3>2 DEF m, n
  <2>3. QED
    BY <1>1, <2>1, <2>2
<1>3. QED
  BY <1>1, <1>2

\* Division with rest.
LEMMA Division ==
  ASSUME NEW a \in Nat, NEW u \in Nat, u > 0
  PROVE  a \div u \in Nat /\ (a \div u) * u <= a /\ a < (a \div u) * u + u
OBVIOUS

\* The multiples of a spacing lie a spacing apart.
LEMMA Multiples ==
  ASSUME NEW k \in Nat, NEW j \in Nat, NEW u \in Nat, u > 0
  PROVE  /\ k * u \in Nat
         /\ (k + 1) * u = k * u + u
         /\ k <= j => k * u <= j * u
         /\ k < j => k * u + u <= j * u
<1>1. k * u \in Nat /\ j * u \in Nat /\ (k + 1) * u = k * u + u
  OBVIOUS
<1>2. ASSUME k <= j PROVE k * u <= j * u
  <2>1. (j - k) * u >= 0
    BY <1>2
  <2>2. (j - k) * u = j * u - k * u
    OBVIOUS
  <2>3. QED
    BY <1>1, <2>1, <2>2
<1>3. ASSUME k < j PROVE k * u + u <= j * u
  <2>1. j - k - 1 \in Nat
    BY <1>3
  <2>2. (j - k - 1) * u >= 0
    BY <2>1
  <2>3. (j - k - 1) * u = j * u - k * u - u
    OBVIOUS
  <2>4. QED
    BY <1>1, <2>2, <2>3
<1>4. QED
  BY <1>1, <1>2, <1>3

\* What rounding returns: a multiple of the spacing, at most half of it away.
LEMMA Rounding ==
  ASSUME NEW a \in Nat, NEW bits \in Nat
  PROVE  /\ Ulp(a, bits) \in Nat /\ Ulp(a, bits) > 0 /\ RoundSize(a, bits) \in Nat
         /\ \E k \in Nat : RoundSize(a, bits) = k * Ulp(a, bits)
         /\ 2 * (RoundSize(a, bits) - a) <= Ulp(a, bits)
         /\ 2 * (a - RoundSize(a, bits)) <= Ulp(a, bits)
<1> DEFINE u == Ulp(a, bits)
           low == a \div u
           rest == 2 * (a - low * u)
           r == RoundSize(a, bits)
<1>1. u \in Nat /\ u > 0
  <2>1. PICK e \in Nat : u = Two[e]
    BY UlpFits
  <2>2. Two[e] \in Nat /\ e < Two[e]
    BY TwoExceeds
  <2>3. QED
    BY <2>1, <2>2
<1>2. r = IF rest > u \/ (rest = u /\ low % 2 = 1) THEN (low + 1) * u ELSE low * u
  BY DEF RoundSize
<1> HIDE DEF u, r
<1>3. low \in Nat /\ low * u <= a /\ a < low * u + u
  BY <1>1, Division
<1> HIDE DEF low
<1>4. low * u \in Nat /\ (low + 1) * u = low * u + u
  BY <1>1, <1>3, Multiples
<1>5. CASE r = low * u /\ rest <= u
  BY <1>1, <1>3, <1>4, <1>5 DEF u, r
<1>6. CASE r = (low + 1) * u /\ rest >= u
  <2>1. r \in Nat /\ 2 * (r - a) <= u /\ 2 * (a - r) <= u
    BY <1>1, <1>3, <1>4, <1>6
  <2>2. low + 1 \in Nat /\ r = (low + 1) * u
    BY <1>3, <1>6
  <2>3. QED
    BY <1>1, <2>1, <2>2 DEF u, r
<1>7. QED
  BY <1>1, <1>2, <1>4, <1>5, <1>6

\* Rounding keeps to the side of a multiple of the spacing.
LEMMA RoundSide ==
  ASSUME NEW a \in Nat, NEW bits \in Nat, NEW j \in Nat
  PROVE  /\ a <= j * Ulp(a, bits) => RoundSize(a, bits) <= j * Ulp(a, bits)
         /\ a >= j * Ulp(a, bits) => RoundSize(a, bits) >= j * Ulp(a, bits)
<1> DEFINE u == Ulp(a, bits)
           r == RoundSize(a, bits)
<1>1. u \in Nat /\ u > 0 /\ r \in Nat /\ 2 * (r - a) <= u /\ 2 * (a - r) <= u
  BY Rounding
<1>2. PICK k \in Nat : r = k * u
  BY Rounding
<1> HIDE DEF u, r
<1>3. j * u \in Nat
  BY <1>1, Multiples
<1>4. ASSUME a <= j * u PROVE r <= j * u
  <2>1. ~(j < k)
    <3>1. SUFFICES ASSUME j < k PROVE FALSE
      OBVIOUS
    <3>2. j * u + u <= r
      BY <1>1, <1>2, <3>1, Multiples
    <3>3. QED
      BY <1>1, <1>3, <1>4, <3>2
  <2>2. QED
    BY <1>1, <1>2, <2>1, Multiples
<1>5. ASSUME a >= j * u PROVE r >= j * u
  <2>1. ~(k < j)
    <3>1. SUFFICES ASSUME k < j PROVE FALSE
      OBVIOUS
    <3>2. r + u <= j * u
      BY <1>1, <1>2, <3>1, Multiples
    <3>3. QED
      BY <1>1, <1>3, <1>5, <3>2
  <2>2. QED
    BY <1>1, <1>2, <2>1, Multiples
<1>6. QED
  BY <1>4, <1>5 DEF u, r

\* Powers of two are floats: rounding keeps to their side.
LEMMA RoundPower ==
  ASSUME NEW a \in Nat, NEW bits \in Nat, bits > 0, NEW j \in Nat
  PROVE  /\ a <= Two[j] => RoundSize(a, bits) <= Two[j]
         /\ a >= Two[j] => RoundSize(a, bits) >= Two[j]
<1>1. PICK e \in Nat : /\ Ulp(a, bits) = Two[e] /\ a < Two[bits + e]
                       /\ e = 0 \/ 2 * a >= Two[bits + e]
  BY UlpFits
<1>2. ASSUME e <= j
      PROVE  /\ a <= Two[j] => RoundSize(a, bits) <= Two[j]
             /\ a >= Two[j] => RoundSize(a, bits) >= Two[j]
  <2>1. PICK k \in Nat : Two[j] = k * Two[e]
    BY <1>2, TwoGrows
  <2>2. QED
    BY <1>1, <2>1, RoundSide
<1>3. ASSUME e > j
      PROVE  a > Two[j] /\ RoundSize(a, bits) >= Two[j]
  <2>1. e \in Nat /\ e + 1 \in Nat /\ bits + e \in Nat /\ e + 1 <= bits + e /\ e # 0
    BY <1>3
  <2>2. Two[e + 1] = 2 * Two[e] /\ Two[e + 1] <= Two[bits + e] /\ 2 * Two[j] <= Two[e]
    <3>1. Two[e + 1] = 2 * Two[e]
      BY TwoExceeds
    <3>2. Two[e + 1] <= Two[bits + e]
      BY <2>1, TwoGrows
    <3>3. 2 * Two[j] <= Two[e]
      BY <1>3, TwoGrows
    <3>4. QED
      BY <3>1, <3>2, <3>3
  <2>3. Two[e] \in Nat /\ Two[bits + e] \in Nat /\ Two[j] \in Nat /\ Two[j] > 0
    BY <2>1, TwoExceeds
  <2>4. a >= 1 * Two[e] /\ a > Two[j]
    BY <1>1, <2>1, <2>2, <2>3
  <2>5. RoundSize(a, bits) >= 1 * Two[e] /\ RoundSize(a, bits) \in Nat
    BY <1>1, <2>4, RoundSide, Rounding
  <2>6. QED
    BY <2>2, <2>3, <2>4, <2>5
<1>4. Two[j] \in Nat
  BY TwoExceeds
<1>5. QED
  BY <1>2, <1>3, <1>4

\* A float64 rounded to a float32 is one unit of the float32 from the number that the
\* float64 was read from: rounding twice does not add up.
LEMMA RoundTwice ==
  ASSUME NEW a \in Nat, NEW fine \in Nat, NEW coarse \in Nat, 0 < coarse, coarse <= fine
  PROVE  /\ RoundSize(RoundSize(a, fine), coarse) - a <= Ulp(a, coarse)
         /\ a - RoundSize(RoundSize(a, fine), coarse) <= Ulp(a, coarse)
<1> DEFINE x == RoundSize(a, fine)
           y == RoundSize(x, coarse)
<1>1. PICK e \in Nat : Ulp(a, coarse) = Two[e] /\ a < Two[coarse + e]
  BY UlpFits
<1>2. /\ coarse + e \in Nat /\ fine + e \in Nat /\ Two[coarse + e] <= Two[fine + e]
      /\ Two[coarse + e] \in Nat /\ Two[fine + e] \in Nat /\ Two[e] \in Nat
  <2>1. coarse + e \in Nat /\ fine + e \in Nat /\ coarse + e <= fine + e
    OBVIOUS
  <2>2. Two[coarse + e] <= Two[fine + e]
    BY <2>1, TwoGrows
  <2>3. QED
    BY <2>1, <2>2, TwoExceeds
<1>3. Ulp(a, fine) <= Two[e]
  <2>1. a < Two[fine + e]
    BY <1>1, <1>2
  <2>2. PICK d \in 0..e : Ulp(a, fine) = Two[d]
    BY <2>1, UlpBelow
  <2>3. QED
    BY <2>2, TwoGrows
<1>4. /\ x \in Nat /\ Ulp(a, fine) \in Nat
      /\ 2 * (x - a) <= Ulp(a, fine) /\ 2 * (a - x) <= Ulp(a, fine)
  BY Rounding
<1>5. x <= Two[coarse + e]
  BY <1>1, <1>2, RoundPower
<1> HIDE DEF x
<1>6. CASE x = Two[coarse + e]
  <2>1. y \in Nat /\ y <= x /\ y >= x
    <3>1. y \in Nat
      BY <1>4, Rounding
    <3>2. x <= Two[coarse + e] /\ x >= Two[coarse + e]
      BY <1>4, <1>6
    <3>3. QED
      BY <1>2, <1>4, <1>6, <3>1, <3>2, RoundPower
  <2> HIDE DEF y
  <2>2. QED
    BY <1>1, <1>2, <1>3, <1>4, <2>1 DEF x, y
<1>7. CASE x < Two[coarse + e]
  <2>1. PICK d \in 0..e : Ulp(x, coarse) = Two[d]
    BY <1>4, <1>7, UlpBelow
  <2>2. Two[d] <= Two[e] /\ Two[d] \in Nat
    BY <2>1, TwoGrows, TwoExceeds
  <2>3. y \in Nat /\ 2 * (y - x) <= Two[d] /\ 2 * (x - y) <= Two[d]
    <3>1. x \in Nat
      BY <1>4
    <3>2. y \in Nat /\ 2 * (y - x) <= Ulp(x, coarse) /\ 2 * (x - y) <= Ulp(x, coarse)
      BY <3>1, Rounding
    <3>3. QED
      BY <2>1, <3>2
  <2> HIDE DEF y
  <2>4. y - a <= Two[e] /\ a - y <= Two[e]
    BY <1>2, <1>3, <1>4, <2>2, <2>3
  <2>5. QED
    BY <1>1, <2>4 DEF x, y
<1>8. QED
  BY <1>2, <1>4, <1>5, <1>6, <1>7

(***************************************************************************)
(* The two float formats.                                                  *)
(***************************************************************************)
\* The constants of the formats, as numbers.
LEMMA Formats ==
  /\ Mantissa \in Nat /\ Mantissa > 0 /\ Mantissa32 \in Nat /\ Mantissa32 > 0 /\ Mantissa32 <= Mantissa
  /\ Exponent \in Nat /\ Exponent >= 2 /\ Exponent32 \in Nat /\ Exponent32 <= Exponent
  /\ FloatTop \in Nat /\ Float32Top \in Nat
<1>1. /\ Mantissa \in Nat /\ Mantissa > 0 /\ Mantissa32 \in Nat /\ Mantissa32 > 0 /\ Mantissa32 <= Mantissa
      /\ Exponent \in Nat /\ Exponent >= 2 /\ Exponent32 \in Nat /\ Exponent32 <= Exponent
  BY FormatsAssumption
<1>2. \A m, e \in Nat : (Two[m] - 1) * Two[e] \in Nat
  <2> SUFFICES ASSUME NEW m \in Nat, NEW e \in Nat PROVE (Two[m] - 1) * Two[e] \in Nat
    OBVIOUS
  <2> DEFINE a == Two[m] - 1
             b == Two[e]
  <2>1. a \in Nat /\ b \in Nat
    BY TwoExceeds
  <2> HIDE DEF a, b
  <2>2. a * b \in Nat
    BY <2>1
  <2>3. QED
    BY <2>2 DEF a, b
<1>3. QED
  BY <1>1, <1>2 DEF FloatTop, Float32Top

\* A float64 holds whatever a float32 does, and the integers of its mantissa.
LEMMA Tops ==
  /\ Float32Top <= FloatTop
  /\ \A a \in Nat : a % 4 = 0 /\ a < 4 * Two[Mantissa] => a <= FloatTop
<1> DEFINE m == Two[Mantissa32]
           n == Two[Mantissa]
           d == Two[Exponent32]
           e == Two[Exponent]
<1>1. m \in Nat /\ n \in Nat /\ d \in Nat /\ e \in Nat /\ m >= 1 /\ n >= 1 /\ d >= 1
  BY Formats, TwoExceeds
<1>2. m <= n /\ d <= e
  BY Formats, TwoGrows
<1>3. e >= 4
  <2>1. Two[2] <= Two[Exponent]
    BY Formats, TwoGrows
  <2>2. Two[0] = 1 /\ Two[0 + 1] = 2 * Two[0] /\ Two[1 + 1] = 2 * Two[1]
    BY TwoSteps
  <2>3. Two[2] = 4
    BY <2>2
  <2>4. QED
    BY <2>1, <2>3
<1>4. Float32Top = (m - 1) * d /\ FloatTop = (n - 1) * e
  BY DEF Float32Top, FloatTop
<1> HIDE DEF m, n, d, e
<1>5. (m - 1) * d <= (n - 1) * d
  <2>1. m - 1 \in Nat /\ n - 1 \in Nat /\ m - 1 <= n - 1 /\ d > 0
    BY <1>1, <1>2
  <2>2. QED
    BY <1>1, <2>1, Multiples
<1>6. (n - 1) * d <= (n - 1) * e /\ (n - 1) * 4 <= (n - 1) * e
  <2> DEFINE k == n - 1
  <2>1. k \in Nat
    BY <1>1
  <2> HIDE DEF k
  <2>2. ASSUME NEW c \in Nat, c <= e PROVE k * c <= k * e
    <3>1. k * (e - c) >= 0
      BY <1>1, <2>1, <2>2
    <3>2. k * (e - c) = k * e - k * c
      BY <1>1, <2>1
    <3>3. k * e \in Int /\ k * c \in Int
      BY <1>1, <2>1
    <3>4. QED
      BY <3>1, <3>2, <3>3
  <2>3. QED
    BY <1>1, <1>2, <1>3, <2>2 DEF k
<1>7. ASSUME NEW a \in Nat, a % 4 = 0, a < 4 * n PROVE a <= (n - 1) * 4
  BY <1>1, <1>7
<1>8. (n - 1) * e \in Int /\ (n - 1) * d \in Int /\ (m - 1) * d \in Int
  BY <1>1
<1>9. Float32Top <= FloatTop
  BY <1>4, <1>5, <1>6, <1>8
<1>10. ASSUME NEW a \in Nat, a % 4 = 0, a < 4 * Two[Mantissa] PROVE a <= FloatTop
  BY <1>1, <1>4, <1>6, <1>7, <1>8, <1>10 DEF n
<1>11. QED
  BY <1>9, <1>10

\* What is beyond a float64 is beyond a float32.
LEMMA BeyondBoth ==
  ASSUME NEW a \in Nat, RoundSize(a, Mantissa) > FloatTop
  PROVE  RoundSize(RoundSize(a, Mantissa), Mantissa32) > Float32Top
<1> DEFINE M == Mantissa
           E == Exponent
           x == RoundSize(a, M)
           n == Two[M]
           e == Two[E]
<1>1. M \in Nat /\ E \in Nat /\ M + E \in Nat /\ M > 0 /\ x \in Nat
  BY Formats, Rounding
<1>2. /\ Two[M + E] = n * e /\ n \in Nat /\ e \in Nat /\ n >= 2 /\ FloatTop = (n - 1) * e
      /\ e > 0 /\ Two[M + E] \in Nat
  <2>1. Two[M + E] = n * e
    BY <1>1, TwoSum
  <2>2. n \in Nat /\ e \in Nat /\ M < n /\ E < e
    BY <1>1, TwoExceeds
  <2>3. Two[M + E] \in Nat
    BY <1>1, TwoExceeds
  <2>4. QED
    BY <1>1, <2>1, <2>2, <2>3 DEF FloatTop
<1>3. x >= Two[M + E]
  <2>1. CASE a >= Two[M + E]
    BY <1>1, <2>1, RoundPower
  <2>2. CASE a < Two[M + E]
    <3>1. PICK d \in 0..E : Ulp(a, M) = Two[d] /\ a < Two[M + d]
      BY <1>1, <2>2, UlpBelow
    <3>2. CASE d = E
      <4>1. PICK k \in Nat : x = k * e
        BY <1>1, <3>1, <3>2, Rounding
      <4> HIDE DEF x, n, e
      <4>2. (n - 1) * e < x
        BY <1>2 DEF x
      <4>3. ~(k <= n - 1)
        <5>1. SUFFICES ASSUME k <= n - 1 PROVE FALSE
          OBVIOUS
        <5>2. n - 1 \in Nat
          BY <1>2
        <5>3. k * e <= (n - 1) * e
          BY <1>2, <5>1, <5>2, Multiples
        <5>4. k * e \in Int /\ (n - 1) * e \in Int
          BY <1>2
        <5>5. QED
          BY <4>1, <4>2, <5>3, <5>4
      <4>4. n <= k
        BY <1>2, <4>3
      <4>5. n * e <= k * e
        BY <1>2, <4>4, Multiples
      <4>6. QED
        BY <1>2, <4>1, <4>5
    <3>3. CASE d # E
      <4>1. M + d \in Nat /\ M + d < M + E /\ d \in Nat
        BY <1>1, <3>1, <3>3
      <4>2. x <= Two[M + d]
        <5>1. a <= Two[M + d]
          BY <3>1, <4>1, TwoExceeds
        <5>2. QED
          BY <1>1, <4>1, <5>1, RoundPower
      <4>3. 2 * Two[M + d] <= n * e /\ Two[M + d] \in Nat
        <5>1. 2 * Two[M + d] <= Two[M + E]
          BY <1>1, <4>1, TwoGrows
        <5>2. QED
          BY <1>2, <4>1, <5>1, TwoExceeds
      <4>4. (n - 1) * e < x
        BY <1>2
      <4> HIDE DEF x, n, e
      <4>5. (n - 1) * e = n * e - e /\ n * e \in Int /\ 2 * e <= n * e
        <5>1. 2 \in Nat /\ 2 <= n
          BY <1>2
        <5>2. 2 * e <= n * e
          BY <1>2, <5>1, Multiples
        <5>3. QED
          BY <1>2, <5>2
      <4>6. QED
        BY <1>1, <1>2, <4>2, <4>3, <4>4, <4>5
    <3>4. QED
      BY <3>2, <3>3
  <2>3. QED
    BY <1>2, <2>1, <2>2
<1> HIDE DEF x
<1>4. RoundSize(x, Mantissa32) >= Two[M + E] /\ RoundSize(x, Mantissa32) \in Nat
  <2>1. Mantissa32 \in Nat /\ Mantissa32 > 0 /\ M + E \in Nat /\ x \in Nat
    BY <1>1, Formats
  <2>2. QED
    BY <1>3, <2>1, RoundPower, Rounding
<1>5. Two[M + E] > Float32Top
  <2> DEFINE i == Two[Mantissa32]
             j == Two[Exponent32]
  <2>1. Mantissa32 + Exponent32 \in Nat /\ Mantissa32 + Exponent32 <= M + E
    BY Formats
  <2>2. Two[Mantissa32 + Exponent32] <= Two[M + E]
    BY <1>1, <2>1, TwoGrows
  <2>3. Two[Mantissa32 + Exponent32] = i * j
    BY Formats, TwoSum
  <2>4. i \in Nat /\ j \in Nat /\ j > 0 /\ Float32Top = (i - 1) * j
    BY Formats, TwoExceeds DEF Float32Top
  <2> HIDE DEF i, j
  <2>5. (i - 1) * j = i * j - j /\ i * j \in Int
    BY <2>4
  <2>6. QED
    BY <1>2, <2>2, <2>3, <2>4, <2>5
<1>6. QED
  BY <1>2, <1>4, <1>5, Formats DEF x

\* Rounding a number with its sign.
LEMMA Signed ==
  ASSUME NEW q \in Int, NEW bits \in Nat
  PROVE  /\ Size(q) \in Nat /\ Nearest(q, bits) \in Int
         /\ Size(Nearest(q, bits)) = RoundSize(Size(q), bits)
         /\ 2 * Size(Nearest(q, bits) - q) <= Ulp(Size(q), bits) /\ Ulp(Size(q), bits) \in Nat
<1>1. CASE q < 0
  <2>1. -q \in Nat /\ Size(q) = -q
    BY <1>1 DEF Size
  <2> DEFINE r == RoundSize(-q, bits)
             u == Ulp(-q, bits)
  <2>2. r \in Nat /\ u \in Nat /\ 2 * (r - (-q)) <= u /\ 2 * ((-q) - r) <= u
    BY <2>1, Rounding
  <2>3. Nearest(q, bits) = -r
    BY <1>1 DEF Nearest
  <2> HIDE DEF r, u
  <2>4. Size(-r) = r /\ 2 * Size((-r) - q) <= u
    BY <2>1, <2>2 DEF Size
  <2>5. QED
    BY <2>1, <2>2, <2>3, <2>4 DEF r, u
<1>2. CASE q >= 0
  <2>1. q \in Nat /\ Size(q) = q
    BY <1>2 DEF Size
  <2> DEFINE r == RoundSize(q, bits)
             u == Ulp(q, bits)
  <2>2. r \in Nat /\ u \in Nat /\ 2 * (r - q) <= u /\ 2 * (q - r) <= u
    BY <2>1, Rounding
  <2>3. Nearest(q, bits) = r
    BY <1>2 DEF Nearest
  <2> HIDE DEF r, u
  <2>4. Size(r) = r /\ 2 * Size(r - q) <= u
    BY <2>1, <2>2 DEF Size
  <2>5. QED
    BY <2>1, <2>2, <2>3, <2>4 DEF r, u
<1>3. QED
  BY <1>1, <1>2

\* Rounding twice, with the sign.
LEMMA SignedTwice ==
  ASSUME NEW q \in Int
  PROVE  Size(Nearest(Nearest(q, Mantissa), Mantissa32) - q) <= Ulp(Size(q), Mantissa32)
<1>1. Mantissa \in Nat /\ Mantissa32 \in Nat /\ 0 < Mantissa32 /\ Mantissa32 <= Mantissa
  BY Formats
<1> DEFINE x == RoundSize(Size(q), Mantissa)
           y == RoundSize(x, Mantissa32)
           u == Ulp(Size(q), Mantissa32)
<1>2. Size(q) \in Nat /\ u \in Nat
  BY <1>1, Signed
<1>3. x \in Nat /\ y - Size(q) <= u /\ Size(q) - y <= u
  BY <1>1, <1>2, Rounding, RoundTwice
<1>4. y \in Nat /\ (x = 0 => y = 0 /\ -y = y)
  <2>1. y \in Nat
    BY <1>1, <1>3, Rounding
  <2>2. ASSUME x = 0 PROVE y = 0
    <3>1. Ulp(0, Mantissa32) \in Nat
      BY <1>1, Rounding
    <3>2. 0 <= 0 * Ulp(0, Mantissa32) => RoundSize(0, Mantissa32) <= 0 * Ulp(0, Mantissa32)
      BY <1>1, RoundSide
    <3>3. RoundSize(0, Mantissa32) <= 0
      BY <3>1, <3>2
    <3>4. QED
      BY <2>1, <2>2, <3>3
  <2>3. QED
    BY <2>1, <2>2
<1>5. Nearest(q, Mantissa) = (IF q < 0 THEN -x ELSE x) /\ (q < 0 => Size(q) = -q) /\ (~(q < 0) => Size(q) = q)
  BY DEF Nearest, Size
<1>6. Nearest(Nearest(q, Mantissa), Mantissa32) = IF q < 0 THEN -y ELSE y
  <2> HIDE DEF x
  <2>1. CASE q < 0 /\ x > 0
    <3>1. -x < 0 /\ -(-x) = x /\ Nearest(q, Mantissa) = -x
      BY <1>3, <1>5, <2>1
    <3>2. Nearest(-x, Mantissa32) = -RoundSize(-(-x), Mantissa32)
      BY <3>1 DEF Nearest
    <3>3. QED
      BY <2>1, <3>1, <3>2
  <2>2. CASE q < 0 /\ x <= 0
    <3>1. Nearest(q, Mantissa) = 0
      <4>1. Nearest(q, Mantissa) = -x
        BY <1>5, <2>2
      <4>2. -x <= 0 /\ -x >= 0 /\ -x \in Int
        BY <1>3, <2>2
      <4>3. QED
        BY <4>1, <4>2
    <3>2. Nearest(0, Mantissa32) = RoundSize(0, Mantissa32)
      BY DEF Nearest
    <3>3. x = 0 /\ y = RoundSize(0, Mantissa32) /\ -y = y
      BY <1>3, <1>4, <2>2
    <3>4. QED
      BY <2>2, <3>1, <3>2, <3>3
  <2>3. CASE ~(q < 0)
    <3>1. Nearest(q, Mantissa) = x /\ ~(x < 0)
      BY <1>3, <1>5, <2>3
    <3>2. QED
      BY <2>3, <3>1 DEF Nearest
  <2>4. QED
    BY <1>3, <2>1, <2>2, <2>3
<1> HIDE DEF x, y, u
<1>7. Size((IF q < 0 THEN -y ELSE y) - q) <= u
  BY <1>2, <1>3, <1>4, <1>5 DEF Size
<1>8. QED
  BY <1>6, <1>7 DEF u

(***************************************************************************)
(* Numbers in a column of integers or floats.                              *)
(***************************************************************************)
\* The integer types lie inside the int64, which is wider than a mantissa.
LEMMA Bounds ==
  ASSUME NEW t \in DOMAIN Bits
  PROVE  /\ Two[Bits[t] - 1] \in Nat /\ Two[Bits["int64"] - 1] \in Nat /\ Two[Mantissa] \in Nat
         /\ Two[Bits[t]] = 2 * Two[Bits[t] - 1]
         /\ Two[Bits[t] - 1] <= Two[Bits["int64"] - 1] /\ Two[Mantissa] <= Two[Bits["int64"] - 1]
<1> DEFINE b == Bits[t] - 1
           c == Bits["int64"] - 1
<1>1. b \in Nat /\ c \in Nat /\ b <= c /\ b + 1 = Bits[t] /\ Mantissa \in Nat /\ Mantissa <= c
  BY FormatsAssumption
<1> HIDE DEF b, c
<1>2. Two[b] \in Nat /\ Two[b + 1] = 2 * Two[b] /\ Two[c] \in Nat /\ Two[Mantissa] \in Nat
  BY <1>1, TwoExceeds
<1>3. Two[b] <= Two[c] /\ Two[Mantissa] <= Two[c]
  BY <1>1, TwoGrows
<1>4. QED
  BY <1>1, <1>2, <1>3 DEF b, c

\* An integer beyond the mantissa stays beyond it when it is read as a float.
LEMMA FarFromIntegral ==
  ASSUME NEW q \in Int, Size(q) >= 4 * Two[Mantissa]
  PROVE  ~Integral(Nearest(q, Mantissa))
<1>1. Mantissa \in Nat /\ Mantissa > 0 /\ Mantissa + 1 \in Nat /\ (Mantissa + 1) + 1 = Mantissa + 2 /\ Mantissa + 2 \in Nat
  BY Formats
<1>2. Two[Mantissa + 2] = 4 * Two[Mantissa] /\ Two[Mantissa] \in Nat
  <2>1. Two[Mantissa + 1] = 2 * Two[Mantissa] /\ Two[Mantissa] \in Nat
    BY <1>1, TwoExceeds
  <2>2. Two[(Mantissa + 1) + 1] = 2 * Two[Mantissa + 1]
    BY <1>1, TwoExceeds
  <2>3. QED
    BY <1>1, <2>1, <2>2
<1>3. Size(q) \in Nat /\ Size(Nearest(q, Mantissa)) = RoundSize(Size(q), Mantissa)
  BY <1>1, Signed
<1>4. RoundSize(Size(q), Mantissa) >= Two[Mantissa + 2] /\ RoundSize(Size(q), Mantissa) \in Nat
  BY <1>1, <1>2, <1>3, RoundPower, Rounding
<1>5. QED
  BY <1>2, <1>3, <1>4 DEF Integral

\* A number as it is written.
IsNumber(v) ==
  v.t = "number" /\ v.q \in Int /\ v.integer \in BOOLEAN /\ (v.integer => v.q % 4 = 0)

\* toInt64 and intBoundaries: a number is taken over exactly if it is an integer of
\* the type, and as that integer.
LEMMA IntegerStored ==
  ASSUME NEW f, NEW v, f.native \in DOMAIN Bits, IsNumber(v)
  PROVE  /\ (ToInt64(v).ok /\ InBounds(f.native, ToInt64(v).cell)) <=> FitsInteger(f, v)
         /\ FitsInteger(f, v) =>
              IF v.integer THEN 4 * ToInt64(v).cell = v.q
              ELSE 2 * Size(4 * ToInt64(v).cell - v.q) <= Ulp(Size(v.q), Mantissa)
<1> DEFINE T == Two[Bits[f.native] - 1]
           W == Two[Bits["int64"] - 1]
           M == Two[Mantissa]
           x == Nearest(v.q, Mantissa)
<1>1. T \in Nat /\ W \in Nat /\ M \in Nat /\ Two[Bits[f.native]] = 2 * T /\ T <= W /\ M <= W
  BY Bounds
<1>2. v.q \in Int /\ v.t = "number" /\ v.integer \in BOOLEAN /\ (v.integer => v.q % 4 = 0)
  BY DEF IsNumber
<1>3. \A n : InBounds(f.native, n) <=> n \in -T..(T - 1)
  BY DEF InBounds
<1>4. \A n : InBounds("int64", n) <=> n \in -W..(W - 1)
  BY DEF InBounds
<1>5. ToInt64(v) = IF v.integer /\ InBounds("int64", v.q \div 4) THEN Yes(v.q \div 4)
                   ELSE IF ParseFloat(v.q).ok /\ Integral(ParseFloat(v.q).cell)
                        THEN Yes(ParseFloat(v.q).cell \div 4) ELSE No
  BY <1>2 DEF ToInt64
<1>6. ParseFloat(v.q) = IF Size(x) <= FloatTop THEN Yes(x) ELSE No
  BY DEF ParseFloat
<1>7. Integral(x) <=> x % 4 = 0 /\ Size(x) < 4 * M
  BY DEF Integral
<1>8. x \in Int /\ Size(x) \in Nat /\ 2 * Size(x - v.q) <= Ulp(Size(v.q), Mantissa)
  BY <1>2, Formats, Signed
<1>9. CASE v.integer
  <2> DEFINE n == v.q \div 4
  <2>1. n \in Int /\ v.q = 4 * n /\ v.q \div 2 = 2 * n
    BY <1>2, <1>9
  <2>2. FitsInteger(f, v) <=> n \in -T..(T - 1)
    <3>1. FitsInteger(f, v) <=> -(2 * T) <= 2 * n /\ 2 * n < 2 * T
      BY <1>1, <1>2, <1>9, <2>1 DEF FitsInteger
    <3>2. QED
      BY <1>1, <2>1, <3>1
  <2>3. CASE n \in -W..(W - 1)
    <3>1. ToInt64(v) = Yes(n)
      BY <1>4, <1>5, <1>9, <2>3
    <3>2. ToInt64(v).ok /\ ToInt64(v).cell = n
      BY <3>1 DEF Yes
    <3>3. QED
      BY <1>3, <1>9, <2>1, <2>2, <3>2
  <2>4. CASE n \notin -W..(W - 1)
    <3>1. ~FitsInteger(f, v)
      BY <1>1, <2>1, <2>2, <2>4
    <3>2. Size(v.q) >= 4 * M
      BY <1>1, <2>1, <2>4 DEF Size
    <3>3. ~Integral(x)
      BY <1>2, <3>2, FarFromIntegral
    <3>4. ParseFloat(v.q).ok => ParseFloat(v.q).cell = x
      BY <1>6 DEF Yes, No
    <3>5. ToInt64(v) = No
      BY <1>4, <1>5, <2>4, <3>3, <3>4
    <3>6. QED
      BY <3>1, <3>5 DEF No
  <2>5. QED
    BY <2>3, <2>4
<1>10. CASE ~v.integer
  <2>1. FitsInteger(f, v) <=> /\ x % 4 = 0 /\ Size(x) < 4 * M
                              /\ -(2 * T) <= x \div 2 /\ x \div 2 < 2 * T
    BY <1>1, <1>2, <1>10 DEF FitsInteger
  <2>2. ASSUME x % 4 = 0, Size(x) < 4 * M
        PROVE  Size(x) <= FloatTop
    <3>1. Size(x) % 4 = 0
      BY <1>8, <2>2 DEF Size
    <3>2. QED
      BY <1>8, <2>2, <3>1, Tops
  <2>3. CASE x % 4 = 0 /\ Size(x) < 4 * M
    <3> DEFINE n == x \div 4
    <3>1. n \in Int /\ x = 4 * n /\ x \div 2 = 2 * n
      BY <1>8, <2>3
    <3>2. ParseFloat(v.q) = Yes(x)
      BY <1>6, <2>2, <2>3
    <3>3. ToInt64(v) = Yes(n)
      BY <1>5, <1>7, <1>10, <2>3, <3>2 DEF Yes
    <3>4. ToInt64(v).ok /\ ToInt64(v).cell = n
      BY <3>3 DEF Yes
    <3>5. FitsInteger(f, v) <=> n \in -T..(T - 1)
      BY <1>1, <2>1, <2>3, <3>1
    <3>6. QED
      BY <1>3, <1>8, <1>10, <3>1, <3>4, <3>5
  <2>4. CASE ~(x % 4 = 0 /\ Size(x) < 4 * M)
    <3>1. ParseFloat(v.q).ok => ParseFloat(v.q).cell = x
      BY <1>6 DEF Yes, No
    <3>2. ToInt64(v) = No
      BY <1>5, <1>7, <1>10, <2>4, <3>1
    <3>3. QED
      BY <2>1, <2>4, <3>2 DEF No
  <2>5. QED
    BY <2>3, <2>4
<1>11. QED
  BY <1>2, <1>9, <1>10

\* toFloat64 on a number, and the conversion to a float32.
LEMMA FloatStored ==
  ASSUME NEW v, IsNumber(v)
  PROVE  /\ ToFloat64(v).ok <=> Size(Nearest(v.q, Mantissa)) <= FloatTop
         /\ ToFloat64(v).ok => ToFloat64(v).cell = Nearest(v.q, Mantissa)
         /\ Near(Nearest(v.q, Mantissa), v.q, Mantissa)
         /\ Near(Nearest(Nearest(v.q, Mantissa), Mantissa32), v.q, Mantissa32)
         /\ Nearest(v.q, Mantissa) \in Int /\ Size(Nearest(v.q, Mantissa)) \in Nat
<1> DEFINE x == Nearest(v.q, Mantissa)
<1>1. v.q \in Int /\ v.t = "number"
  BY DEF IsNumber
<1>2. /\ x \in Int /\ Size(x) \in Nat /\ 2 * Size(x - v.q) <= Ulp(Size(v.q), Mantissa)
      /\ Ulp(Size(v.q), Mantissa) \in Nat /\ Size(x - v.q) \in Nat
  <2>1. x \in Int /\ 2 * Size(x - v.q) <= Ulp(Size(v.q), Mantissa) /\ Ulp(Size(v.q), Mantissa) \in Nat
    BY <1>1, Formats, Signed
  <2>2. \A z \in Int : Size(z) \in Nat
    BY DEF Size
  <2>3. QED
    BY <1>1, <2>1, <2>2
<1>3. ToFloat64(v) = IF Size(x) <= FloatTop THEN Yes(x) ELSE No
  BY <1>1 DEF ToFloat64, ParseFloat
<1>4. Near(x, v.q, Mantissa)
  BY <1>2 DEF Near
<1>5. Near(Nearest(x, Mantissa32), v.q, Mantissa32)
  BY <1>1, SignedTwice DEF Near
<1> HIDE DEF x
<1>6. QED
  BY <1>2, <1>3, <1>4, <1>5 DEF Yes, No, x

(***************************************************************************)
(* The entries of a vector.                                                *)
(***************************************************************************)
\* A vector entry, in SQL or in JSON.
Entry(e) == IF req.op = "index" THEN JsonEntry(e) ELSE SqlEntry(e)

\* parseVector and decodeWriteValue on an entry: it becomes the number it says, one
\* without end, or an error.
LEMMA EntryStored ==
  ASSUME NEW e, IsEntry(e)
  PROVE  /\ (Entry(e).ok /\ Entry(e).cell # Inf) <=> FitsEntry(e)
         /\ FitsEntry(e) => Near(Entry(e).cell.q, e.q, Mantissa32)
         /\ req.op # "index" => (Entry(e).ok <=> e.k = "inf" \/ FitsEntry(e))
<1>1. CASE e.k = "num"
  <2> DEFINE x == Nearest(e.q, Mantissa)
             y == Nearest(e.q, Mantissa32)
             z == Nearest(x, Mantissa32)
  <2>1. e.q \in Int
    BY <1>1 DEF IsEntry
  <2>2. Mantissa \in Nat /\ Mantissa32 \in Nat
    BY Formats
  <2>3. /\ Size(e.q) \in Nat /\ x \in Int /\ y \in Int /\ Size(x) = RoundSize(Size(e.q), Mantissa)
        /\ 2 * Size(y - e.q) <= Ulp(Size(e.q), Mantissa32) /\ Ulp(Size(e.q), Mantissa32) \in Nat
    BY <2>1, <2>2, Signed
  <2>4. Size(z) = RoundSize(Size(x), Mantissa32)
    BY <2>2, <2>3, Signed
  <2>5. Near(y, e.q, Mantissa32) /\ Near(z, e.q, Mantissa32)
    <3>1. Size(y - e.q) \in Nat
      BY <2>1, <2>3 DEF Size
    <3>2. QED
      BY <2>1, <2>3, <3>1, SignedTwice DEF Near
  <2>6. \A n : Num(n) # Inf /\ Num(n).q = n
    BY DEF Num, Inf
  <2>7. CASE req.op = "index"
    <3>1. FitsEntry(e) <=> Size(z) <= Float32Top
      BY <1>1, <2>7 DEF FitsEntry
    <3>2. CASE Size(x) <= FloatTop
      <4>1. ParseFloat(e.q) = Yes(x)
        BY <3>2 DEF ParseFloat
      <4>2. Entry(e) = Yes(IF Size(z) <= Float32Top THEN Num(z) ELSE Inf)
        BY <1>1, <2>7, <4>1 DEF Entry, JsonEntry, Yes
      <4> HIDE DEF x, y, z
      <4>3. Entry(e).ok /\ Entry(e).cell = IF Size(z) <= Float32Top THEN Num(z) ELSE Inf
        BY <4>2 DEF Yes
      <4>4. QED
        BY <2>5, <2>6, <2>7, <3>1, <4>3
    <3>3. CASE ~(Size(x) <= FloatTop)
      <4>1. ParseFloat(e.q) = No
        BY <3>3 DEF ParseFloat
      <4>2. Entry(e) = No
        BY <1>1, <2>7, <4>1 DEF Entry, JsonEntry, No
      <4>3. Size(z) > Float32Top
        <5>1. Size(x) \in Nat /\ FloatTop \in Nat
          BY <2>2, <2>3, Rounding, Formats
        <5>2. RoundSize(Size(e.q), Mantissa) > FloatTop
          BY <2>3, <3>3, <5>1
        <5>3. QED
          BY <2>3, <2>4, <5>2, BeyondBoth
      <4>4. Size(z) \in Nat /\ Float32Top \in Nat
        <5>1. Size(x) \in Nat
          BY <2>2, <2>3, Rounding
        <5>2. QED
          BY <2>2, <2>4, <5>1, Rounding, Formats
      <4>5. ~FitsEntry(e) /\ ~Entry(e).ok
        BY <3>1, <4>2, <4>3, <4>4 DEF No
      <4>6. QED
        BY <2>7, <4>5
    <3>4. QED
      BY <3>2, <3>3
  <2>8. CASE req.op # "index"
    <3>1. FitsEntry(e) <=> Size(y) <= Float32Top
      BY <1>1, <2>8 DEF FitsEntry
    <3>2. Entry(e) = IF Size(y) <= Float32Top THEN Yes(Num(y)) ELSE No
      BY <1>1, <2>8 DEF Entry, SqlEntry
    <3> HIDE DEF x, y, z
    <3>3. Entry(e).ok <=> Size(y) <= Float32Top
      BY <3>2 DEF Yes, No
    <3>4. Size(y) <= Float32Top => Entry(e).cell = Num(y)
      BY <3>2 DEF Yes
    <3>5. QED
      BY <1>1, <2>5, <2>6, <3>1, <3>3, <3>4
  <2>9. QED
    BY <2>7, <2>8
<1>2. CASE e.k # "num"
  <2>1. ~FitsEntry(e)
    BY <1>2 DEF FitsEntry
  <2>2. CASE req.op = "index"
    BY <1>2, <2>1, <2>2 DEF Entry, JsonEntry, No
  <2>3. CASE req.op # "index" /\ e.k = "inf"
    BY <1>2, <2>1, <2>3 DEF Entry, SqlEntry, Yes
  <2>4. CASE req.op # "index" /\ e.k # "inf"
    BY <1>2, <2>1, <2>4 DEF Entry, SqlEntry, No
  <2>5. QED
    BY <2>2, <2>3, <2>4
<1>3. QED
  BY <1>1, <1>2

\* The entries together.
LEMMA EntriesStored ==
  ASSUME NEW items, IsSequence(items), \A k \in DOMAIN items : IsEntry(items[k])
  PROVE  LET r == Entries([k \in DOMAIN items |-> Entry(items[k])])
         IN /\ r.ok <=> \A k \in DOMAIN items : Entry(items[k]).ok
            /\ r.ok => /\ r.cell.t = "vector" /\ DOMAIN r.cell.items = DOMAIN items
                       /\ Len(r.cell.items) = Len(items)
                       /\ \A k \in DOMAIN items : r.cell.items[k] = Entry(items[k]).cell
<1> DEFINE es == [k \in DOMAIN items |-> Entry(items[k])]
           vs == [k \in DOMAIN es |-> es[k].cell]
           r == Entries(es)
<1>1. DOMAIN es = DOMAIN items /\ \A k \in DOMAIN items : es[k] = Entry(items[k])
  OBVIOUS
<1> HIDE DEF es
<1>2. r = IF \A k \in DOMAIN es : es[k].ok THEN Yes(Vector(vs)) ELSE No
  BY DEF Entries
<1>3. r.ok <=> \A k \in DOMAIN items : Entry(items[k]).ok
  BY <1>1, <1>2 DEF Yes, No
<1>4. r.ok => r.cell = Vector(vs)
  BY <1>2 DEF Yes, No
<1>5. Vector(vs).t = "vector" /\ Vector(vs).items = vs
  BY DEF Vector
<1>6. DOMAIN vs = DOMAIN items /\ \A k \in DOMAIN items : vs[k] = Entry(items[k]).cell
  BY <1>1
<1>7. Len(vs) = Len(items)
  <2>1. DOMAIN items = 1..Len(items) /\ Len(items) \in Nat
    BY DEF IsSequence
  <2>2. vs = [k \in 1..Len(items) |-> vs[k]]
    BY <1>1, <2>1
  <2> HIDE DEF vs
  <2>3. Len([k \in 1..Len(items) |-> vs[k]]) = Len(items)
    BY <2>1
  <2>4. QED
    BY <2>2, <2>3
<1> HIDE DEF vs, r
<1>8. QED
  BY <1>3, <1>4, <1>5, <1>6, <1>7 DEF r, es

(***************************************************************************)
(* The value of a cell.                                                    *)
(***************************************************************************)
\* The types of fields are told apart by their names.
LEMMA Natives ==
  ASSUME NEW t \in DOMAIN Bits
  PROVE  t \in {"int8", "int16", "int32", "int64"}
BY FormatsAssumption

\* What lowering makes of a value for a column that holds no vectors.
LEMMA PlainLowered ==
  ASSUME NEW v, NEW c, Written(req.op, v), ~IsVector(c)
  PROVE  Lowered(v, c) = Yes(IF v.t \in {"array", "object"} THEN Raw(v) ELSE v)
<1>1. CASE req.op = "index"
  BY <1>1 DEF Lowered, DecodeWriteValue
<1>2. CASE req.op # "index"
  <2>1. v.t \notin {"array", "object"}
    BY <1>2 DEF Written
  <2>2. QED
    BY <1>2, <2>1 DEF Lowered, WriteLiteral
<1>3. QED
  BY <1>1, <1>2

\* What the code has a storage form for, and what it sends: what its comments
\* promise, less what it turns away.
Keeps(f, w) == HasForm(f, w) /\ ~TurnedAway(f, w)

Kept(f, w) ==
  IF w = Absent THEN f.auto \/ f.nullable
  ELSE ~f.auto /\ IF w = Nil THEN f.nullable ELSE Keeps(f, w)

Sendable ==
  /\ Literals(req.groups)
  /\ \A g \in ToSet(req.groups) : Len(g) = Width
  /\ \A p \in DOMAIN req.cols : \E i \in DOMAIN Fields : p \in Places(i)
  /\ ~Twice(req.cols)
  /\ \A i \in DOMAIN Fields : \A r \in RowNumbers : Kept(Fields[i], Wanted(r, i))
  /\ req.op = "update" =>
       \A i \in DOMAIN Fields : \A p \in Places(i) :
         Fields[i].native = "float_vector" => Readable(req.groups[1][p])

\* A value written for a field without vectors: writeValue takes it over exactly if it has
\* a form, and as what it means.
LEMMA PlainStored ==
  ASSUME NEW f, NEW v, Written(req.op, v), v # Nil, f.native # "float_vector"
  PROVE  LET r == WriteValue(f, IF v.t \in {"array", "object"} THEN Raw(v) ELSE v)
         IN /\ r.ok <=> Keeps(f, v)
            /\ r.ok => r.cell # Nil /\ Means(f, v, r.cell)
<1> DEFINE l == IF v.t \in {"array", "object"} THEN Raw(v) ELSE v
           r == WriteValue(f, l)
<1>1. /\ v.t \in {"bool", "number", "string", "array", "object", "unsupported"}
      /\ v # Absent /\ l # Nil
      /\ v.t \in {"array", "object"} => l = Raw(v) /\ l.t = "raw"
      /\ v.t \notin {"array", "object"} => l = v
  <2>1. v.t \in {"bool", "number", "string", "array", "object", "unsupported"}
    BY DEF Written
  <2>2. v # Absent /\ Raw(v) # Nil /\ Raw(v).t = "raw"
    BY <2>1 DEF Absent, Raw, Nil
  <2>3. QED
    BY <2>1, <2>2
<1> HIDE DEF l
<1>2. v.t = "number" => IsNumber(v)
  BY DEF Written, IsNumber
<1>3. \A c : Yes(c).ok /\ Yes(c).cell = c /\ ~No.ok
  BY DEF Yes, No
<1>4. v \notin {Absent, Nil}
  BY <1>1
<1>5. CASE f.native \in DOMAIN Bits
  <2>1. f.native \in {"int8", "int16", "int32", "int64"}
    BY <1>5, Natives
  <2>2. r = IF ToInt64(l).ok /\ InBounds(f.native, ToInt64(l).cell)
            THEN Yes(Whole(f.native, ToInt64(l).cell)) ELSE No
    BY <1>1, <1>5, <2>1 DEF WriteValue
  <2>3. Keeps(f, v) <=> IF v.t = "number" THEN FitsInteger(f, v) ELSE v.t \in {"int64", "int32"}
    BY <1>5, <2>1 DEF Keeps, HasForm, TurnedAway
  <2> HIDE DEF r
  <2>4. CASE v.t = "number"
    <3> DEFINE n == ToInt64(v).cell
    <3>1. l = v
      BY <1>1, <2>4
    <3>2. r.ok <=> FitsInteger(f, v)
      BY <1>2, <1>3, <1>5, <2>2, <2>4, <3>1, IntegerStored
    <3>3. r.ok => r.cell = Whole(f.native, n)
      BY <1>3, <2>2, <3>1
    <3>4. ASSUME r.ok PROVE Means(f, v, Whole(f.native, n))
      <4>1. IF v.integer THEN 4 * n = v.q ELSE 2 * Size(4 * n - v.q) <= Ulp(Size(v.q), Mantissa)
        BY <1>2, <1>5, <2>4, <3>2, <3>4, IntegerStored
      <4> HIDE DEF n
      <4>2. Whole(f.native, n).t = f.native /\ Whole(f.native, n).n = n
        BY DEF Whole
      <4>3. QED
        BY <1>4, <1>5, <2>1, <2>4, <4>1, <4>2 DEF Means
    <3>5. Whole(f.native, n) # Nil
      BY <2>1 DEF Whole, Nil
    <3>6. QED
      BY <2>3, <2>4, <3>2, <3>3, <3>4, <3>5 DEF r, l
  <2>5. CASE v.t # "number"
    <3>1. l.t \in {"bool", "string", "raw", "unsupported"}
      BY <1>1, <2>5
    <3>2. ToInt64(l) = No
      BY <3>1 DEF ToInt64
    <3>3. ~r.ok /\ ~Keeps(f, v)
      BY <1>1, <1>3, <2>2, <2>3, <2>5, <3>2
    <3>4. QED
      BY <3>3 DEF r, l
  <2>6. QED
    BY <2>4, <2>5
<1>6. CASE f.native \in {"float32", "float64"}
  <2>1. f.native \notin DOMAIN Bits
    BY <1>6, Natives
  <2> DEFINE x == Nearest(v.q, Mantissa)
  <2>2. r = IF f.native = "float64"
            THEN IF ToFloat64(l).ok THEN Yes(Float("float64", ToFloat64(l).cell)) ELSE No
            ELSE IF ToFloat64(l).ok /\ Size(ToFloat64(l).cell) <= Float32Top
                 THEN Yes(Float("float32", Nearest(ToFloat64(l).cell, Mantissa32))) ELSE No
    BY <1>1, <1>6, <2>1 DEF WriteValue
  <2>3. Keeps(f, v) <=> \/ v.t \in {"float32", "float64"}
                        \/ v.t = "number" /\ Size(x) <= IF f.native = "float32" THEN Float32Top ELSE FloatTop
    <3>1. ~TurnedAway(f, v)
      BY <1>6, <2>1 DEF TurnedAway
    <3>2. HasForm(f, v) <=> \/ v.t \in {"float32", "float64"}
                            \/ /\ v.t = "number"
                               /\ Size(Nearest(v.q, Mantissa)) <= IF f.native = "float32" THEN Float32Top ELSE FloatTop
      BY <1>6, <2>1 DEF HasForm
    <3>3. QED
      BY <3>1, <3>2 DEF Keeps
  <2> HIDE DEF r
  <2>4. \A t, q : Float(t, q).t = t /\ Float(t, q).q = q
    BY DEF Float
  <2>5. CASE v.t = "number"
    <3>1. l = v
      BY <1>1, <2>5
    <3>2. /\ ToFloat64(v).ok <=> Size(x) <= FloatTop
          /\ ToFloat64(v).ok => ToFloat64(v).cell = x
          /\ Near(x, v.q, Mantissa) /\ Near(Nearest(x, Mantissa32), v.q, Mantissa32)
          /\ Size(x) \in Nat
      BY <1>2, <2>5, FloatStored
    <3> HIDE DEF x
    <3>3. Size(x) <= Float32Top => Size(x) <= FloatTop
      BY <3>2, Tops, Formats
    <3>4. CASE f.native = "float64"
      <4>1. r.ok <=> Size(x) <= FloatTop
        BY <1>3, <2>2, <3>1, <3>2, <3>4
      <4>2. r.ok => r.cell = Float("float64", x)
        BY <1>3, <2>2, <3>1, <3>2, <3>4
      <4>3. Means(f, v, Float("float64", x))
        BY <1>4, <2>1, <2>4, <2>5, <3>2, <3>4 DEF Means
      <4>4. Float("float64", x) # Nil
        BY DEF Float, Nil
      <4>5. QED
        BY <2>3, <2>5, <3>4, <4>1, <4>2, <4>3, <4>4 DEF r, l
    <3>5. CASE f.native = "float32"
      <4>1. r.ok <=> Size(x) <= Float32Top
        BY <1>3, <2>2, <3>1, <3>2, <3>3, <3>5
      <4>2. r.ok => r.cell = Float("float32", Nearest(x, Mantissa32))
        BY <1>3, <2>2, <3>1, <3>2, <3>5
      <4>3. Means(f, v, Float("float32", Nearest(x, Mantissa32)))
        BY <1>4, <2>1, <2>4, <2>5, <3>2, <3>5 DEF Means
      <4>4. \A y : Float("float32", y) # Nil
        BY DEF Float, Nil
      <4>5. QED
        BY <2>3, <2>5, <3>5, <4>1, <4>2, <4>3, <4>4 DEF r, l
    <3>6. QED
      BY <1>6, <3>4, <3>5
  <2>6. CASE v.t # "number"
    <3>1. l.t \in {"bool", "string", "raw", "unsupported"}
      BY <1>1, <2>6
    <3>2. ToFloat64(l) = No
      BY <3>1 DEF ToFloat64
    <3>3. ~r.ok /\ ~Keeps(f, v)
      BY <1>1, <1>3, <2>2, <2>3, <2>6, <3>2
    <3>4. QED
      BY <3>3 DEF r, l
  <2>7. QED
    BY <2>5, <2>6
<1>7. CASE f.native = "json"
  <2>1. f.native \notin DOMAIN Bits
    BY <1>7, Natives
  <2>2. r = IF l.t = "raw" THEN Yes(l) ELSE IF l.t = "string" /\ l.json THEN Yes(Raw(l)) ELSE No
    BY <1>1, <1>7, <2>1 DEF WriteValue
  <2>3. Keeps(f, v) <=> v.t \in {"raw", "array", "object"} \/ (v.t = "string" /\ v.json)
    BY <1>7, <2>1 DEF Keeps, HasForm, TurnedAway
  <2>4. \A c : Means(f, v, c) <=> c = IF v.t = "raw" THEN v ELSE Raw(v)
    BY <1>4, <1>7, <2>1 DEF Means
  <2>5. Raw(v) # Nil
    BY DEF Raw, Nil
  <2> HIDE DEF r
  <2>6. CASE v.t \in {"array", "object"}
    BY <1>1, <1>3, <2>2, <2>3, <2>4, <2>5, <2>6 DEF r, l
  <2>7. CASE v.t \notin {"array", "object"}
    <3>1. l = v /\ v.t # "raw"
      BY <1>1, <2>7
    <3>2. r = IF v.t = "string" /\ v.json THEN Yes(Raw(v)) ELSE No
      BY <2>2, <3>1
    <3>3. r.ok <=> Keeps(f, v)
      BY <1>3, <2>3, <2>7, <3>1, <3>2
    <3>4. r.ok => r.cell = Raw(v)
      BY <1>3, <3>2
    <3>5. QED
      BY <2>4, <2>5, <3>1, <3>3, <3>4 DEF r, l
  <2>8. QED
    BY <2>6, <2>7
<1>8. CASE f.native \in {"string", "bool"}
  <2>1. f.native \notin DOMAIN Bits
    BY <1>8, Natives
  <2>2. r = IF l.t = f.native /\ (f.native = "string" => f.max = 0 \/ l.len <= f.max) THEN Yes(l) ELSE No
    BY <1>1, <1>8, <2>1 DEF WriteValue
  <2>3. Keeps(f, v) <=> v.t = f.native /\ (f.native = "string" => f.max = 0 \/ v.len <= f.max)
    BY <1>8, <2>1 DEF Keeps, HasForm, TurnedAway
  <2>4. \A c : Means(f, v, c) <=> c = v
    BY <1>4, <1>8, <2>1 DEF Means
  <2> HIDE DEF r
  <2>5. l.t = f.native => l = v
    BY <1>1, <1>8
  <2>6. v.t = f.native => l = v
    BY <1>1, <1>8
  <2>7. QED
    BY <1>1, <1>3, <2>2, <2>3, <2>4, <2>5, <2>6 DEF r, l
<1>9. CASE f.native \notin Writable
  <2>1. r = No
    BY <1>1, <1>9 DEF WriteValue, Writable
  <2>2. ~Keeps(f, v)
    BY <1>9 DEF Keeps, HasForm, TurnedAway, Writable
  <2>3. QED
    BY <1>3, <2>1, <2>2 DEF r, l
<1>10. QED
  BY <1>5, <1>6, <1>7, <1>8, <1>9 DEF Writable

\* A value written for a vector column.
LEMMA VectorStored ==
  ASSUME NEW f, NEW v, NEW c, Written(req.op, v), v # Nil, f.native = "float_vector", IsVector(c)
  PROVE  /\ (Lowered(v, c).ok /\ WriteValue(f, Lowered(v, c).cell).ok) <=> Keeps(f, v)
         /\ Keeps(f, v) => /\ WriteValue(f, Lowered(v, c).cell).cell # Nil
                           /\ Means(f, v, WriteValue(f, Lowered(v, c).cell).cell)
         /\ req.op # "index" => (Lowered(v, c).ok <=> Readable(v))
<1> DEFINE L == Lowered(v, c)
           text == IF req.op = "index" THEN "array" ELSE "string"
<1>1. /\ v.t \in {"bool", "number", "string"} \cup IF req.op = "index" THEN {"array", "object"} ELSE {"unsupported"}
      /\ v.t \in {"string", "array"} => IsSequence(v.items) /\ \A k \in DOMAIN v.items : IsEntry(v.items[k])
  BY DEF Written
<1>2. "float_vector" \notin DOMAIN Bits
  BY Natives
<1>3. \A y : Yes(y).ok /\ Yes(y).cell = y /\ ~No.ok
  BY DEF Yes, No
<1>4. Keeps(f, v) <=> /\ v.t = "vector" \/ v.t = text
                      /\ v.t = "string" => v.items # <<>>
                      /\ f.dim = 0 \/ Len(v.items) = f.dim
                      /\ \A k \in DOMAIN v.items : FitsEntry(v.items[k])
  <2>1. ~TurnedAway(f, v)
    BY <1>2 DEF TurnedAway
  <2>2. HasForm(f, v) <=> /\ v.t = "vector" \/ v.t = text
                          /\ v.t = "string" => v.items # <<>>
                          /\ f.dim = 0 \/ Len(v.items) = f.dim
                          /\ \A k \in DOMAIN v.items : FitsEntry(v.items[k])
    BY <1>2 DEF HasForm
  <2>3. QED
    BY <2>1, <2>2 DEF Keeps
<1>5. \A w : w # Nil =>
        WriteValue(f, w) = IF /\ w.t = "vector"
                              /\ f.dim = 0 \/ Len(w.items) = f.dim
                              /\ \A k \in DOMAIN w.items : w.items[k] # Inf
                           THEN Yes(w) ELSE No
  BY <1>2 DEF WriteValue
<1>6. v # Absent
  BY <1>1 DEF Absent
<1>7. CASE v.t = text
  <2> DEFINE E == Entries([k \in DOMAIN v.items |-> Entry(v.items[k])])
  <2>1. IsSequence(v.items) /\ \A k \in DOMAIN v.items : IsEntry(v.items[k])
    BY <1>1, <1>7
  <2>2. /\ E.ok <=> \A k \in DOMAIN v.items : Entry(v.items[k]).ok
        /\ E.ok => /\ E.cell.t = "vector" /\ DOMAIN E.cell.items = DOMAIN v.items
                   /\ Len(E.cell.items) = Len(v.items)
                   /\ \A k \in DOMAIN v.items : E.cell.items[k] = Entry(v.items[k]).cell
    BY <2>1, EntriesStored
  <2>3. L = IF v.t = "string" /\ v.items = <<>> THEN No ELSE E
    <3>1. CASE req.op = "index"
      <4>1. [k \in DOMAIN v.items |-> JsonEntry(v.items[k])] = [k \in DOMAIN v.items |-> Entry(v.items[k])]
        BY <3>1 DEF Entry
      <4>2. L = Entries([k \in DOMAIN v.items |-> JsonEntry(v.items[k])])
        BY <1>7, <3>1 DEF Lowered, DecodeWriteValue
      <4>3. QED
        BY <1>7, <3>1, <4>1, <4>2
    <3>2. CASE req.op # "index"
      <4>1. [k \in DOMAIN v.items |-> SqlEntry(v.items[k])] = [k \in DOMAIN v.items |-> Entry(v.items[k])]
        BY <3>2 DEF Entry
      <4>2. L = IF v.items = <<>> THEN No ELSE Entries([k \in DOMAIN v.items |-> SqlEntry(v.items[k])])
        BY <1>7, <3>2 DEF Lowered, WriteLiteral
      <4>3. QED
        BY <1>7, <3>2, <4>1, <4>2
    <3>3. QED
      BY <3>1, <3>2
  <2> HIDE DEF E, L
  <2>4. \A k \in DOMAIN v.items :
          /\ (Entry(v.items[k]).ok /\ Entry(v.items[k]).cell # Inf) <=> FitsEntry(v.items[k])
          /\ FitsEntry(v.items[k]) => Near(Entry(v.items[k]).cell.q, v.items[k].q, Mantissa32)
          /\ req.op # "index" => (Entry(v.items[k]).ok <=> v.items[k].k = "inf" \/ FitsEntry(v.items[k]))
    BY <2>1, EntryStored
  <2>5. CASE v.t = "string" /\ v.items = <<>>
    <3>1. ~L.ok /\ ~Keeps(f, v)
      BY <1>3, <1>4, <2>3, <2>5
    <3>2. ~Readable(v)
      BY <2>5 DEF Readable
    <3>3. QED
      BY <3>1, <3>2 DEF L
  <2>6. CASE ~(v.t = "string" /\ v.items = <<>>)
    <3>1. L = E
      BY <2>3, <2>6
    <3>2. CASE ~E.ok
      <4>1. PICK k \in DOMAIN v.items : ~Entry(v.items[k]).ok
        BY <2>2, <3>2
      <4>2. ~FitsEntry(v.items[k]) /\ (req.op # "index" => v.items[k].k # "inf")
        BY <2>4, <4>1
      <4>3. ~Keeps(f, v)
        BY <1>4, <4>1, <4>2
      <4>4. req.op # "index" => ~Readable(v)
        BY <1>7, <4>1, <4>2 DEF Readable
      <4>5. QED
        BY <3>1, <3>2, <4>3, <4>4 DEF L
    <3>3. CASE E.ok
      <4>1. E.cell # Nil
        BY <2>2, <3>3 DEF Nil
      <4>2. (\A k \in DOMAIN v.items : E.cell.items[k] # Inf) <=> \A k \in DOMAIN v.items : FitsEntry(v.items[k])
        BY <2>2, <2>4, <3>3
      <4>3. WriteValue(f, E.cell) = IF /\ f.dim = 0 \/ Len(v.items) = f.dim
                                       /\ \A k \in DOMAIN v.items : FitsEntry(v.items[k])
                                    THEN Yes(E.cell) ELSE No
        BY <1>5, <2>2, <3>3, <4>1, <4>2
      <4>4. WriteValue(f, E.cell).ok <=> Keeps(f, v)
        BY <1>3, <1>4, <1>7, <2>6, <4>3
      <4>5. ASSUME Keeps(f, v) PROVE WriteValue(f, E.cell).cell = E.cell /\ Means(f, v, E.cell)
        <5>1. WriteValue(f, E.cell).cell = E.cell
          BY <1>3, <1>4, <4>3, <4>5
        <5>2. \A k \in DOMAIN v.items : Near(E.cell.items[k].q, v.items[k].q, Mantissa32)
          BY <1>4, <2>2, <2>4, <3>3, <4>5
        <5>3. QED
          BY <1>2, <1>6, <2>2, <3>3, <5>1, <5>2 DEF Means
      <4>6. req.op # "index" => Readable(v)
        BY <2>2, <2>4, <2>6, <3>3 DEF Readable
      <4>7. QED
        BY <3>1, <3>3, <4>1, <4>4, <4>5, <4>6 DEF L
    <3>4. QED
      BY <3>2, <3>3
  <2>7. QED
    BY <2>5, <2>6
<1>8. CASE v.t # text
  <2>1. ~Keeps(f, v)
    BY <1>1, <1>4, <1>8
  <2>2. L = Yes(v) \/ (L = No /\ req.op = "index")
    <3>1. CASE req.op = "index"
      BY <1>1, <1>8, <3>1 DEF Lowered, DecodeWriteValue
    <3>2. CASE req.op # "index"
      BY <1>1, <1>8, <3>2 DEF Lowered, WriteLiteral
    <3>3. QED
      BY <3>1, <3>2
  <2>3. WriteValue(f, v) = No
    BY <1>1, <1>5
  <2>4. req.op # "index" => Readable(v)
    BY <1>8 DEF Readable
  <2> HIDE DEF L
  <2>5. ~(L.ok /\ WriteValue(f, L.cell).ok) /\ (req.op # "index" => L.ok)
    BY <1>3, <2>2, <2>3
  <2>6. QED
    BY <2>1, <2>4, <2>5 DEF L
<1>9. QED
  BY <1>7, <1>8

\* The verdict on a value that is written, and what is stored of it.
LEMMA LiteralStored ==
  ASSUME NEW f, NEW v, NEW c, Written(req.op, v), v # Nil, IsVector(c) <=> f.native = "float_vector"
  PROVE  /\ (Lowered(v, c).ok /\ WriteValue(f, Lowered(v, c).cell).ok) <=> Keeps(f, v)
         /\ Keeps(f, v) => /\ WriteValue(f, Lowered(v, c).cell).cell # Nil
                           /\ Means(f, v, WriteValue(f, Lowered(v, c).cell).cell)
         /\ req.op # "index" => (Lowered(v, c).ok <=> (f.native = "float_vector" => Readable(v)))
<1>1. CASE f.native = "float_vector"
  BY <1>1, VectorStored
<1>2. CASE f.native # "float_vector"
  <2> DEFINE l == IF v.t \in {"array", "object"} THEN Raw(v) ELSE v
  <2>1. Lowered(v, c) = Yes(l)
    BY <1>2, PlainLowered
  <2>2. Lowered(v, c).ok /\ Lowered(v, c).cell = l
    BY <2>1 DEF Yes
  <2>3. /\ WriteValue(f, l).ok <=> Keeps(f, v)
        /\ WriteValue(f, l).ok => WriteValue(f, l).cell # Nil /\ Means(f, v, WriteValue(f, l).cell)
    BY <1>2, PlainStored
  <2> HIDE DEF l
  <2>4. QED
    BY <1>2, <2>2, <2>3
<1>3. QED
  BY <1>1, <1>2

\* NULL, as it is written or as it was fetched.
LEMMA NilStored ==
  ASSUME NEW f
  PROVE  /\ \A c : Lowered(Nil, c) = Yes(Nil)
         /\ WriteValue(f, Nil).ok <=> f.nullable
         /\ WriteValue(f, Nil).ok => WriteValue(f, Nil).cell = Nil
         /\ \A c : Means(f, Nil, c) <=> c = Nil
<1>1. Nil.t = "nil"
  BY DEF Nil
<1>2. \A c : Lowered(Nil, c) = Yes(Nil)
  BY <1>1 DEF Lowered, DecodeWriteValue, WriteLiteral
<1>3. WriteValue(f, Nil) = IF f.nullable THEN Yes(Nil) ELSE No
  BY DEF WriteValue
<1>4. \A c : Means(f, Nil, c) <=> c = Nil
  BY DEF Means
<1>5. QED
  BY <1>2, <1>3, <1>4 DEF Yes, No

\* The verdict on a fetched value.
LEMMA HeldStored ==
  ASSUME NEW f, NEW v, Held(f, v), v # Nil, req.op = "update"
  PROVE  /\ v # Absent
         /\ WriteValue(f, v).ok <=> Keeps(f, v)
         /\ WriteValue(f, v).ok => WriteValue(f, v).cell # Nil /\ Means(f, v, WriteValue(f, v).cell)
<1> DEFINE r == WriteValue(f, v)
<1>1. \A y : Yes(y).ok /\ Yes(y).cell = y /\ ~No.ok
  BY DEF Yes, No
<1>2. \A z : z.t # "absent" => z # Absent
  BY DEF Absent
<1>3. CASE f.native \in DOMAIN Bits
  <2>1. f.native \in {"int8", "int16", "int32", "int64"}
    BY <1>3, Natives
  <2>2. v = Whole(f.native, v.n) /\ InBounds(f.native, v.n)
    BY <1>3, <2>1 DEF Held, Writable
  <2>3. v.t = f.native
    BY <2>2 DEF Whole
  <2>4. r = IF ToInt64(v).ok /\ InBounds(f.native, ToInt64(v).cell)
            THEN Yes(Whole(f.native, ToInt64(v).cell)) ELSE No
    BY <1>3, <2>1 DEF WriteValue
  <2>5. Keeps(f, v) <=> v.t \in {"int64", "int32"}
    BY <1>3, <2>1, <2>3 DEF Keeps, HasForm, TurnedAway
  <2>6. ToInt64(v) = IF v.t \in {"int64", "int32"} THEN Yes(v.n) ELSE No
    BY <2>1, <2>3 DEF ToInt64
  <2>7. r = IF v.t \in {"int64", "int32"} THEN Yes(v) ELSE No
    BY <1>1, <2>2, <2>4, <2>6
  <2>8. Means(f, v, v)
    BY <1>2, <1>3, <2>1, <2>3 DEF Means
  <2> HIDE DEF r
  <2>9. QED
    BY <1>1, <1>2, <2>1, <2>3, <2>5, <2>7, <2>8 DEF r
<1>4. CASE f.native = "float64"
  <2>1. f.native \notin DOMAIN Bits
    BY <1>4, Natives
  <2>2. v = Float("float64", v.q)
    BY <1>4, <2>1 DEF Held, Writable
  <2>3. v.t = "float64"
    BY <2>2 DEF Float
  <2>4. ToFloat64(v) = Yes(v.q)
    BY <2>3 DEF ToFloat64
  <2>5. r = Yes(v)
    BY <1>1, <1>4, <2>1, <2>2, <2>4 DEF WriteValue
  <2>6. Keeps(f, v) /\ Means(f, v, v)
    BY <1>2, <1>4, <2>1, <2>3 DEF Keeps, HasForm, TurnedAway, Means
  <2> HIDE DEF r
  <2>7. QED
    BY <1>1, <1>2, <2>3, <2>5, <2>6 DEF r
<1>5. CASE f.native = "float32"
  <2>1. f.native \notin DOMAIN Bits
    BY <1>5, Natives
  <2>2. v = Float("float32", v.q) /\ IsFloat(v.q, Mantissa32, Float32Top)
    BY <1>5, <2>1 DEF Held, Writable
  <2>3. v.t = "float32"
    BY <2>2 DEF Float
  <2>4. ToFloat64(v) = Yes(v.q)
    BY <2>3 DEF ToFloat64
  <2>5. r = Yes(v)
    BY <1>1, <1>5, <2>1, <2>2, <2>4 DEF WriteValue, IsFloat
  <2>6. Keeps(f, v) /\ Means(f, v, v)
    BY <1>2, <1>5, <2>1, <2>3 DEF Keeps, HasForm, TurnedAway, Means
  <2> HIDE DEF r
  <2>7. QED
    BY <1>1, <1>2, <2>3, <2>5, <2>6 DEF r
<1>6. CASE f.native = "float_vector"
  <2>1. f.native \notin DOMAIN Bits
    BY <1>6, Natives
  <2>2. /\ v = Vector(v.items)
        /\ \A k \in DOMAIN v.items :
             v.items[k] = Num(v.items[k].q) /\ IsFloat(v.items[k].q, Mantissa32, Float32Top)
    BY <1>6, <2>1 DEF Held, Writable
  <2>3. v.t = "vector"
    BY <2>2 DEF Vector
  <2>4. \A k \in DOMAIN v.items : v.items[k].k = "num" /\ v.items[k] # Inf
    <3>1. \A n : Num(n).k = "num"
      BY DEF Num
    <3>2. Inf.k = "inf"
      BY DEF Inf
    <3>3. ASSUME NEW k \in DOMAIN v.items PROVE v.items[k].k = "num"
      <4> DEFINE e == v.items[k]
      <4>1. e = Num(e.q)
        BY <2>2
      <4> HIDE DEF e
      <4>2. e.k = "num"
        BY <3>1, <4>1
      <4>3. QED
        BY <4>2 DEF e
    <3>4. QED
      BY <3>2, <3>3
  <2>5. \A k \in DOMAIN v.items : FitsEntry(v.items[k])
    BY <2>2, <2>4 DEF FitsEntry, IsFloat
  <2>6. \A k \in DOMAIN v.items : Near(v.items[k].q, v.items[k].q, Mantissa32)
    <3> SUFFICES ASSUME NEW k \in DOMAIN v.items PROVE Near(v.items[k].q, v.items[k].q, Mantissa32)
      OBVIOUS
    <3>1. v.items[k].q \in Int
      BY <2>2 DEF IsFloat
    <3>2. Size(v.items[k].q - v.items[k].q) = 0 /\ Ulp(Size(v.items[k].q), Mantissa32) \in Nat
      <4>1. Ulp(Size(v.items[k].q), Mantissa32) \in Nat
        BY <3>1, Formats, Signed
      <4>2. QED
        BY <3>1, <4>1 DEF Size
    <3>3. QED
      BY <3>2 DEF Near
  <2>7. r = IF f.dim = 0 \/ Len(v.items) = f.dim THEN Yes(v) ELSE No
    BY <1>6, <2>1, <2>3, <2>4 DEF WriteValue
  <2>8. Keeps(f, v) <=> f.dim = 0 \/ Len(v.items) = f.dim
    BY <1>6, <2>1, <2>3, <2>5 DEF Keeps, HasForm, TurnedAway
  <2>9. Means(f, v, v)
    BY <1>2, <1>6, <2>1, <2>3, <2>6 DEF Means
  <2> HIDE DEF r
  <2>10. QED
    BY <1>1, <1>2, <2>3, <2>7, <2>8, <2>9 DEF r
<1>7. CASE f.native \in {"json", "string", "bool"}
  <2>1. f.native \notin DOMAIN Bits
    BY <1>7, Natives
  <2>2. IF f.native = "json" THEN v.t = "raw" ELSE v.t = f.native
    BY <1>7, <2>1 DEF Held, Writable
  <2>3. r = IF f.native = "string" => f.max = 0 \/ v.len <= f.max THEN Yes(v) ELSE No
    BY <1>7, <2>1, <2>2 DEF WriteValue
  <2>4. Keeps(f, v) <=> (f.native = "string" => f.max = 0 \/ v.len <= f.max)
    BY <1>7, <2>1, <2>2 DEF Keeps, HasForm, TurnedAway
  <2>5. v.t # "absent"
    BY <1>7, <2>2
  <2>6. Means(f, v, v)
    BY <1>2, <1>7, <2>1, <2>2, <2>5 DEF Means
  <2> HIDE DEF r
  <2>7. QED
    BY <1>1, <1>2, <2>3, <2>4, <2>5, <2>6 DEF r
<1>8. CASE f.native \notin Writable
  <2>1. v.t = "opaque"
    BY <1>8 DEF Held, Writable
  <2>2. r = No
    BY <1>8 DEF WriteValue, Writable
  <2>3. ~Keeps(f, v)
    BY <1>8 DEF Keeps, HasForm, TurnedAway, Writable
  <2> HIDE DEF r
  <2>4. QED
    BY <1>1, <1>2, <2>1, <2>2, <2>3 DEF r
<1>9. QED
  BY <1>3, <1>4, <1>5, <1>6, <1>7, <1>8 DEF Writable

(***************************************************************************)
(* compact.                                                                *)
(***************************************************************************)
\* How many of the first k cells are there.
Filled(s, k) == {j \in 1..k : s[j] # Nil}

\* The places of the cells that are there, counted from the left.
LEMMA FilledCount ==
  ASSUME NEW s, NEW k \in Nat
  PROVE  /\ Cardinality(Filled(s, k)) \in Nat /\ Cardinality(Filled(s, 0)) = 0
         /\ Cardinality(Filled(s, k + 1)) =
              IF s[k + 1] # Nil THEN Cardinality(Filled(s, k)) + 1 ELSE Cardinality(Filled(s, k))
<1>1. IsFiniteSet(Filled(s, k))
  <2>1. IsFiniteSet(1..k) /\ Filled(s, k) \subseteq 1..k
    BY FS_Interval DEF Filled
  <2>2. QED
    BY <2>1, FS_Subset
<1>2. Cardinality(Filled(s, k)) \in Nat
  BY <1>1, FS_CardinalityType
<1>3. Cardinality(Filled(s, 0)) = 0
  <2>1. Filled(s, 0) = {}
    BY DEF Filled
  <2>2. QED
    BY <2>1, FS_EmptySet
<1>4. CASE s[k + 1] # Nil
  <2>1. Filled(s, k + 1) = Filled(s, k) \cup {k + 1} /\ k + 1 \notin Filled(s, k)
    BY <1>4 DEF Filled
  <2>2. Cardinality(Filled(s, k) \cup {k + 1}) = Cardinality(Filled(s, k)) + 1
    BY <1>1, <2>1, FS_AddElement
  <2>3. QED
    BY <1>2, <1>3, <1>4, <2>1, <2>2
<1>5. CASE s[k + 1] = Nil
  <2>1. Filled(s, k + 1) = Filled(s, k)
    BY <1>5 DEF Filled
  <2>2. QED
    BY <1>2, <1>3, <1>5, <2>1
<1>6. QED
  BY <1>4, <1>5

\* u is the loop of compact over s.
IsCompaction(u, s) ==
  u = [n \in 0..Len(s) |-> IF n = 0 THEN <<>> ELSE IF s[n] = Nil THEN u[n - 1] ELSE Append(u[n - 1], s[n])]

\* compact: what the loop has appended after each cell.
LEMMA CompactLoop ==
  ASSUME NEW s, IsSequence(s)
  PROVE  \E u : /\ Compact(s) = u[Len(s)] /\ u[0] = <<>>
                /\ \A n \in 1..Len(s) : u[n] = IF s[n] = Nil THEN u[n - 1] ELSE Append(u[n - 1], s[n])
<1> DEFINE S == Seq(ToSet(s))
           step == [p \in Nat \X S |-> IF p[1] + 1 \in DOMAIN s /\ s[p[1] + 1] # Nil
                                       THEN Append(p[2], s[p[1] + 1]) ELSE p[2]]
<1>1. s \in S /\ Len(s) \in Nat /\ DOMAIN s = 1..Len(s) /\ \A n \in DOMAIN s : s[n] \in ToSet(s)
  BY DEF IsSequence, ToSet
<1>2. <<>> \in S
  OBVIOUS
<1>3. IsStep(step, S)
  <2>1. ASSUME NEW p \in Nat \X S PROVE step[p] \in S
    <3>1. p[2] \in S /\ p[1] \in Nat
      OBVIOUS
    <3>2. p[1] + 1 \in DOMAIN s => Append(p[2], s[p[1] + 1]) \in S
      BY <1>1, <3>1
    <3>3. QED
      BY <3>1, <3>2
  <2>2. QED
    BY <2>1 DEF IsStep
<1>4. \A n \in Nat, t \in S : step[<<n, t>>] = IF n + 1 \in DOMAIN s /\ s[n + 1] # Nil THEN Append(t, s[n + 1]) ELSE t
  OBVIOUS
<1> HIDE DEF step, S
<1>5. PICK f : IsLoop(f, S, <<>>, step)
  BY <1>2, <1>3, Loop
<1>6. f[0] = <<>> /\ \A n \in Nat : f[n] \in S /\ f[n + 1] = step[<<n, f[n]>>]
  BY <1>5 DEF IsLoop
<1>7. \A n \in Nat : f[n + 1] = IF n + 1 \in DOMAIN s /\ s[n + 1] # Nil THEN Append(f[n], s[n + 1]) ELSE f[n]
  BY <1>4, <1>6
<1> DEFINE g == [n \in 0..Len(s) |-> f[n]]
<1>8. IsCompaction(g, s)
  <2>1. ASSUME NEW n \in 0..Len(s)
        PROVE  g[n] = IF n = 0 THEN <<>> ELSE IF s[n] = Nil THEN g[n - 1] ELSE Append(g[n - 1], s[n])
    <3>1. CASE n = 0
      BY <1>6, <3>1
    <3>2. CASE n # 0
      <4>1. n - 1 \in Nat /\ (n - 1) + 1 = n /\ n \in DOMAIN s /\ n - 1 \in 0..Len(s)
        BY <1>1, <3>2
      <4>2. f[n] = IF s[n] # Nil THEN Append(f[n - 1], s[n]) ELSE f[n - 1]
        BY <1>7, <4>1
      <4>3. g[n] = f[n] /\ g[n - 1] = f[n - 1]
        BY <4>1
      <4>4. QED
        BY <3>2, <4>2, <4>3
    <3>3. QED
      BY <3>1, <3>2
  <2> DEFINE F(n) == IF n = 0 THEN <<>> ELSE IF s[n] = Nil THEN g[n - 1] ELSE Append(g[n - 1], s[n])
  <2>2. \A n \in 0..Len(s) : g[n] = F(n)
    BY <2>1
  <2>3. g = [n \in 0..Len(s) |-> g[n]]
    OBVIOUS
  <2> HIDE DEF g, F
  <2>4. g = [n \in 0..Len(s) |-> F(n)]
    BY <2>2, <2>3
  <2>5. QED
    BY <2>4 DEF F, IsCompaction
<1> DEFINE u == CHOOSE h : IsCompaction(h, s)
<1>9. IsCompaction(u, s)
  <2> HIDE DEF g
  <2>1. QED
    BY <1>8
<1>10. Compact(s) = u[Len(s)]
  BY DEF Compact, IsCompaction
<1> HIDE DEF u, g
<1>11. u[0] = <<>> /\ \A n \in 1..Len(s) : u[n] = IF s[n] = Nil THEN u[n - 1] ELSE Append(u[n - 1], s[n])
  <2>1. 0 \in 0..Len(s) /\ \A n \in 1..Len(s) : n \in 0..Len(s) /\ n # 0
    BY <1>1
  <2>2. \A n \in 0..Len(s) : u[n] = IF n = 0 THEN <<>> ELSE IF s[n] = Nil THEN u[n - 1] ELSE Append(u[n - 1], s[n])
    BY <1>9 DEF IsCompaction
  <2>3. QED
    BY <2>1, <2>2
<1>12. QED
  BY <1>10, <1>11

\* compact keeps the cells that are there, each at the place that the mask counts.
LEMMA CompactKeeps ==
  ASSUME NEW s, IsSequence(s), NEW k \in DOMAIN s, s[k] # Nil
  PROVE  Compact(s)[Cardinality(Filled(s, k))] = s[k]
<1>1. s \in Seq(ToSet(s)) /\ Len(s) \in Nat /\ DOMAIN s = 1..Len(s) /\ \A n \in DOMAIN s : s[n] \in ToSet(s)
  BY DEF IsSequence, ToSet
<1>2. PICK u : /\ Compact(s) = u[Len(s)] /\ u[0] = <<>>
               /\ \A n \in 1..Len(s) : u[n] = IF s[n] = Nil THEN u[n - 1] ELSE Append(u[n - 1], s[n])
  BY CompactLoop
<1> DEFINE C(n) == Cardinality(Filled(s, n))
           Good(n) == /\ u[n] \in Seq(ToSet(s)) /\ Len(u[n]) = C(n)
                      /\ \A i \in 1..n : s[i] # Nil => C(i) \in 1..C(n) /\ u[n][C(i)] = s[i]
           T == {n \in 0..Len(s) : ~Good(n)}
<1>3. \A n \in Nat : C(n) \in Nat /\ C(0) = 0 /\ C(n + 1) = IF s[n + 1] # Nil THEN C(n) + 1 ELSE C(n)
  BY FilledCount
<1> HIDE DEF C
<1>4. Good(0)
  BY <1>2, <1>3
<1>5. ASSUME NEW n \in 1..Len(s), Good(n - 1) PROVE Good(n)
  <2>1. n - 1 \in Nat /\ (n - 1) + 1 = n /\ n \in DOMAIN s /\ C(n - 1) \in Nat
    <3>1. n - 1 \in Nat /\ (n - 1) + 1 = n /\ n \in DOMAIN s
      BY <1>1
    <3>2. \A j \in Nat : C(j) \in Nat
      BY <1>3
    <3>3. QED
      BY <3>1, <3>2
  <2>2. C(n) = IF s[n] # Nil THEN C(n - 1) + 1 ELSE C(n - 1)
    BY <1>3, <2>1
  <2>3. u[n - 1] \in Seq(ToSet(s)) /\ Len(u[n - 1]) = C(n - 1)
    BY <1>5
  <2>4. CASE s[n] = Nil
    <3>1. u[n] = u[n - 1] /\ C(n) = C(n - 1)
      BY <1>2, <2>2, <2>4
    <3>2. \A i \in 1..n : s[i] # Nil => i \in 1..(n - 1)
      BY <2>4
    <3>3. QED
      BY <1>5, <3>1, <3>2
  <2>5. CASE s[n] # Nil
    <3> DEFINE w == u[n - 1]
               e == s[n]
               m == C(n - 1)
    <3>1. u[n] = Append(w, e) /\ C(n) = m + 1
      BY <1>2, <2>2, <2>5
    <3>2. w \in Seq(ToSet(s)) /\ e \in ToSet(s) /\ Len(w) = m /\ m \in Nat
      BY <1>1, <2>1, <2>3
    <3>3. /\ Append(w, e) \in Seq(ToSet(s)) /\ Len(Append(w, e)) = m + 1
          /\ Append(w, e)[m + 1] = e /\ \A i \in 1..m : Append(w, e)[i] = w[i]
      <4> HIDE DEF w, e, m
      <4>1. QED
        BY <3>2
    <3>4. ASSUME NEW i \in 1..n, s[i] # Nil PROVE C(i) \in 1..C(n) /\ u[n][C(i)] = s[i]
      <4>1. CASE i = n
        BY <3>1, <3>2, <3>3, <4>1
      <4>2. CASE i # n
        <5>1. i \in 1..(n - 1)
          BY <4>2
        <5>2. C(i) \in 1..m /\ w[C(i)] = s[i]
          BY <1>5, <3>4, <5>1
        <5>3. QED
          BY <3>1, <3>2, <3>3, <5>2
      <4>3. QED
        BY <4>1, <4>2
    <3>5. QED
      BY <3>1, <3>2, <3>3, <3>4
  <2>6. QED
    BY <2>4, <2>5
<1> HIDE DEF Good
<1>6. T = {}
  <2>1. SUFFICES ASSUME T # {} PROVE FALSE
    OBVIOUS
  <2>2. T \subseteq Nat
    OBVIOUS
  <2>3. PICK n \in T : \A y \in T : n <= y
    <3> HIDE DEF T
    <3>1. QED
      BY <2>1, <2>2, Least
  <2>4. n \in 1..Len(s) /\ n - 1 \in 0..Len(s) /\ n - 1 \notin T
    BY <1>1, <1>4, <2>3
  <2>5. QED
    BY <1>5, <2>3, <2>4
<1>7. Good(Len(s))
  BY <1>1, <1>6
<1>8. QED
  BY <1>1, <1>2, <1>7 DEF Good, C

(***************************************************************************)
(* The writes.                                                             *)
(***************************************************************************)
(***************************************************************************)
(* The properties.                                                         *)
(***************************************************************************)
Misworded ==
  (req.op = "insert" /\ MiswordedInsert) \/ (req.op = "update" /\ MiswordedUpdate)

\* The columns of row r that go to field i.
Suppliers(r, i) == {c \in DOMAIN rows[r] : Known(c) /\ Target(c) = i}

\* Some part of the write is at fault, said without the tables that
\* validateWriteCells fills and without an order of the cells.
Faulty ==
  \/ Misworded \/ ~Lowerable
  \/ \E r \in DOMAIN rows : \E c \in DOMAIN rows[r] : ~Storable(c, rows[r][c])
  \/ \E r \in DOMAIN rows : \E i \in Required : Suppliers(r, i) = {}

\* A write is sent only if nothing in it is at fault, and refused only if
\* something is: validateWriteCells passes its verdict on the whole batch,
\* in whatever order Go walks the maps of its rows.
DecidedByContent ==
  /\ phase \in {"valid", "sent"} => ~Faulty
  /\ phase = "refused" => Faulty

\* What row r holds in field i, in storage form.
Converted(r, i) ==
  IF Suppliers(r, i) = {} THEN Nil
  ELSE WriteValue(Fields[i], rows[r][CHOOSE c \in Suppliers(r, i) : TRUE]).cell

\* writeColumns sends what the rows hold: each column compacts the converted cells
\* of its field, its mask tells the rows that hold one, and no field that is
\* not sent was given a value.
ColumnsFromRows ==
  phase = "sent" =>
    /\ \A i \in DOMAIN Fields \ DOMAIN cols : \A r \in DOMAIN rows : Converted(r, i) = Nil
    /\ \A i \in DOMAIN cols :
         /\ cols[i].values = Compact([r \in DOMAIN rows |-> Converted(r, i)])
         /\ cols[i].valid = IF Fields[i].nullable THEN [r \in DOMAIN rows |-> Converted(r, i) # Nil] ELSE <<>>

(***************************************************************************)
(* The inductive invariant.                                                *)
(***************************************************************************)
Phases == {"text", "parsed", "lowered", "empty", "valid", "sent", "refused"}
Checking == {"lowered", "valid", "sent"}

\* What the request, its targets and its rows name are columns.
Formed ==
  /\ phase \in Phases
  /\ req.op \in {"insert", "update", "index"}
  /\ \A i \in DOMAIN req.cols : IsColumn(req.cols[i])
  /\ \A r \in DOMAIN req.fetched : \A c \in DOMAIN req.fetched[r] : IsColumn(c)
  /\ \A i \in DOMAIN targets : IsColumn(targets[i])
  /\ \A r \in DOMAIN rows : \A c \in DOMAIN rows[r] : IsColumn(c)

\* What the stages passed so far have found in order.
Passed ==
  /\ phase \notin {"text", "refused"} => ~Misworded
  /\ phase \in Checking => Lowerable
  /\ phase = "refused" => Faulty
  /\ phase \in {"valid", "sent"} => todo = {} /\ Missing = {}

\* The tables have a place for every field and row; what is left to look at is
\* in the rows.
Tables ==
  phase \in Checking =>
    /\ DOMAIN cells = DOMAIN Fields /\ DOMAIN present = DOMAIN Fields
    /\ \A i \in DOMAIN Fields : /\ cells[i] = [r \in DOMAIN rows |-> cells[i][r]]
                               /\ present[i] = [r \in DOMAIN rows |-> present[i][r]]
    /\ \A p \in todo : p[1] \in DOMAIN rows /\ p[2] \in DOMAIN rows[p[1]] /\ p = <<p[1], p[2]>>

\* A cell that was looked at is storable and taken over.
TakenOver ==
  phase \in Checking =>
    \A r \in DOMAIN rows : \A c \in DOMAIN rows[r] :
      <<r, c>> \notin todo =>
        /\ Storable(c, rows[r][c])
        /\ cells[Target(c)][r] = WriteValue(Fields[Target(c)], rows[r][c]).cell
        /\ present[Target(c)][r] = TRUE

\* Nothing else is in the tables.
NothingElse ==
  phase \in Checking =>
    \A i \in DOMAIN Fields : \A r \in DOMAIN rows :
      \/ present[i][r] = FALSE /\ cells[i][r] = Nil
      \/ present[i][r] = TRUE /\ Suppliers(r, i) # {}

\* The columns are made of the tables.
Built ==
  phase = "sent" =>
    cols = [i \in {j \in DOMAIN Fields : ~Fields[j].auto /\ Fields[j].native \in Writable} |-> ColumnOf(i)]

SInv == Formed /\ Passed /\ Tables /\ TakenOver /\ NothingElse /\ Built

(***************************************************************************)
(* What the operators depend on.                                           *)
(***************************************************************************)
\* The schema and the wording belong to the request.
LEMMA SchemaFrame ==
  ASSUME UNCHANGED req
  PROVE  /\ Fields' = Fields /\ Required' = Required /\ (Misworded' <=> Misworded)
         /\ \A c : (Known(c)' <=> Known(c)) /\ Target(c)' = Target(c)
         /\ \A c, v : Storable(c, v)' <=> Storable(c, v)
<1>1. Fields' = Fields /\ Required' = Required
  BY DEF Fields, Required
<1>2. Misworded' <=> Misworded
  BY DEF Misworded, MiswordedInsert, MiswordedUpdate
<1>3. \A c : (Known(c)' <=> Known(c)) /\ Target(c)' = Target(c)
  BY <1>1 DEF Known, Target, FieldNo
<1>4. \A c, v : Storable(c, v)' <=> Storable(c, v)
  BY <1>1, <1>3 DEF Storable
<1>5. QED
  BY <1>1, <1>2, <1>3, <1>4

\* What supplies a field belongs to the rows.
LEMMA RowFrame ==
  ASSUME UNCHANGED <<req, rows>>
  PROVE  \A r, i : Suppliers(r, i)' = Suppliers(r, i)
BY SchemaFrame DEF Suppliers

\* Whether a write is at fault does not depend on how far its checks got.
LEMMA FaultFrame ==
  ASSUME UNCHANGED <<req, targets>>
  PROVE  /\ Lowerable' <=> Lowerable
         /\ UNCHANGED rows => (Faulty' <=> Faulty)
<1>1. Lowerable' <=> Lowerable
  BY DEF Lowerable, Lowered, IsVector, FieldNo, Fields
<1>2. ASSUME UNCHANGED rows PROVE Faulty' <=> Faulty
  BY <1>1, <1>2, SchemaFrame, RowFrame DEF Faulty
<1>3. QED
  BY <1>1, <1>2

\* byName: a field is found under its own name.
LEMMA TargetNamed ==
  ASSUME NEW c, Known(c)
  PROVE  Target(c) \in DOMAIN Fields /\ Fields[Target(c)].name = c.name
BY DEF Known, Target, FieldNo

\* The members of a row are columns by different names: no two of them go to
\* the same field.
LEMMA TargetOnce ==
  ASSUME NEW c, NEW d, IsColumn(c), IsColumn(d), Known(c), Known(d), Target(c) = Target(d)
  PROVE  c = d
<1>1. c.name = d.name
  BY TargetNamed
<1>2. c.of = d.of
  BY DEF Known
<1>3. QED
  BY <1>1, <1>2 DEF IsColumn

\* writeValue: a type without an encoding takes NULL at most.
LEMMA Unencodable ==
  ASSUME NEW f, NEW v, f.native \notin Writable, WriteValue(f, v).ok
  PROVE  WriteValue(f, v).cell = Nil
<1>1. CASE v = Nil
  BY <1>1 DEF WriteValue, Yes, No
<1>2. CASE v # Nil
  BY <1>2 DEF WriteValue, Yes, No, Writable
<1>3. QED
  BY <1>1, <1>2

(***************************************************************************)
(* The steps.                                                              *)
(***************************************************************************)
\* The first states.
LEMMA WriteInit == Init => SInv
<1> SUFFICES ASSUME Init PROVE SInv
  OBVIOUS
<1>1. PICK meta \in Metas : req \in RequestsTo(meta)
  BY DEF Init
<1>2. phase = "text" /\ targets = <<>> /\ rows = <<>> /\ DOMAIN rows = {} /\ DOMAIN targets = {}
  BY DEF Init
<1>3. Formed
  <2>1. /\ req.op \in {"insert", "update", "index"}
        /\ \A i \in DOMAIN req.cols : IsColumn(req.cols[i])
        /\ \A r \in DOMAIN req.fetched : \A c \in DOMAIN req.fetched[r] : \E n : c = Ref(n)
    BY <1>1, RequestsAssumption
  <2>2. \A n : IsColumn(Ref(n))
    BY DEF IsColumn, Ref
  <2>3. QED
    BY <1>2, <2>1, <2>2 DEF Formed, Phases
<1>4. Passed /\ Tables /\ TakenOver /\ NothingElse /\ Built
  BY <1>2 DEF Passed, Tables, TakenOver, NothingElse, Built, Checking
<1>5. QED
  BY <1>3, <1>4 DEF SInv

\* ParseInsert, ParseUpdate, decodeBody: refused for its wording, or every target
\* is a column.
LEMMA ParseInv ==
  ASSUME SInv, ParseInsert \/ ParseUpdate \/ DecodeBody PROVE SInv'
<1>1. phase = "text" /\ UNCHANGED <<req, rows, todo, cells, present, cols>>
  BY DEF ParseInsert, ParseUpdate, DecodeBody
<1>2. \/ phase' = "refused" /\ Misworded /\ UNCHANGED targets
      \/ phase' = "parsed" /\ ~Misworded
  BY DEF ParseInsert, ParseUpdate, DecodeBody, Misworded
<1>3. Formed
  BY DEF SInv
<1>4. \A n : IsColumn(Ref(n))
  BY DEF IsColumn, Ref
<1>5. \A i \in DOMAIN req.cols : IsColumn(req.cols[i]) /\ IsColumn(Strip(req.cols[i]))
  BY <1>3, <1>4 DEF Formed, Strip
<1>6. \A i \in DOMAIN targets' : IsColumn(targets'[i])
  <2>1. CASE ParseInsert
    BY <1>3, <1>4, <1>5, <2>1 DEF ParseInsert, Formed
  <2>2. CASE ParseUpdate
    BY <1>3, <1>5, <2>2 DEF ParseUpdate, Formed
  <2>3. CASE DecodeBody
    BY <1>5, <2>3 DEF DecodeBody
  <2>4. QED
    BY <2>1, <2>2, <2>3
<1>7. Formed'
  BY <1>1, <1>2, <1>3, <1>6, SchemaFrame DEF Formed, Phases
<1>8. Misworded' <=> Misworded
  BY <1>1, SchemaFrame
<1>9. Passed'
  BY <1>2, <1>8 DEF Passed, Checking, Faulty
<1>10. Tables' /\ TakenOver' /\ NothingElse' /\ Built'
  BY <1>2 DEF Tables, TakenOver, NothingElse, Built, Checking
<1>11. QED
  BY <1>7, <1>9, <1>10 DEF SInv

\* Lower: refused for a group that does not lower, or the tables are empty and
\* every cell is still to be looked at.
LEMMA LowerInv ==
  ASSUME SInv, Lower PROVE SInv'
<1> DEFINE all == AllRows
<1>1. phase = "parsed" /\ UNCHANGED <<req, targets, cols>> /\ ~Misworded /\ Formed
  BY DEF Lower, SInv, Passed
<1>2. /\ Fields' = Fields /\ (Misworded' <=> Misworded) /\ (Lowerable' <=> Lowerable)
  BY <1>1, SchemaFrame, FaultFrame
<1>3. CASE ~Lowerable
  <2>1. phase' = "refused" /\ UNCHANGED rows
    BY <1>3 DEF Lower
  <2>2. Formed'
    BY <1>1, <1>2, <2>1 DEF Formed, Phases
  <2>3. Passed'
    BY <1>2, <1>3, <2>1 DEF Passed, Checking, Faulty
  <2>4. Tables' /\ TakenOver' /\ NothingElse' /\ Built'
    BY <2>1 DEF Tables, TakenOver, NothingElse, Built, Checking
  <2>5. QED
    BY <2>2, <2>3, <2>4 DEF SInv
<1>4. CASE Lowerable
  <2>1. /\ rows' = all
        /\ todo' = UNION {{r} \X DOMAIN all[r] : r \in DOMAIN all}
        /\ cells' = [i \in DOMAIN Fields |-> [r \in DOMAIN all |-> Nil]]
        /\ present' = [i \in DOMAIN Fields |-> [r \in DOMAIN all |-> FALSE]]
        /\ phase' \in {"empty", "lowered"}
    BY <1>4 DEF Lower
  <2>2. \A g : \A c \in DOMAIN RowOf(g) : IsColumn(c)
    BY <1>1 DEF RowOf, ToSet, Formed
  <2>3. \A r \in DOMAIN all : \A c \in DOMAIN all[r] : IsColumn(c)
    <3>1. CASE req.op = "update"
      BY <1>1, <2>2, <3>1 DEF AllRows, Over, Formed
    <3>2. CASE req.op # "update"
      BY <2>2, <3>2 DEF AllRows
    <3>3. QED
      BY <3>1, <3>2
  <2> HIDE DEF all
  <2>4. Formed'
    BY <1>1, <1>2, <2>1, <2>3 DEF Formed, Phases
  <2>5. Passed'
    BY <1>1, <1>2, <1>4, <2>1 DEF Passed, Checking
  <2>6. Tables'
    <3>1. \A p \in todo' : p[1] \in DOMAIN all /\ p[2] \in DOMAIN all[p[1]] /\ p = <<p[1], p[2]>>
      BY <2>1
    <3>2. QED
      BY <1>2, <2>1, <3>1 DEF Tables
  <2>7. TakenOver'
    <3>1. \A r \in DOMAIN all : \A c \in DOMAIN all[r] : <<r, c>> \in todo'
      BY <2>1
    <3>2. QED
      BY <2>1, <3>1 DEF TakenOver
  <2>8. NothingElse'
    BY <1>2, <2>1 DEF NothingElse
  <2>9. Built'
    BY <2>1 DEF Built
  <2>10. QED
    BY <2>4, <2>5, <2>6, <2>7, <2>8, <2>9 DEF SInv
<1>5. QED
  BY <1>3, <1>4

\* A cell is looked at: refused for itself, or taken over where no other cell of
\* its row goes.
LEMMA CellInv ==
  ASSUME SInv, NEW p \in todo, CheckCell(p[1], p[2]) PROVE SInv'
<1> DEFINE r == p[1]
           c == p[2]
           i == Target(c)
           w == WriteValue(Fields[i], rows[r][c]).cell
<1>1. /\ phase = "lowered" /\ <<r, c>> \in todo /\ todo' = todo \ {<<r, c>>}
      /\ UNCHANGED <<req, targets, rows, cols>>
  BY DEF CheckCell
<1>2. /\ Formed /\ ~Misworded /\ Lowerable
      /\ DOMAIN cells = DOMAIN Fields /\ DOMAIN present = DOMAIN Fields
      /\ \A j \in DOMAIN Fields : /\ cells[j] = [s \in DOMAIN rows |-> cells[j][s]]
                                  /\ present[j] = [s \in DOMAIN rows |-> present[j][s]]
      /\ \A q \in todo : q[1] \in DOMAIN rows /\ q[2] \in DOMAIN rows[q[1]] /\ q = <<q[1], q[2]>>
  BY <1>1 DEF SInv, Passed, Tables, Checking
<1>3. r \in DOMAIN rows /\ c \in DOMAIN rows[r] /\ IsColumn(c)
  BY <1>2 DEF Formed
<1>4. /\ Fields' = Fields /\ (Misworded' <=> Misworded) /\ (Lowerable' <=> Lowerable) /\ (Faulty' <=> Faulty)
      /\ \A d : (Known(d)' <=> Known(d)) /\ Target(d)' = Target(d)
      /\ \A d, v : Storable(d, v)' <=> Storable(d, v)
      /\ \A s, j : Suppliers(s, j)' = Suppliers(s, j)
  BY <1>1, SchemaFrame, FaultFrame, RowFrame
<1>5. CASE ~Storable(c, rows[r][c])
  <2>1. phase' = "refused"
    BY <1>5 DEF CheckCell
  <2>2. Faulty
    BY <1>3, <1>5 DEF Faulty
  <2>3. Formed'
    BY <1>1, <1>2, <1>4, <2>1 DEF Formed, Phases
  <2>4. Passed'
    BY <1>4, <2>1, <2>2 DEF Passed, Checking
  <2>5. Tables' /\ TakenOver' /\ NothingElse' /\ Built'
    BY <2>1 DEF Tables, TakenOver, NothingElse, Built, Checking
  <2>6. QED
    BY <2>3, <2>4, <2>5 DEF SInv
<1>6. CASE Storable(c, rows[r][c])
  <2>1. /\ cells' = [cells EXCEPT ![i][r] = w] /\ present' = [present EXCEPT ![i][r] = TRUE]
        /\ phase' = "lowered"
    BY <1>1, <1>6 DEF CheckCell
  <2>2. Known(c) /\ i \in DOMAIN Fields
    BY <1>6, TargetNamed DEF Storable
  <2> HIDE DEF r, c, i, w
  <2>3. cells'[i][r] = w /\ present'[i][r] = TRUE
    BY <1>2, <1>3, <2>1, <2>2
  <2>4. \A j \in DOMAIN Fields : \A s \in DOMAIN rows :
          j # i \/ s # r => cells'[j][s] = cells[j][s] /\ present'[j][s] = present[j][s]
    BY <1>2, <1>3, <2>1, <2>2
  <2>5. Formed'
    BY <1>1, <1>2, <1>4, <2>1 DEF Formed, Phases
  <2>6. Passed'
    BY <1>2, <1>4, <2>1 DEF Passed, Checking
  <2>7. Tables'
    <3>1. DOMAIN cells' = DOMAIN Fields /\ DOMAIN present' = DOMAIN Fields
      BY <1>2, <2>1
    <3>2. ASSUME NEW j \in DOMAIN Fields
          PROVE  /\ cells'[j] = [s \in DOMAIN rows |-> cells'[j][s]]
                 /\ present'[j] = [s \in DOMAIN rows |-> present'[j][s]]
      <4>1. CASE j = i
        <5>1. cells'[i] = [cells[i] EXCEPT ![r] = w] /\ present'[i] = [present[i] EXCEPT ![r] = TRUE]
          BY <1>2, <2>1, <2>2
        <5>2. QED
          BY <1>2, <2>2, <4>1, <5>1
      <4>2. CASE j # i
        <5>1. cells'[j] = cells[j] /\ present'[j] = present[j]
          BY <1>2, <2>1, <4>2
        <5>2. QED
          BY <1>2, <5>1
      <4>3. QED
        BY <4>1, <4>2
    <3>3. QED
      BY <1>1, <1>2, <1>4, <3>1, <3>2 DEF Tables
  <2>8. TakenOver'
    <3>1. SUFFICES ASSUME NEW s \in DOMAIN rows, NEW d \in DOMAIN rows[s], <<s, d>> \notin todo'
                   PROVE  /\ Storable(d, rows[s][d])
                          /\ cells'[Target(d)][s] = WriteValue(Fields[Target(d)], rows[s][d]).cell
                          /\ present'[Target(d)][s] = TRUE
      <4>1. rows' = rows /\ Fields' = Fields
        BY <1>1, <1>4
      <4>2. \A d : Target(d)' = Target(d)
        BY <1>4
      <4>3. \A d, v : Storable(d, v)' <=> Storable(d, v)
        BY <1>4
      <4>4. QED
        BY <3>1, <4>1, <4>2, <4>3 DEF TakenOver
    <3>2. CASE s = r /\ d = c
      BY <1>6, <2>3, <3>2 DEF i, w
    <3>3. CASE ~(s = r /\ d = c)
      <4>1. <<s, d>> \notin todo
        BY <1>1, <3>1, <3>3
      <4>2. /\ Storable(d, rows[s][d])
            /\ cells[Target(d)][s] = WriteValue(Fields[Target(d)], rows[s][d]).cell
            /\ present[Target(d)][s] = TRUE
        BY <1>1, <3>1, <4>1 DEF SInv, TakenOver, Checking
      <4>3. Known(d) /\ Target(d) \in DOMAIN Fields
        BY <4>2, TargetNamed DEF Storable
      <4>4. s = r => Target(d) # i
        <5>1. IsColumn(d)
          BY <1>2 DEF Formed
        <5>2. QED
          BY <1>3, <2>2, <3>3, <4>3, <5>1, TargetOnce DEF i
      <4>5. QED
        BY <2>4, <4>2, <4>3, <4>4
    <3>4. QED
      BY <3>2, <3>3
  <2>9. NothingElse'
    <3>1. SUFFICES ASSUME NEW j \in DOMAIN Fields, NEW s \in DOMAIN rows
                   PROVE  \/ present'[j][s] = FALSE /\ cells'[j][s] = Nil
                          \/ present'[j][s] = TRUE /\ Suppliers(s, j) # {}
      BY <1>1, <1>4 DEF NothingElse
    <3>2. CASE j = i /\ s = r
      <4>1. c \in Suppliers(r, i)
        BY <1>3, <2>2 DEF Suppliers, i
      <4>2. QED
        BY <2>3, <3>2, <4>1
    <3>3. CASE ~(j = i /\ s = r)
      BY <1>1, <2>4, <3>1, <3>3 DEF SInv, NothingElse, Checking
    <3>4. QED
      BY <3>2, <3>3
  <2>10. Built'
    BY <2>1 DEF Built
  <2>11. QED
    BY <2>5, <2>6, <2>7, <2>8, <2>9, <2>10 DEF SInv
<1>7. QED
  BY <1>5, <1>6

\* Of a batch that was looked at to the end, the tables tell who supplies what.
LEMMA PresentSupplied ==
  ASSUME SInv, phase \in Checking, todo = {}, NEW i \in DOMAIN Fields, NEW r \in DOMAIN rows
  PROVE  /\ present[i][r] \in BOOLEAN /\ (present[i][r] <=> Suppliers(r, i) # {})
         /\ cells[i][r] = Converted(r, i)
<1>1. CASE Suppliers(r, i) = {}
  <2>1. present[i][r] = FALSE /\ cells[i][r] = Nil
    BY <1>1 DEF SInv, NothingElse
  <2>2. QED
    BY <1>1, <2>1 DEF Converted
<1>2. CASE Suppliers(r, i) # {}
  <2> DEFINE c == CHOOSE d \in Suppliers(r, i) : TRUE
  <2>1. c \in Suppliers(r, i)
    BY <1>2
  <2> HIDE DEF c
  <2>2. c \in DOMAIN rows[r] /\ Target(c) = i /\ <<r, c>> \notin todo
    BY <2>1 DEF Suppliers
  <2>3. cells[i][r] = WriteValue(Fields[i], rows[r][c]).cell /\ present[i][r] = TRUE
    BY <2>2 DEF SInv, TakenOver
  <2>4. Converted(r, i) = WriteValue(Fields[i], rows[r][c]).cell
    BY <1>2 DEF Converted, c
  <2>5. QED
    BY <1>2, <2>3, <2>4
<1>3. QED
  BY <1>1, <1>2

\* The check for missing fields, and the columns.
LEMMA EndInv ==
  ASSUME SInv, CheckMissing \/ WriteColumns PROVE SInv'
<1>1. UNCHANGED <<req, targets, rows, todo, cells, present>>
  BY DEF CheckMissing, WriteColumns
<1>2. \/ phase = "lowered" /\ todo = {} /\ phase' = (IF Missing = {} THEN "valid" ELSE "refused") /\ CheckMissing
      \/ phase = "valid" /\ phase' = "sent" /\ WriteColumns
  BY DEF CheckMissing, WriteColumns
<1>3. /\ Fields' = Fields /\ (Misworded' <=> Misworded) /\ (Lowerable' <=> Lowerable) /\ (Faulty' <=> Faulty)
      /\ Required' = Required
      /\ \A d : (Known(d)' <=> Known(d)) /\ Target(d)' = Target(d)
      /\ \A d, v : Storable(d, v)' <=> Storable(d, v)
      /\ \A s, j : Suppliers(s, j)' = Suppliers(s, j)
  BY <1>1, SchemaFrame, FaultFrame, RowFrame
<1>4. Missing' = Missing
  BY <1>1, <1>3 DEF Missing
<1>5. Formed'
  BY <1>1, <1>2, <1>3 DEF SInv, Formed, Phases
<1>6. phase' = "refused" => Faulty
  <2> SUFFICES ASSUME phase' = "refused" PROVE Faulty
    OBVIOUS
  <2>1. phase = "lowered" /\ todo = {} /\ Missing # {}
    BY <1>2
  <2>2. PICK i \in Required, r \in DOMAIN rows : ~present[i][r]
    BY <2>1 DEF Missing
  <2>3. i \in DOMAIN Fields /\ phase \in Checking
    BY <2>1, <2>2 DEF Required, Checking
  <2>4. Suppliers(r, i) = {}
    BY <2>1, <2>2, <2>3, PresentSupplied
  <2>5. QED
    BY <2>4 DEF Faulty
<1>7. Passed'
  BY <1>1, <1>2, <1>3, <1>4, <1>6 DEF SInv, Passed, Checking
<1>8. Tables'
  BY <1>1, <1>2, <1>3 DEF SInv, Tables, Checking
<1>9. TakenOver'
  BY <1>1, <1>2, <1>3 DEF SInv, TakenOver, Checking
<1>10. NothingElse'
  BY <1>1, <1>2, <1>3 DEF SInv, NothingElse, Checking
<1>11. Built'
  <2>1. \A i : ColumnOf(i)' = ColumnOf(i)
    BY <1>1, <1>3 DEF ColumnOf
  <2>2. CASE WriteColumns
    BY <1>3, <2>1, <2>2 DEF Built, WriteColumns
  <2>3. CASE phase' # "sent"
    BY <2>3 DEF Built
  <2>4. QED
    BY <1>2, <2>2, <2>3
<1>12. QED
  BY <1>5, <1>7, <1>8, <1>9, <1>10, <1>11 DEF SInv

\* A step that changes nothing.
LEMMA WriteStutter ==
  ASSUME SInv, UNCHANGED vars PROVE SInv'
<1>1. UNCHANGED <<req, targets, rows, todo, cells, present, cols, phase>>
  BY DEF vars
<1>2. /\ Fields' = Fields /\ (Misworded' <=> Misworded) /\ (Lowerable' <=> Lowerable) /\ (Faulty' <=> Faulty)
      /\ Required' = Required
      /\ \A d : (Known(d)' <=> Known(d)) /\ Target(d)' = Target(d)
      /\ \A d, v : Storable(d, v)' <=> Storable(d, v)
      /\ \A s, j : Suppliers(s, j)' = Suppliers(s, j)
  BY <1>1, SchemaFrame, FaultFrame, RowFrame
<1>3. Formed'
  BY <1>1, <1>2 DEF SInv, Formed
<1>4. Passed'
  BY <1>1, <1>2 DEF SInv, Passed, Missing
<1>5. Tables'
  BY <1>1, <1>2 DEF SInv, Tables
<1>6. TakenOver'
  BY <1>1, <1>2 DEF SInv, TakenOver
<1>7. NothingElse'
  BY <1>1, <1>2 DEF SInv, NothingElse
<1>8. Built'
  <2>1. \A i : ColumnOf(i)' = ColumnOf(i)
    BY <1>1, <1>2 DEF ColumnOf
  <2>2. QED
    BY <1>1, <1>2, <2>1 DEF SInv, Built
<1>9. QED
  BY <1>3, <1>4, <1>5, <1>6, <1>7, <1>8 DEF SInv

\* The invariant holds throughout.
LEMMA WriteInvariant == Spec => []SInv
<1>1. SInv /\ [Next]_vars => SInv'
  BY ParseInv, LowerInv, CellInv, EndInv, WriteStutter DEF Next
<1>2. QED
  BY <1>1, WriteInit, PTL DEF Spec

(***************************************************************************)
(* The theorems.                                                           *)
(***************************************************************************)
\* validateWriteCells: whatever the schema, the rows and the order in which Go
\* walks a row's map, a write goes on only if nothing in it is at fault, and is
\* refused only if something is.
THEOREM VerdictByContent == Spec => []DecidedByContent
<1>1. SInv => DecidedByContent
  <2> SUFFICES ASSUME SInv, phase \in {"valid", "sent"} PROVE ~Faulty
    BY DEF SInv, Passed, DecidedByContent
  <2>1. ~Misworded /\ Lowerable /\ todo = {} /\ Missing = {} /\ phase \in Checking
    BY DEF SInv, Passed, Checking
  <2>2. \A r \in DOMAIN rows : \A c \in DOMAIN rows[r] : Storable(c, rows[r][c])
    BY <2>1 DEF SInv, TakenOver
  <2>3. ASSUME NEW r \in DOMAIN rows, NEW i \in Required PROVE Suppliers(r, i) # {}
    <3>1. i \in DOMAIN Fields /\ present[i][r]
      BY <2>1 DEF Missing, Required
    <3>2. QED
      BY <2>1, <3>1, PresentSupplied
  <2>4. QED
    BY <2>1, <2>2, <2>3 DEF Faulty
<1>2. QED
  BY <1>1, WriteInvariant, PTL

\* writeColumns and columnOf: the columns sent compact exactly the cells that the
\* rows hold, their masks mark exactly the rows that hold one, and nothing a row
\* holds belongs to a field that is left out.
THEOREM ColumnsHoldRows == Spec => []ColumnsFromRows
<1>1. SInv => ColumnsFromRows
  <2> SUFFICES ASSUME SInv, phase = "sent" PROVE ColumnsFromRows
    BY DEF ColumnsFromRows
  <2>1. phase \in Checking /\ todo = {}
    BY DEF SInv, Passed, Checking
  <2>2. /\ DOMAIN cols = {j \in DOMAIN Fields : ~Fields[j].auto /\ Fields[j].native \in Writable}
        /\ \A i \in DOMAIN cols : cols[i] = ColumnOf(i)
    BY DEF SInv, Built
  <2>3. ASSUME NEW i \in DOMAIN Fields \ DOMAIN cols, NEW r \in DOMAIN rows PROVE Converted(r, i) = Nil
    <3>1. CASE Suppliers(r, i) = {}
      BY <3>1 DEF Converted
    <3>2. CASE Suppliers(r, i) # {}
      <4> DEFINE c == CHOOSE d \in Suppliers(r, i) : TRUE
      <4>1. c \in DOMAIN rows[r] /\ Target(c) = i
        BY <3>2 DEF Suppliers
      <4>2. Converted(r, i) = WriteValue(Fields[i], rows[r][c]).cell
        BY <3>2 DEF Converted
      <4> HIDE DEF c
      <4>3. Storable(c, rows[r][c])
        BY <2>1, <4>1 DEF SInv, TakenOver
      <4>4. Fields[i].native \notin Writable /\ WriteValue(Fields[i], rows[r][c]).ok
        BY <2>2, <2>3, <4>1, <4>3 DEF Storable
      <4>5. QED
        BY <4>2, <4>4, Unencodable
    <3>3. QED
      BY <3>1, <3>2
  <2>4. ASSUME NEW i \in DOMAIN cols
        PROVE  /\ cols[i].values = Compact([r \in DOMAIN rows |-> Converted(r, i)])
               /\ cols[i].valid = IF Fields[i].nullable THEN [r \in DOMAIN rows |-> Converted(r, i) # Nil] ELSE <<>>
    <3>1. i \in DOMAIN Fields /\ cols[i] = ColumnOf(i)
      BY <2>2
    <3>2. cells[i] = [r \in DOMAIN rows |-> cells[i][r]]
      BY <2>1, <3>1 DEF SInv, Tables
    <3>3. cells[i] = [r \in DOMAIN rows |-> Converted(r, i)]
      BY <2>1, <3>1, <3>2, PresentSupplied
    <3>4. \A r \in DOMAIN rows : (present[i][r] /\ cells[i][r] # Nil) = (Converted(r, i) # Nil)
      <4>1. ASSUME NEW r \in DOMAIN rows, Converted(r, i) # Nil PROVE present[i][r]
        <5>1. Suppliers(r, i) # {}
          BY <4>1 DEF Converted
        <5>2. QED
          BY <2>1, <3>1, <5>1, PresentSupplied
      <4>2. QED
        BY <2>1, <3>1, <4>1, PresentSupplied
    <3>5. [r \in DOMAIN rows |-> present[i][r] /\ cells[i][r] # Nil] = [r \in DOMAIN rows |-> Converted(r, i) # Nil]
      BY <3>4
    <3>6. QED
      BY <3>1, <3>3, <3>5 DEF ColumnOf
  <2>5. QED
    BY <2>3, <2>4 DEF ColumnsFromRows
<1>2. QED
  BY <1>1, WriteInvariant, PTL

(***************************************************************************)
(* Where the targets and the rows come from: the second invariant.         *)
(***************************************************************************)
\* The columns that the values of the request are for.
Aims ==
  CASE req.op = "insert" -> IF req.cols # <<>> THEN req.cols
                            ELSE [i \in DOMAIN Fields |-> Ref(Fields[i].name)]
    [] req.op = "update" -> [i \in DOMAIN req.cols |-> Strip(req.cols[i])]
    [] OTHER -> req.cols

\* Where the targets and the rows come from.
Provenance ==
  /\ \E meta \in Metas : req \in RequestsTo(meta)
  /\ phase = "text" \/ Misworded \/ targets = Aims
  /\ rows = <<>> \/ (rows = AllRows /\ ~Misworded /\ targets = Aims)
  /\ phase \in {"text", "parsed"} => rows = <<>>
  /\ phase \in Checking => rows = AllRows /\ rows # <<>>

\* What the assumptions say of the request at hand.
LEMMA RequestFacts ==
  ASSUME Provenance
  PROVE  /\ IsSequence(Fields)
         /\ \A i, j \in DOMAIN Fields : Fields[i].name = Fields[j].name => i = j
         /\ \A i \in DOMAIN Fields : Fields[i].name \notin req.meta.outputs
         /\ req.op \in {"insert", "update", "index"}
         /\ IsSequence(req.cols) /\ IsSequence(req.groups) /\ IsSequence(req.fetched)
         /\ Len(req.groups) > 0 /\ (req.op # "insert" => Len(req.groups) = 1)
         /\ \A i \in DOMAIN req.cols : IsColumn(req.cols[i])
         /\ req.op = "index" => \A i, j \in DOMAIN req.cols : req.cols[i] = req.cols[j] => i = j
         /\ \A g \in DOMAIN req.groups :
              IsSequence(req.groups[g]) /\ \A i \in DOMAIN req.groups[g] : Written(req.op, req.groups[g][i])
         /\ \A r \in DOMAIN req.fetched : \A c \in DOMAIN req.fetched[r] :
              \E i \in DOMAIN Fields : c = Ref(Fields[i].name) /\ Held(Fields[i], req.fetched[r][c])
<1>1. PICK meta \in Metas : req \in RequestsTo(meta)
  BY DEF Provenance
<1>2. req.meta = meta
  BY <1>1, RequestsAssumption
<1>3. /\ IsSequence(Fields)
      /\ \A i, j \in DOMAIN Fields : Fields[i].name = Fields[j].name => i = j
      /\ \A i \in DOMAIN Fields : Fields[i].name \notin req.meta.outputs
  BY <1>1, <1>2, SchemasAssumption DEF Fields
<1>4. /\ req.op \in {"insert", "update", "index"}
      /\ IsSequence(req.cols) /\ IsSequence(req.groups) /\ IsSequence(req.fetched)
      /\ Len(req.groups) > 0 /\ (req.op # "insert" => Len(req.groups) = 1)
      /\ \A i \in DOMAIN req.cols : IsColumn(req.cols[i])
      /\ req.op = "index" => \A i, j \in DOMAIN req.cols : req.cols[i] = req.cols[j] => i = j
      /\ \A g \in DOMAIN req.groups :
           IsSequence(req.groups[g]) /\ \A i \in DOMAIN req.groups[g] : Written(req.op, req.groups[g][i])
  BY <1>1, RequestsAssumption
<1>5. \A r \in DOMAIN req.fetched : \A c \in DOMAIN req.fetched[r] :
        \E i \in DOMAIN meta.fields : c = Ref(meta.fields[i].name) /\ Held(meta.fields[i], req.fetched[r][c])
  BY <1>1, RequestsAssumption
<1>6. QED
  BY <1>2, <1>3, <1>4, <1>5 DEF Fields

\* They depend on the request and the targets.
LEMMA ProvenanceFrame ==
  ASSUME UNCHANGED <<req, targets>>
  PROVE  Aims' = Aims /\ AllRows' = AllRows /\ (Misworded' <=> Misworded)
<1>1. Fields' = Fields /\ (Misworded' <=> Misworded)
  BY SchemaFrame
<1>2. Aims' = Aims
  BY <1>1 DEF Aims
<1>3. \A v, c : Lowered(v, c)' = Lowered(v, c)
  BY <1>1 DEF Lowered, IsVector, FieldNo
<1>4. \A g : RowOf(g)' = RowOf(g)
  BY <1>3 DEF RowOf
<1>5. AllRows' = AllRows
  BY <1>4 DEF AllRows
<1>6. QED
  BY <1>1, <1>2, <1>5

\* Every step keeps to where they come from.
LEMMA ProvenanceStep ==
  ASSUME SInv, Provenance, [Next]_vars PROVE Provenance'
<1>1. CASE ParseInsert \/ ParseUpdate \/ DecodeBody
  <2>1. phase = "text" /\ UNCHANGED <<req, rows>> /\ rows = <<>>
    BY <1>1 DEF ParseInsert, ParseUpdate, DecodeBody, Provenance
  <2>2. Misworded' <=> Misworded
    BY <2>1, SchemaFrame
  <2>3. Aims' = Aims
    BY <2>1, SchemaFrame DEF Aims
  <2>4. (phase' = "refused" /\ Misworded) \/ (phase' = "parsed" /\ targets' = Aims)
    <3>1. CASE ParseInsert
      BY <3>1 DEF ParseInsert, Misworded, Aims
    <3>2. CASE ParseUpdate
      BY <3>2 DEF ParseUpdate, Misworded, Aims
    <3>3. CASE DecodeBody
      BY <3>3 DEF DecodeBody, Aims
    <3>4. QED
      BY <1>1, <3>1, <3>2, <3>3
  <2>5. QED
    BY <2>1, <2>2, <2>3, <2>4 DEF Provenance, Checking
<1>2. CASE Lower
  <2>1. phase = "parsed" /\ UNCHANGED <<req, targets>> /\ rows = <<>>
    BY <1>2 DEF Lower, Provenance
  <2>2. Aims' = Aims /\ AllRows' = AllRows /\ (Misworded' <=> Misworded)
    BY <2>1, ProvenanceFrame
  <2>3. \/ phase' = "refused" /\ UNCHANGED rows
        \/ rows' = AllRows /\ phase' = IF AllRows = <<>> THEN "empty" ELSE "lowered"
    BY <1>2 DEF Lower
  <2>4. ~Misworded
    BY <2>1 DEF SInv, Passed
  <2>5. QED
    BY <2>1, <2>2, <2>3, <2>4 DEF Provenance, Checking
<1>3. CASE (\E p \in todo : CheckCell(p[1], p[2])) \/ CheckMissing \/ WriteColumns \/ UNCHANGED vars
  <2>1. UNCHANGED <<req, targets, rows>>
    BY <1>3 DEF CheckCell, CheckMissing, WriteColumns, vars
  <2>2. phase' = phase \/ (phase \in Checking /\ phase' \in {"lowered", "valid", "sent", "refused"})
    <3>1. CASE \E p \in todo : CheckCell(p[1], p[2])
      BY <3>1 DEF CheckCell, Checking
    <3>2. CASE CheckMissing
      BY <3>2 DEF CheckMissing, Checking
    <3>3. CASE WriteColumns
      BY <3>3 DEF WriteColumns, Checking
    <3>4. CASE UNCHANGED vars
      BY <3>4 DEF vars
    <3>5. QED
      BY <1>3, <3>1, <3>2, <3>3, <3>4
  <2>3. Aims' = Aims /\ AllRows' = AllRows /\ (Misworded' <=> Misworded)
    BY <2>1, ProvenanceFrame
  <2>4. QED
    BY <2>1, <2>2, <2>3 DEF Provenance, Checking
<1>4. QED
  BY <1>1, <1>2, <1>3 DEF Next

\* The second invariant holds throughout.
LEMMA WriteProvenance == Spec => []Provenance
<1>1. Init => Provenance
  BY DEF Init, Provenance, Checking
<1>2. SInv /\ Provenance /\ [Next]_vars => Provenance'
  BY ProvenanceStep
<1>3. QED
  BY <1>1, <1>2, WriteInvariant, PTL DEF Spec

(***************************************************************************)
(* The rows against the request: which value goes where.                   *)
(***************************************************************************)
\* A set of places that is not empty has a last one.
LEMMA Greatest ==
  ASSUME NEW n \in Nat, NEW T, T \subseteq 1..n, T # {}
  PROVE  \E x \in T : \A y \in T : y <= x
<1> DEFINE U == {k \in Nat : \E x \in T : k = n - x}
<1>1. U # {} /\ U \subseteq Nat
  <2>1. PICK x \in T : TRUE
    OBVIOUS
  <2>2. n - x \in U
    OBVIOUS
  <2>3. QED
    BY <2>2
<1>2. PICK k \in U : \A j \in U : k <= j
  <2> HIDE DEF U
  <2>1. QED
    BY <1>1, Least
<1>3. PICK x \in T : k = n - x
  BY <1>2
<1>4. ASSUME NEW y \in T PROVE y <= x
  <2>1. n - y \in U
    OBVIOUS
  <2>2. k <= n - y
    BY <1>2, <2>1
  <2>3. QED
    BY <1>3, <2>2
<1>5. QED
  BY <1>4

\* Of a finite set of places the last one is the last one however it is asked for.
LEMMA LastPlace ==
  ASSUME NEW n \in Nat, NEW T, T \subseteq 1..n, T # {}, NEW p \in T, \A y \in T : y <= p
  PROVE  (CHOOSE x \in T : \A y \in T : y <= x) = p
<1>1. \A x \in T : (\A y \in T : y <= x) => x = p
  OBVIOUS
<1>2. QED
  BY <1>1

\* Every group has a value for each target.
Wide == \A g \in ToSet(req.groups) : Len(g) = Len(targets)

\* The column by the name of field i.
Named(i) == Ref(Fields[i].name)

\* A sequence, by its length.
LEMMA Sequences ==
  ASSUME NEW s, IsSequence(s)
  PROVE  Len(s) \in Nat /\ DOMAIN s = 1..Len(s) /\ \A n \in DOMAIN s : s[n] \in ToSet(s)
BY DEF IsSequence, ToSet

\* A column without a qualifier is its name.
LEMMA ColumnNamed ==
  ASSUME NEW c, NEW n, IsColumn(c)
  PROVE  c = Ref(n) <=> c.of = "" /\ c.name = n
<1> DEFINE d == [of |-> c.of, name |-> c.name]
<1>1. c = d
  BY DEF IsColumn
<1>2. ASSUME c.of = "", c.name = n PROVE d = Ref(n)
  BY <1>2 DEF Ref
<1>3. Ref(n).of = "" /\ Ref(n).name = n
  BY DEF Ref
<1> HIDE DEF d
<1>4. QED
  BY <1>1, <1>2, <1>3

\* The targets and the places that the reference counts are the same.
LEMMA TargetsAim ==
  ASSUME Provenance, targets = Aims
  PROVE  /\ Len(targets) = Width /\ Width \in Nat /\ DOMAIN targets = 1..Width
         /\ \A p \in DOMAIN targets : IsColumn(targets[p])
         /\ Wide => \A i \in DOMAIN Fields : Places(i) = {p \in DOMAIN targets : targets[p] = Named(i)}
<1>1. IsSequence(Fields) /\ IsSequence(req.cols) /\ IsSequence(req.groups)
  BY RequestFacts
<1>2. /\ Len(Fields) \in Nat /\ DOMAIN Fields = 1..Len(Fields)
      /\ Len(req.cols) \in Nat /\ DOMAIN req.cols = 1..Len(req.cols)
  BY <1>1, Sequences
<1>3. \A c, n : IsColumn(c) => (c = Ref(n) <=> c.of = "" /\ c.name = n)
  BY ColumnNamed
<1>4. \A i \in DOMAIN req.cols : IsColumn(req.cols[i])
  BY RequestFacts
<1>5. \A n : IsColumn(Ref(n)) /\ Ref(n).name = n /\ Ref(n).of = ""
  BY DEF IsColumn, Ref
<1>6. CASE req.op = "insert" /\ req.cols = <<>>
  <2>1. targets = [i \in DOMAIN Fields |-> Ref(Fields[i].name)]
    BY <1>6 DEF Aims
  <2>2. Width = Len(Fields)
    BY <1>6 DEF Width
  <2>3. Len(targets) = Width /\ DOMAIN targets = DOMAIN Fields
    BY <1>2, <2>1, <2>2
  <2>4. \A p \in DOMAIN targets : IsColumn(targets[p])
    BY <1>5, <2>1
  <2>5. ASSUME Wide, NEW i \in DOMAIN Fields PROVE Places(i) = {p \in DOMAIN targets : targets[p] = Named(i)}
    <3>1. Places(i) = {i} \cap DOMAIN req.groups[1]
      BY <1>6 DEF Places
    <3>2. DOMAIN req.groups[1] = DOMAIN Fields
      <4>1. 1 \in DOMAIN req.groups /\ req.groups[1] \in ToSet(req.groups)
        BY <1>1, RequestFacts, Sequences
      <4>2. IsSequence(req.groups[1]) /\ Len(req.groups[1]) = Len(Fields)
        BY <2>2, <2>3, <2>5, <4>1, RequestFacts DEF Wide
      <4>3. QED
        BY <1>2, <4>2, Sequences
    <3>3. \A p \in DOMAIN Fields : targets[p] = Named(i) <=> p = i
      <4>1. \A p \in DOMAIN Fields : targets[p] = Named(i) => Fields[p].name = Fields[i].name
        BY <1>5, <2>1 DEF Named
      <4>2. \A p \in DOMAIN Fields : Fields[p].name = Fields[i].name => p = i
        BY RequestFacts
      <4>3. targets[i] = Named(i)
        BY <2>1 DEF Named
      <4>4. QED
        BY <4>1, <4>2, <4>3
    <3>4. QED
      BY <2>3, <3>1, <3>2, <3>3
  <2>6. QED
    BY <1>2, <2>2, <2>3, <2>4, <2>5
<1>7. CASE req.op # "update" /\ ~(req.op = "insert" /\ req.cols = <<>>)
  <2>1. targets = req.cols
    BY <1>7 DEF Aims
  <2>2. Width = Len(req.cols)
    BY <1>7 DEF Width
  <2>3. \A i : Places(i) = {p \in DOMAIN req.cols : req.cols[p].name = Fields[i].name /\ req.cols[p].of \in {""}}
    BY <1>7 DEF Places
  <2>4. \A p \in DOMAIN req.cols, i \in DOMAIN Fields :
          req.cols[p] = Named(i) <=> req.cols[p].name = Fields[i].name /\ req.cols[p].of \in {""}
    BY <1>3, <1>4 DEF Named
  <2>5. Len(targets) = Width /\ DOMAIN targets = 1..Width
    BY <1>2, <2>1, <2>2
  <2>6. Width \in Nat
    BY <1>2, <2>2
  <2>7. \A p \in DOMAIN targets : IsColumn(targets[p])
    BY <1>4, <2>1
  <2>8. ASSUME NEW i \in DOMAIN Fields
        PROVE  Places(i) = {p \in DOMAIN targets : targets[p] = Named(i)}
    <3>1. \A p \in DOMAIN req.cols :
            targets[p] = Named(i) <=> req.cols[p].name = Fields[i].name /\ req.cols[p].of \in {""}
      BY <2>1, <2>4
    <3>2. DOMAIN targets = DOMAIN req.cols
      BY <2>1
    <3>3. QED
      BY <2>3, <3>1, <3>2
  <2>9. QED
    BY <2>5, <2>6, <2>7, <2>8
<1>8. CASE req.op = "update"
  <2>1. targets = [i \in DOMAIN req.cols |-> Strip(req.cols[i])]
    BY <1>8 DEF Aims
  <2>2. Width = Len(req.cols)
    BY <1>8 DEF Width
  <2>3. Len(targets) = Width /\ DOMAIN targets = DOMAIN req.cols
    BY <1>2, <2>1, <2>2
  <2>4. \A i : Places(i) = {p \in DOMAIN req.cols : req.cols[p].name = Fields[i].name /\ req.cols[p].of \in {"", Table}}
    BY <1>8 DEF Places
  <2>5. ASSUME NEW p \in DOMAIN targets PROVE IsColumn(targets[p])
    <3>1. p \in DOMAIN req.cols /\ targets[p] = Strip(req.cols[p])
      BY <2>1
    <3>2. Strip(req.cols[p]) \in {Ref(req.cols[p].name), req.cols[p]}
      BY DEF Strip
    <3>3. QED
      BY <1>4, <1>5, <3>1, <3>2
  <2>6. ASSUME NEW p \in DOMAIN req.cols, NEW i \in DOMAIN Fields
        PROVE  targets[p] = Named(i) <=> req.cols[p].name = Fields[i].name /\ req.cols[p].of \in {"", Table}
    <3>1. targets[p] = Strip(req.cols[p])
      BY <2>1
    <3>2. CASE req.cols[p].of = Table
      <4>1. targets[p] = Ref(req.cols[p].name)
        BY <3>1, <3>2 DEF Strip
      <4>2. QED
        BY <1>5, <3>2, <4>1 DEF Named
    <3>3. CASE req.cols[p].of # Table
      <4>1. targets[p] = req.cols[p]
        BY <3>1, <3>3 DEF Strip
      <4>2. req.cols[p] = Named(i) <=> req.cols[p].of = "" /\ req.cols[p].name = Fields[i].name
        BY <1>4, ColumnNamed DEF Named
      <4>3. QED
        BY <3>3, <4>1, <4>2
    <3>4. QED
      BY <3>2, <3>3
  <2>7. QED
    BY <1>2, <2>2, <2>3, <2>4, <2>5, <2>6
<1>9. QED
  BY <1>6, <1>7, <1>8, RequestFacts

\* The last of the places whose target is column c, as RowOf asks for it.
LEMMA RowCell ==
  ASSUME NEW n \in Nat, DOMAIN targets = 1..n, NEW c, NEW g,
         NEW p \in DOMAIN targets, targets[p] = c, \A j \in DOMAIN targets : targets[j] = c => j <= p
  PROVE  c \in DOMAIN RowOf(g) /\ RowOf(g)[c] = Lowered(g[p], c).cell
<1> DEFINE k == CHOOSE i \in DOMAIN targets :
                  targets[i] = c /\ \A j \in DOMAIN targets : targets[j] = c => j <= i
<1>1. c \in ToSet(targets)
  BY DEF ToSet
<1>2. k = p
  <2>1. \A i \in DOMAIN targets :
          (targets[i] = c /\ \A j \in DOMAIN targets : targets[j] = c => j <= i) => i = p
    OBVIOUS
  <2>2. QED
    BY <2>1
<1>3. RowOf(g)[c] = Lowered(g[k], c).cell /\ DOMAIN RowOf(g) = ToSet(targets)
  BY <1>1 DEF RowOf
<1>4. QED
  BY <1>1, <1>2, <1>3

\* The group that row r takes its values from.
GroupOf(r) == IF req.op = "update" THEN 1 ELSE r

\* The group has a written value for every target.
LEMMA Groups ==
  ASSUME Provenance, targets = Aims, Wide, NEW r \in RowNumbers
  PROVE  /\ GroupOf(r) \in DOMAIN req.groups /\ req.groups[GroupOf(r)] \in ToSet(req.groups)
         /\ DOMAIN req.groups[GroupOf(r)] = DOMAIN targets
         /\ \A p \in DOMAIN targets : Written(req.op, req.groups[GroupOf(r)][p])
<1> DEFINE g == GroupOf(r)
<1>1. IsSequence(req.groups) /\ Len(req.groups) > 0
  BY RequestFacts
<1>2. Len(req.groups) \in Nat /\ DOMAIN req.groups = 1..Len(req.groups)
  BY <1>1, Sequences
<1>3. g \in DOMAIN req.groups
  BY <1>1, <1>2 DEF GroupOf, RowNumbers
<1> HIDE DEF g
<1>4. req.groups[g] \in ToSet(req.groups)
  BY <1>3 DEF ToSet
<1>5. IsSequence(req.groups[g]) /\ \A i \in DOMAIN req.groups[g] : Written(req.op, req.groups[g][i])
  BY <1>3, RequestFacts
<1>6. Len(req.groups[g]) = Len(targets)
  BY <1>4 DEF Wide
<1>7. DOMAIN req.groups[g] = DOMAIN targets
  BY <1>5, <1>6, TargetsAim, Sequences
<1>8. QED
  BY <1>3, <1>4, <1>5, <1>7 DEF g

\* What the rows hold in the column of field i, against what the request asks for.
LEMMA RowsWanted ==
  ASSUME Provenance, targets = Aims, Wide, NEW r \in RowNumbers, NEW i \in DOMAIN Fields
  PROVE  /\ DOMAIN AllRows = RowNumbers
         /\ Places(i) # {} =>
              /\ Named(i) \in DOMAIN AllRows[r]
              /\ AllRows[r][Named(i)] = Lowered(Wanted(r, i), Named(i)).cell
              /\ Written(req.op, Wanted(r, i))
              /\ Lowerable => Lowered(Wanted(r, i), Named(i)).ok
         /\ Places(i) = {} /\ Named(i) \in DOMAIN AllRows[r] =>
              req.op = "update" /\ AllRows[r][Named(i)] = Wanted(r, i) /\ Held(Fields[i], Wanted(r, i))
         /\ Named(i) \notin DOMAIN AllRows[r] => Wanted(r, i) = Absent
<1> DEFINE c == Named(i)
           w == Wanted(r, i)
           g == req.groups[GroupOf(r)]
           P == Places(i)
<1>1. /\ g \in ToSet(req.groups) /\ DOMAIN g = DOMAIN targets
      /\ \A p \in DOMAIN targets : Written(req.op, g[p])
  BY Groups
<1>2. Width \in Nat /\ DOMAIN targets = 1..Width /\ P = {p \in DOMAIN targets : targets[p] = c}
  BY TargetsAim
<1>3. /\ DOMAIN AllRows = RowNumbers
      /\ req.op = "update" => AllRows[r] = Over(RowOf(g), req.fetched[r])
      /\ req.op # "update" => AllRows[r] = RowOf(g)
  BY DEF AllRows, RowNumbers, GroupOf
<1>4. req.op = "update" =>
        /\ DOMAIN AllRows[r] = DOMAIN RowOf(g) \cup DOMAIN req.fetched[r]
        /\ \A d \in DOMAIN RowOf(g) : AllRows[r][d] = RowOf(g)[d]
        /\ \A d \in DOMAIN req.fetched[r] \ DOMAIN RowOf(g) : AllRows[r][d] = req.fetched[r][d]
  <2> SUFFICES ASSUME req.op = "update" PROVE <1>4!2
    OBVIOUS
  <2> DEFINE a == RowOf(g)
             b == req.fetched[r]
  <2>1. AllRows[r] = [d \in DOMAIN a \cup DOMAIN b |-> IF d \in DOMAIN a THEN a[d] ELSE b[d]]
    BY <1>3 DEF Over
  <2> HIDE DEF a, b
  <2>2. QED
    BY <2>1 DEF a, b
<1>5. DOMAIN RowOf(g) = ToSet(targets)
  BY DEF RowOf
<1>6. CASE P # {}
  <2>1. P \subseteq 1..Width
    BY <1>2
  <2>2. PICK p \in P : \A q \in P : q <= p
    <3> HIDE DEF P
    <3>1. QED
      BY <1>2, <1>6, <2>1, Greatest
  <2>3. (CHOOSE x \in P : \A y \in P : y <= x) = p
    <3> HIDE DEF P
    <3>1. QED
      BY <1>2, <1>6, <2>1, <2>2, LastPlace
  <2>4. w = g[p]
    BY <1>6, <2>3 DEF Wanted, GroupOf
  <2>5. p \in DOMAIN targets /\ targets[p] = c /\ \A j \in DOMAIN targets : targets[j] = c => j <= p
    BY <1>2, <2>2
  <2> HIDE DEF c, w, g, P
  <2>6. c \in DOMAIN RowOf(g) /\ RowOf(g)[c] = Lowered(w, c).cell
    BY <1>2, <2>4, <2>5, RowCell
  <2>7. c \in DOMAIN AllRows[r] /\ AllRows[r][c] = Lowered(w, c).cell
    BY <1>3, <1>4, <2>6
  <2>8. Written(req.op, w)
    BY <1>1, <2>4, <2>5
  <2>9. Lowerable => Lowered(w, c).ok
    BY <1>1, <2>4, <2>5 DEF Lowerable
  <2>10. QED
    BY <1>3, <1>6, <2>7, <2>8, <2>9 DEF c, w, P
<1>7. CASE P = {}
  <2>1. c \notin ToSet(targets)
    BY <1>2, <1>7 DEF ToSet
  <2>2. w = IF req.op = "update" /\ c \in DOMAIN req.fetched[r] THEN req.fetched[r][c] ELSE Absent
    BY <1>7 DEF Wanted, Named
  <2>3. CASE req.op = "update"
    <3>1. r \in DOMAIN req.fetched
      BY <2>3 DEF RowNumbers
    <3>2. c \in DOMAIN AllRows[r] <=> c \in DOMAIN req.fetched[r]
      BY <1>3, <1>4, <1>5, <2>1, <2>3
    <3>3. ASSUME c \in DOMAIN req.fetched[r] PROVE AllRows[r][c] = w /\ Held(Fields[i], w)
      <4>1. AllRows[r][c] = w
        BY <1>3, <1>4, <1>5, <2>1, <2>2, <2>3, <3>3
      <4>2. PICK j \in DOMAIN Fields : c = Ref(Fields[j].name) /\ Held(Fields[j], req.fetched[r][c])
        BY <3>1, <3>3, RequestFacts
      <4>3. Fields[j].name = Fields[i].name
        BY <4>2 DEF Named, Ref
      <4>4. j = i
        BY <4>3, RequestFacts
      <4>5. QED
        BY <2>2, <2>3, <3>3, <4>1, <4>2, <4>4
    <3> HIDE DEF c, w, g, P
    <3>4. QED
      BY <1>3, <1>7, <2>2, <2>3, <3>2, <3>3 DEF c, w, P
  <2>4. CASE req.op # "update"
    <3>1. c \notin DOMAIN AllRows[r] /\ w = Absent
      BY <1>3, <1>5, <2>1, <2>2, <2>4
    <3> HIDE DEF c, w, g, P
    <3>2. QED
      BY <1>3, <1>7, <3>1 DEF c, w, P
  <2>5. QED
    BY <2>3, <2>4
<1>8. QED
  BY <1>6, <1>7

\* byName: the column of a field is known, and is the only one that goes there.
LEMMA FieldColumn ==
  ASSUME Provenance, NEW i \in DOMAIN Fields
  PROVE  /\ Known(Named(i)) /\ Target(Named(i)) = i
         /\ IsVector(Named(i)) <=> Fields[i].native = "float_vector"
         /\ \A c : IsColumn(c) /\ Known(c) /\ Target(c) = i => c = Named(i)
<1>1. Named(i).of = "" /\ Named(i).name = Fields[i].name
  BY DEF Named, Ref
<1>2. FieldNo(Fields[i].name) = {i}
  BY RequestFacts DEF FieldNo
<1>3. Known(Named(i)) /\ Target(Named(i)) = i
  BY <1>1, <1>2, RequestFacts DEF Known, Target
<1>4. IsVector(Named(i)) <=> Fields[i].native = "float_vector"
  BY <1>1, <1>2 DEF IsVector
<1>5. ASSUME NEW c, IsColumn(c), Known(c), Target(c) = i PROVE c = Named(i)
  <2>1. c.of = "" /\ c.name = Fields[i].name
    BY <1>5, TargetNamed DEF Known
  <2>2. QED
    BY <1>5, <2>1, ColumnNamed DEF Named
<1>6. QED
  BY <1>3, <1>4, <1>5

(***************************************************************************)
(* The verdict on a request, and on its parts.                             *)
(***************************************************************************)
\* The verdict on what a row holds in the column of a field, and what is stored.
LEMMA CellVerdict ==
  ASSUME Provenance, targets = Aims, Wide, Lowerable, NEW r \in RowNumbers, NEW i \in DOMAIN Fields,
         Named(i) \in DOMAIN AllRows[r]
  PROVE  /\ Wanted(r, i) # Absent
         /\ Storable(Named(i), AllRows[r][Named(i)]) <=> Kept(Fields[i], Wanted(r, i))
         /\ Kept(Fields[i], Wanted(r, i)) =>
              /\ Means(Fields[i], Wanted(r, i), WriteValue(Fields[i], AllRows[r][Named(i)]).cell)
              /\ WriteValue(Fields[i], AllRows[r][Named(i)]).cell = Nil => Wanted(r, i) = Nil
<1> DEFINE c == Named(i)
           w == Wanted(r, i)
           f == Fields[i]
           v == AllRows[r][c]
<1>1. Known(c) /\ Target(c) = i /\ (IsVector(c) <=> f.native = "float_vector")
  BY FieldColumn
<1>2. Storable(c, v) <=> ~f.auto /\ WriteValue(f, v).ok
  BY <1>1 DEF Storable
<1>3. \/ Written(req.op, w) /\ v = Lowered(w, c).cell /\ Lowered(w, c).ok
      \/ req.op = "update" /\ v = w /\ Held(f, w)
  BY RowsWanted
<1> HIDE DEF c, w, f, v
<1>4. Nil # Absent
  BY DEF Nil, Absent
<1>5. CASE w = Nil
  <2>1. v = Nil
    <3>1. Lowered(Nil, c).cell = Nil
      BY NilStored DEF Yes
    <3>2. QED
      BY <1>3, <1>5, <3>1
  <2>2. /\ WriteValue(f, Nil).ok <=> f.nullable
        /\ WriteValue(f, Nil).ok => WriteValue(f, Nil).cell = Nil
        /\ Means(f, Nil, Nil)
    BY NilStored
  <2>3. Kept(f, w) <=> ~f.auto /\ f.nullable
    BY <1>4, <1>5 DEF Kept
  <2>4. QED
    BY <1>2, <1>4, <1>5, <2>1, <2>2, <2>3 DEF c, w, f, v
<1>6. CASE w # Nil
  <2>1. /\ w # Absent
        /\ WriteValue(f, v).ok <=> Keeps(f, w)
        /\ WriteValue(f, v).ok => WriteValue(f, v).cell # Nil /\ Means(f, w, WriteValue(f, v).cell)
    <3>1. CASE Written(req.op, w) /\ v = Lowered(w, c).cell /\ Lowered(w, c).ok
      <4>1. w # Absent
        BY <3>1 DEF Written, Absent
      <4>2. /\ (Lowered(w, c).ok /\ WriteValue(f, Lowered(w, c).cell).ok) <=> Keeps(f, w)
            /\ Keeps(f, w) => /\ WriteValue(f, Lowered(w, c).cell).cell # Nil
                              /\ Means(f, w, WriteValue(f, Lowered(w, c).cell).cell)
        BY <1>1, <1>6, <3>1, LiteralStored
      <4>3. QED
        BY <3>1, <4>1, <4>2
    <3>2. CASE req.op = "update" /\ v = w /\ Held(f, w)
      BY <1>6, <3>2, HeldStored
    <3>3. QED
      BY <1>3, <3>1, <3>2
  <2>2. Kept(f, w) <=> ~f.auto /\ Keeps(f, w)
    BY <1>6, <2>1 DEF Kept
  <2>3. QED
    BY <1>2, <1>6, <2>1, <2>2 DEF c, w, f, v
<1>7. QED
  BY <1>5, <1>6

\* What goes to a field is in the column of its name.
LEMMA RowSuppliers ==
  ASSUME Provenance, SInv, NEW r \in DOMAIN rows, NEW i \in DOMAIN Fields
  PROVE  Suppliers(r, i) = {Named(i)} \cap DOMAIN rows[r]
<1>1. \A c \in DOMAIN rows[r] : IsColumn(c)
  BY DEF SInv, Formed
<1>2. Known(Named(i)) /\ Target(Named(i)) = i
  BY FieldColumn
<1>3. \A c : IsColumn(c) /\ Known(c) /\ Target(c) = i => c = Named(i)
  BY FieldColumn
<1>4. QED
  BY <1>1, <1>2, <1>3 DEF Suppliers

\* A row without the column of a field asks for nothing there.
LEMMA NothingWanted ==
  ASSUME Provenance, targets = Aims, Wide, NEW r \in RowNumbers, NEW i \in DOMAIN Fields,
         Named(i) \notin DOMAIN AllRows[r]
  PROVE  Wanted(r, i) = Absent /\ (Kept(Fields[i], Wanted(r, i)) <=> i \notin Required)
<1>1. Wanted(r, i) = Absent
  BY RowsWanted
<1>2. QED
  BY <1>1 DEF Kept, Required

\* In a request that is worded well, a column aimed at a field is aimed at by one
\* place, an UPDATE aside.
LEMMA PlacedOnce ==
  ASSUME Provenance, targets = Aims, Wide, ~Twice(req.cols), req.op # "update",
         NEW i \in DOMAIN Fields, NEW p \in Places(i)
  PROVE  Places(i) = {p}
<1>1. CASE req.op = "insert" /\ req.cols = <<>>
  BY <1>1 DEF Places
<1>2. CASE ~(req.op = "insert" /\ req.cols = <<>>)
  <2>1. targets = req.cols
    <3>1. req.op \in {"insert", "index"}
      BY RequestFacts
    <3>2. QED
      BY <1>2, <3>1 DEF Aims
  <2>2. Places(i) = {q \in DOMAIN targets : targets[q] = Named(i)} /\ DOMAIN targets = 1..Width /\ Width \in Nat
    BY TargetsAim
  <2>3. ASSUME NEW q \in Places(i) PROVE q = p
    <3>1. p \in Nat /\ q \in Nat /\ req.cols[p] = req.cols[q] /\ p \in DOMAIN req.cols /\ q \in DOMAIN req.cols
      BY <2>1, <2>2
    <3>2. ~(p < q) /\ ~(q < p)
      BY <3>1 DEF Twice
    <3>3. QED
      BY <3>1, <3>2
  <2>4. QED
    BY <2>3
<1>3. QED
  BY <1>1, <1>2

\* Every target of an acceptable request is the column of a field.
LEMMA AimedAtFields ==
  ASSUME Provenance, targets = Aims, Wide, \A p \in DOMAIN req.cols : \E i \in DOMAIN Fields : p \in Places(i),
         NEW p \in DOMAIN targets
  PROVE  \E i \in DOMAIN Fields : p \in Places(i) /\ targets[p] = Named(i)
<1>1. \A i \in DOMAIN Fields : Places(i) = {q \in DOMAIN targets : targets[q] = Named(i)}
  BY TargetsAim
<1>2. CASE req.op = "insert" /\ req.cols = <<>>
  <2>1. targets = [i \in DOMAIN Fields |-> Ref(Fields[i].name)]
    BY <1>2 DEF Aims
  <2>2. p \in DOMAIN Fields /\ targets[p] = Named(p)
    BY <2>1 DEF Named
  <2>3. QED
    BY <1>1, <2>2
<1>3. CASE ~(req.op = "insert" /\ req.cols = <<>>)
  <2>1. DOMAIN targets = DOMAIN req.cols
    BY <1>3 DEF Aims
  <2>2. QED
    BY <1>1, <2>1
<1>4. QED
  BY <1>2, <1>3

\* An acceptable request is worded well.
LEMMA AcceptableWorded ==
  ASSUME Provenance, Sendable
  PROVE  ~Misworded
<1>1. Literals(req.groups) /\ ~Twice(req.cols) /\ \A g \in ToSet(req.groups) : Len(g) = Width
  BY DEF Sendable
<1>2. SameArity(req.groups)
  <2>1. 1 \in DOMAIN req.groups
    BY RequestFacts, Sequences
  <2>2. req.groups[1] \in ToSet(req.groups)
    BY <2>1 DEF ToSet
  <2>3. QED
    BY <1>1, <2>2 DEF SameArity
<1>3. ASSUME req.op = "update", NEW c \in ToSet(req.cols) PROVE Strip(c).of = ""
  <2>1. PICK p \in DOMAIN req.cols : c = req.cols[p]
    BY DEF ToSet
  <2>2. PICK i \in DOMAIN Fields : p \in Places(i)
    BY DEF Sendable
  <2>3. c.of \in {"", Table}
    BY <1>3, <2>1, <2>2 DEF Places
  <2>4. Ref(c.name).of = ""
    BY DEF Ref
  <2>5. QED
    BY <2>3, <2>4 DEF Strip
<1>4. QED
  BY <1>1, <1>2, <1>3 DEF Misworded, MiswordedInsert, MiswordedUpdate

\* Every value of an acceptable request lowers.
LEMMA AcceptableLowers ==
  ASSUME Provenance, targets = Aims, Sendable
  PROVE  Wide /\ Lowerable
<1>1. Wide
  BY TargetsAim DEF Wide, Sendable
<1>2. ASSUME NEW g \in ToSet(req.groups), NEW p \in DOMAIN g PROVE Lowered(g[p], targets[p]).ok
  <2>1. PICK k \in DOMAIN req.groups : g = req.groups[k]
    BY DEF ToSet
  <2>2. DOMAIN req.groups = 1..Len(req.groups) /\ Len(req.groups) \in Nat
    BY RequestFacts, Sequences
  <2>3. IsSequence(g) /\ Written(req.op, g[p])
    BY <2>1, RequestFacts
  <2>4. p \in DOMAIN targets
    <3>1. Len(g) = Width
      BY DEF Sendable
    <3>2. QED
      BY <2>3, <3>1, TargetsAim, Sequences
  <2>5. PICK i \in DOMAIN Fields : p \in Places(i) /\ targets[p] = Named(i)
    BY <1>1, <2>4, AimedAtFields DEF Sendable
  <2>6. CASE g[p] = Nil
    BY <2>6, NilStored DEF Yes
  <2>7. CASE g[p] # Nil
    <3> DEFINE v == g[p]
               c == targets[p]
               f == Fields[i]
    <3>1. IsVector(c) <=> f.native = "float_vector"
      BY <2>5, FieldColumn
    <3> HIDE DEF v, c, f
    <3>2. /\ (Lowered(v, c).ok /\ WriteValue(f, Lowered(v, c).cell).ok) <=> Keeps(f, v)
          /\ req.op # "index" => (Lowered(v, c).ok <=> (f.native = "float_vector" => Readable(v)))
      BY <2>3, <2>7, <3>1, LiteralStored DEF v
    <3>3. CASE req.op = "update"
      <4>1. k = 1
        BY <2>2, <3>3, RequestFacts
      <4>2. f.native = "float_vector" => Readable(v)
        BY <2>1, <2>5, <3>3, <4>1 DEF Sendable, v, f
      <4>3. QED
        BY <3>2, <3>3, <4>2 DEF v, c
    <3>4. CASE req.op # "update"
      <4>1. k \in RowNumbers
        BY <3>4 DEF RowNumbers
      <4>2. Places(i) = {p}
        BY <1>1, <2>5, <3>4, PlacedOnce DEF Sendable
      <4>3. Wanted(k, i) = v
        <5>1. (CHOOSE q \in {p} : \A s \in {p} : s <= q) = p
          <6>1. p \in Nat
            BY <2>4, TargetsAim
          <6>2. QED
            BY <6>1
        <5>2. QED
          BY <2>1, <3>4, <4>2, <5>1 DEF Wanted, v
      <4>4. Kept(f, v)
        BY <4>1, <4>3 DEF Sendable, f
      <4>5. v # Absent
        BY <2>3 DEF Written, Absent, v
      <4>6. Keeps(f, v)
        BY <2>7, <4>4, <4>5 DEF Kept, v
      <4>7. QED
        BY <3>2, <4>6 DEF v, c
    <3>5. QED
      BY <3>3, <3>4
  <2>8. QED
    BY <2>6, <2>7
<1>3. QED
  BY <1>1, <1>2 DEF Wide, Lowerable

\* Nothing is at fault in an acceptable request.
LEMMA AcceptableFaultless ==
  ASSUME Provenance, SInv, phase # "text", Sendable
  PROVE  ~Faulty
<1>1. ~Misworded /\ targets = Aims
  BY AcceptableWorded DEF Provenance
<1>2. Wide /\ Lowerable
  BY <1>1, AcceptableLowers
<1>3. ASSUME NEW r \in DOMAIN rows PROVE r \in RowNumbers /\ rows = AllRows
  <2>1. rows = AllRows
    BY <1>3 DEF Provenance
  <2>2. DOMAIN AllRows = RowNumbers
    BY DEF AllRows, RowNumbers
  <2>3. QED
    BY <2>1, <2>2
<1>4. ASSUME NEW r \in DOMAIN rows, NEW c \in DOMAIN rows[r] PROVE Storable(c, rows[r][c])
  <2>1. r \in RowNumbers /\ rows = AllRows
    BY <1>3
  <2>2. PICK i \in DOMAIN Fields : c = Named(i)
    <3>1. ASSUME c \in ToSet(targets) PROVE \E i \in DOMAIN Fields : c = Named(i)
      <4>1. PICK p \in DOMAIN targets : c = targets[p]
        BY <3>1 DEF ToSet
      <4>2. QED
        BY <1>1, <1>2, <4>1, AimedAtFields DEF Sendable
    <3>2. \A g : DOMAIN RowOf(g) = ToSet(targets)
      BY DEF RowOf
    <3>3. CASE req.op = "update"
      <4>1. r \in DOMAIN req.fetched /\ AllRows[r] = Over(RowOf(req.groups[1]), req.fetched[r])
        BY <2>1, <3>3 DEF RowNumbers, AllRows
      <4>2. c \in ToSet(targets) \/ c \in DOMAIN req.fetched[r]
        <5>1. DOMAIN AllRows[r] = DOMAIN RowOf(req.groups[1]) \cup DOMAIN req.fetched[r]
          BY <4>1 DEF Over
        <5>2. QED
          BY <2>1, <3>2, <5>1
      <4>3. c \in DOMAIN req.fetched[r] => \E i \in DOMAIN Fields : c = Named(i)
        BY <4>1, RequestFacts DEF Named
      <4>4. QED
        BY <3>1, <4>2, <4>3
    <3>4. CASE req.op # "update"
      BY <2>1, <3>1, <3>2, <3>4 DEF RowNumbers, AllRows
    <3>5. QED
      BY <3>3, <3>4
  <2>3. Kept(Fields[i], Wanted(r, i))
    BY <2>1 DEF Sendable
  <2>4. QED
    BY <1>1, <1>2, <2>1, <2>2, <2>3, CellVerdict
<1>5. ASSUME NEW r \in DOMAIN rows, NEW i \in Required PROVE Suppliers(r, i) # {}
  <2>1. r \in RowNumbers /\ rows = AllRows
    BY <1>3
  <2>2. i \in DOMAIN Fields /\ Kept(Fields[i], Wanted(r, i))
    BY <2>1 DEF Sendable, Required
  <2>3. Named(i) \in DOMAIN rows[r]
    BY <1>1, <1>2, <2>1, <2>2, NothingWanted
  <2>4. QED
    BY <2>2, <2>3, RowSuppliers
<1>6. QED
  BY <1>1, <1>2, <1>4, <1>5 DEF Faulty

\* What is left when nothing is at fault: every cell fits, and the tables hold it.
LEMMA FaultlessFits ==
  ASSUME Provenance, SInv, phase \in Checking, ~Faulty
  PROVE  /\ ~Misworded /\ targets = Aims /\ Wide /\ Lowerable /\ rows = AllRows /\ DOMAIN rows = RowNumbers
         /\ \A i \in DOMAIN Fields, r \in RowNumbers :
              /\ Kept(Fields[i], Wanted(r, i)) /\ Means(Fields[i], Wanted(r, i), Converted(r, i))
              /\ Converted(r, i) = Nil => Wanted(r, i) \in {Absent, Nil}
<1>1. ~Misworded /\ Lowerable
  BY DEF Faulty
<1>2. targets = Aims /\ rows = AllRows
  BY <1>1 DEF Provenance, Checking
<1>3. Wide
  BY <1>1 DEF Lowerable, Wide
<1>4. DOMAIN rows = RowNumbers
  BY <1>2 DEF AllRows, RowNumbers
<1>5. ASSUME NEW i \in DOMAIN Fields, NEW r \in RowNumbers
      PROVE  /\ Kept(Fields[i], Wanted(r, i)) /\ Means(Fields[i], Wanted(r, i), Converted(r, i))
             /\ Converted(r, i) = Nil => Wanted(r, i) \in {Absent, Nil}
  <2>1. Suppliers(r, i) = {Named(i)} \cap DOMAIN rows[r]
    BY <1>4, RowSuppliers
  <2>2. CASE Named(i) \in DOMAIN rows[r]
    <3>1. Storable(Named(i), rows[r][Named(i)])
      BY <1>4, <2>2 DEF Faulty
    <3>2. /\ Kept(Fields[i], Wanted(r, i))
          /\ Means(Fields[i], Wanted(r, i), WriteValue(Fields[i], rows[r][Named(i)]).cell)
          /\ WriteValue(Fields[i], rows[r][Named(i)]).cell = Nil => Wanted(r, i) = Nil
      BY <1>1, <1>2, <1>3, <2>2, <3>1, CellVerdict
    <3>3. Suppliers(r, i) = {Named(i)}
      BY <2>1, <2>2
    <3>4. Converted(r, i) = WriteValue(Fields[i], rows[r][Named(i)]).cell
      BY <3>3 DEF Converted
    <3>5. QED
      BY <3>2, <3>4
  <2>3. CASE Named(i) \notin DOMAIN rows[r]
    <3>1. Suppliers(r, i) = {}
      BY <2>1, <2>3
    <3>2. i \notin Required /\ Converted(r, i) = Nil
      BY <1>4, <3>1 DEF Faulty, Converted
    <3>3. Wanted(r, i) = Absent /\ Kept(Fields[i], Wanted(r, i))
      BY <1>2, <1>3, <2>3, <3>2, NothingWanted
    <3>4. Means(Fields[i], Absent, Nil)
      BY DEF Means
    <3>5. QED
      BY <3>2, <3>3, <3>4
  <2>4. QED
    BY <2>2, <2>3
<1>6. QED
  BY <1>1, <1>2, <1>3, <1>4, <1>5

\* A write with rows is acceptable when nothing in it is at fault.
LEMMA FaultlessAcceptable ==
  ASSUME Provenance, SInv, phase \in Checking, ~Faulty
  PROVE  Sendable
<1>1. /\ ~Misworded /\ targets = Aims /\ Wide /\ Lowerable /\ rows = AllRows /\ DOMAIN rows = RowNumbers
      /\ \A i \in DOMAIN Fields, r \in RowNumbers : Kept(Fields[i], Wanted(r, i))
  BY FaultlessFits
<1>2. req.op \in {"insert", "update", "index"}
  BY RequestFacts
<1>3. Literals(req.groups)
  <2>1. CASE req.op # "index"
    BY <1>1, <1>2, <2>1 DEF Misworded, MiswordedInsert, MiswordedUpdate
  <2>2. CASE req.op = "index"
    <3>1. ASSUME NEW g \in ToSet(req.groups), Unsupported \in ToSet(g) PROVE FALSE
      <4>1. PICK k \in DOMAIN req.groups : g = req.groups[k]
        BY DEF ToSet
      <4>2. PICK n \in DOMAIN g : g[n] = Unsupported
        BY <3>1 DEF ToSet
      <4>3. Written("index", Unsupported)
        BY <2>2, <4>1, <4>2, RequestFacts
      <4>4. QED
        BY <4>3 DEF Written, Unsupported
    <3>2. QED
      BY <3>1 DEF Literals
  <2>3. QED
    BY <2>1, <2>2
<1>4. \A g \in ToSet(req.groups) : Len(g) = Width
  BY <1>1, TargetsAim DEF Wide
<1>5. ~Twice(req.cols)
  <2>1. CASE req.op # "index"
    BY <1>1, <1>2, <2>1 DEF Misworded, MiswordedInsert, MiswordedUpdate
  <2>2. CASE req.op = "index"
    <3>1. \A i, j \in DOMAIN req.cols : req.cols[i] = req.cols[j] => i = j
      BY <2>2, RequestFacts
    <3>2. DOMAIN req.cols \subseteq Nat
      BY RequestFacts, Sequences
    <3>3. QED
      BY <3>1, <3>2 DEF Twice
  <2>3. QED
    BY <2>1, <2>2
<1>6. ASSUME NEW p \in DOMAIN req.cols PROVE \E i \in DOMAIN Fields : p \in Places(i)
  <2>1. PICK r \in RowNumbers : TRUE
    <3>1. CASE req.op # "update"
      <4>1. 1 \in DOMAIN req.groups
        BY RequestFacts, Sequences
      <4>2. QED
        BY <3>1, <4>1 DEF RowNumbers
    <3>2. CASE req.op = "update"
      <4>1. rows # <<>>
        BY DEF Provenance
      <4>2. IsSequence(req.fetched)
        BY RequestFacts
      <4>3. rows = [r \in DOMAIN req.fetched |-> Over(RowOf(req.groups[1]), req.fetched[r])]
        BY <1>1, <3>2 DEF AllRows
      <4>4. DOMAIN req.fetched # {}
        BY <4>1, <4>3
      <4>5. QED
        BY <3>2, <4>4 DEF RowNumbers
    <3>3. QED
      BY <3>1, <3>2
  <2>2. req.cols # <<>>
    OBVIOUS
  <2>3. DOMAIN targets = DOMAIN req.cols
    BY <1>1, <2>2 DEF Aims
  <2>4. targets[p] \in DOMAIN rows[r]
    <3>1. targets[p] \in ToSet(targets)
      BY <2>3 DEF ToSet
    <3>2. \A g : DOMAIN RowOf(g) = ToSet(targets)
      BY DEF RowOf
    <3>3. CASE req.op = "update"
      <4>1. rows[r] = Over(RowOf(req.groups[1]), req.fetched[r])
        BY <1>1, <3>3 DEF RowNumbers, AllRows
      <4>2. DOMAIN rows[r] = DOMAIN RowOf(req.groups[1]) \cup DOMAIN req.fetched[r]
        BY <4>1 DEF Over
      <4>3. QED
        BY <3>1, <3>2, <4>2
    <3>4. CASE req.op # "update"
      BY <1>1, <3>1, <3>2, <3>4 DEF RowNumbers, AllRows
    <3>5. QED
      BY <3>3, <3>4
  <2>5. Known(targets[p])
    BY <1>1, <2>4 DEF Faulty, Storable
  <2> DEFINE i == Target(targets[p])
  <2>6. i \in DOMAIN Fields /\ IsColumn(targets[p])
    BY <1>1, <2>3, <2>5, TargetNamed, TargetsAim
  <2>7. targets[p] = Named(i)
    BY <2>5, <2>6, FieldColumn
  <2>8. p \in Places(i)
    BY <1>1, <2>3, <2>6, <2>7, TargetsAim
  <2>9. QED
    BY <2>6, <2>8
<1>7. ASSUME req.op = "update", NEW i \in DOMAIN Fields, NEW p \in Places(i), Fields[i].native = "float_vector"
      PROVE  Readable(req.groups[1][p])
  <2> DEFINE v == req.groups[1][p]
             c == targets[p]
  <2>1. p \in DOMAIN targets /\ c = Named(i)
    BY <1>1, TargetsAim
  <2>2. 1 \in DOMAIN req.groups /\ req.groups[1] \in ToSet(req.groups)
    BY RequestFacts, Sequences
  <2>3. DOMAIN req.groups[1] = DOMAIN targets
    <3>1. Len(req.groups[1]) = Len(targets) /\ IsSequence(req.groups[1])
      BY <1>1, <2>2, RequestFacts DEF Wide
    <3>2. QED
      BY <1>1, <3>1, TargetsAim, Sequences
  <2>4. Written(req.op, v) /\ Lowered(v, c).ok
    <3>1. Written(req.op, v)
      BY <2>1, <2>2, <2>3, RequestFacts
    <3>2. Lowered(v, c).ok
      BY <1>1, <2>1, <2>2, <2>3 DEF Lowerable
    <3>3. QED
      BY <3>1, <3>2
  <2>5. IsVector(c) <=> Fields[i].native = "float_vector"
    BY <2>1, FieldColumn
  <2> HIDE DEF v, c
  <2>6. CASE v = Nil
    BY <2>6 DEF Readable, Nil, v
  <2>7. CASE v # Nil
    <3>1. req.op # "index" => (Lowered(v, c).ok <=> (Fields[i].native = "float_vector" => Readable(v)))
      BY <2>4, <2>5, <2>7, LiteralStored
    <3>2. QED
      BY <1>7, <2>4, <3>1 DEF v
  <2>8. QED
    BY <2>6, <2>7
<1>8. QED
  BY <1>1, <1>3, <1>4, <1>5, <1>6, <1>7 DEF Sendable

\* What is sent is what is acceptable, less what is turned away.
LEMMA SendableAcceptable == Sendable <=> Acceptable /\ ~SomeTurnedAway
<1>1. ASSUME NEW f, NEW w PROVE Kept(f, w) <=> Fits(f, w) /\ ~(TurnedAway(f, w) /\ Fits(f, w))
  <2>1. w \in {Absent, Nil} => ~TurnedAway(f, w)
    BY DEF TurnedAway, Absent, Nil
  <2>2. QED
    BY <2>1 DEF Kept, Fits, Keeps
<1>2. ASSUME NEW f, NEW w, Kept(f, w) PROVE ~TurnedAway(f, w)
  <2>1. w \in {Absent, Nil} => ~TurnedAway(f, w)
    BY DEF TurnedAway, Absent, Nil
  <2>2. QED
    BY <1>2, <2>1 DEF Kept, Keeps
<1>3. (\A i \in DOMAIN Fields : \A r \in RowNumbers : Kept(Fields[i], Wanted(r, i)))
        <=> /\ \A i \in DOMAIN Fields : \A r \in RowNumbers : Fits(Fields[i], Wanted(r, i))
            /\ ~SomeTurnedAway
  BY <1>1, <1>2 DEF SomeTurnedAway
<1>4. QED
  BY <1>3 DEF Sendable, Acceptable

\* Without a list of columns an automatic key has a value, and is turned away.
LEMMA KeyTurnedAway ==
  ASSUME Provenance, Sendable PROVE ~KeyCounted
<1> SUFFICES ASSUME req.op = "insert", req.cols = <<>>, NEW i \in DOMAIN Fields, Fields[i].auto
             PROVE  FALSE
  BY DEF KeyCounted
<1>1. /\ IsSequence(Fields) /\ IsSequence(req.groups) /\ Len(req.groups) > 0
      /\ \A g \in DOMAIN req.groups :
           IsSequence(req.groups[g]) /\ \A k \in DOMAIN req.groups[g] : Written(req.op, req.groups[g][k])
  BY RequestFacts
<1>2. DOMAIN req.groups = 1..Len(req.groups) /\ Len(req.groups) \in Nat /\ \A n \in DOMAIN req.groups : req.groups[n] \in ToSet(req.groups)
  BY <1>1, Sequences
<1>3. 1 \in DOMAIN req.groups
  BY <1>1, <1>2
<1>4. Len(req.groups[1]) = Len(Fields)
  BY <1>2, <1>3 DEF Sendable, Width
<1>5. DOMAIN Fields = 1..Len(Fields) /\ DOMAIN req.groups[1] = 1..Len(req.groups[1])
  BY <1>1, <1>3, Sequences
<1>6. i \in DOMAIN req.groups[1]
  BY <1>4, <1>5
<1>7. Places(i) = {i}
  BY <1>6 DEF Places
<1>8. Wanted(1, i) = req.groups[1][i]
  <2>1. (CHOOSE p \in {i} : \A q \in {i} : q <= p) = i
    BY <1>5
  <2>2. QED
    BY <1>7, <2>1 DEF Wanted
<1>9. Wanted(1, i) # Absent
  BY <1>1, <1>3, <1>6, <1>8 DEF Written, Absent
<1>10. 1 \in RowNumbers
  BY <1>3 DEF RowNumbers
<1>11. Kept(Fields[i], Wanted(1, i))
  BY <1>10 DEF Sendable
<1>12. QED
  BY <1>9, <1>11 DEF Kept

\* Parsing, lowering and validateWriteCells together: whatever the schema, the
\* number formats and the values, a write is sent only if every value of it has a
\* place and a storage form in the schema, and refused only if some value has none
\* or is one of those that the code turns away against its own comments.
THEOREM WritesJudgedExactly == Spec => []RefusedExactly
<1>1. SInv /\ Provenance /\ DecidedByContent => RefusedExactly
  <2> SUFFICES ASSUME SInv, Provenance, DecidedByContent PROVE RefusedExactly
    OBVIOUS
  <2>1. ASSUME phase = "sent" PROVE Sendable
    BY <2>1, FaultlessAcceptable DEF DecidedByContent, Checking
  <2>2. ASSUME phase = "refused" PROVE ~Sendable
    <3>1. Faulty /\ phase # "text"
      BY <2>2 DEF DecidedByContent
    <3>2. QED
      BY <3>1, AcceptableFaultless
  <2>3. phase = "sent" => ~KeyCounted
    BY <2>1, KeyTurnedAway
  <2>4. QED
    BY <2>1, <2>2, <2>3, SendableAcceptable DEF RefusedExactly
<1>2. QED
  BY <1>1, WriteInvariant, WriteProvenance, VerdictByContent, PTL

\* How Milvus reads a column back: the cell that was converted.
LEMMA ReadBack ==
  ASSUME Provenance, SInv, phase = "sent", ColumnsFromRows, ~Faulty,
         NEW i \in DOMAIN cols, NEW r \in RowNumbers, i \in DOMAIN Fields
  PROVE  Read(i, r) = Converted(r, i)
<1> DEFINE s == [k \in DOMAIN rows |-> Converted(k, i)]
           n == IF req.op = "update" THEN Len(req.fetched) ELSE Len(req.groups)
<1>1. DOMAIN rows = RowNumbers /\ phase \in Checking
  BY FaultlessFits DEF Checking
<1>2. n \in Nat /\ DOMAIN rows = 1..n
  BY <1>1, RequestFacts, Sequences DEF RowNumbers
<1>3. cols[i].values = Compact(s)
  BY DEF ColumnsFromRows
<1>4. IsSequence(s) /\ DOMAIN s = 1..n /\ \A k \in 1..n : s[k] = Converted(k, i)
  <2>1. DOMAIN s = 1..n /\ \A k \in 1..n : s[k] = Converted(k, i)
    BY <1>2
  <2>2. s \in [1..n -> ToSet(s)]
    BY <2>1 DEF ToSet
  <2>3. s \in Seq(ToSet(s))
    <3> DEFINE S == ToSet(s)
    <3> HIDE DEF S, s, n
    <3>1. s \in [1..n -> S]
      BY <2>2 DEF S
    <3>2. s \in Seq(S)
      BY <1>2, <3>1
    <3>3. QED
      BY <3>2 DEF S
  <2>4. QED
    BY <2>1, <2>3 DEF IsSequence
<1> HIDE DEF s, n
<1>5. r \in 1..n
  BY <1>1, <1>2
<1>6. s[r] # Nil => cols[i].values[Cardinality(Filled(s, r))] = s[r]
  BY <1>3, <1>4, <1>5, CompactKeeps
<1>7. CASE Fields[i].nullable
  <2>1. cols[i].valid = [k \in 1..n |-> Converted(k, i) # Nil]
    BY <1>2, <1>7 DEF ColumnsFromRows
  <2>2. cols[i].valid # <<>>
    BY <1>5, <2>1
  <2>3. \A k \in 1..n : cols[i].valid[k] <=> s[k] # Nil
    BY <1>4, <2>1
  <2>4. {k \in 1..r : cols[i].valid[k]} = Filled(s, r)
    <3>1. \A k \in 1..r : k \in 1..n
      BY <1>2, <1>5
    <3>2. \A k \in 1..r : cols[i].valid[k] <=> s[k] # Nil
      BY <2>3, <3>1
    <3>3. QED
      BY <3>2, Zenon DEF Filled
  <2>5. Read(i, r) = IF s[r] # Nil THEN cols[i].values[Cardinality(Filled(s, r))] ELSE Nil
    BY <1>5, <2>2, <2>3, <2>4 DEF Read
  <2>6. QED
    BY <1>4, <1>5, <1>6, <2>5
<1>8. CASE ~Fields[i].nullable
  <2>1. cols[i].valid = <<>>
    BY <1>8 DEF ColumnsFromRows
  <2>2. Read(i, r) = cols[i].values[r]
    BY <2>1 DEF Read
  <2>3. \A k \in 1..n : s[k] # Nil
    <3> SUFFICES ASSUME NEW k \in 1..n, s[k] = Nil PROVE FALSE
      OBVIOUS
    <3>1. k \in RowNumbers /\ Converted(k, i) = Nil
      BY <1>1, <1>2, <1>4
    <3>2. Wanted(k, i) \in {Absent, Nil} /\ Kept(Fields[i], Wanted(k, i))
      BY <1>1, <3>1, FaultlessFits
    <3>3. ~Fields[i].auto
      BY DEF SInv, Built
    <3>4. QED
      BY <1>8, <3>2, <3>3 DEF Kept
  <2>4. Filled(s, r) = 1..r
    BY <1>2, <1>5, <2>3 DEF Filled
  <2>5. Cardinality(1..r) = r
    BY <1>2, <1>5, FS_Interval
  <2>6. QED
    BY <1>4, <1>5, <1>6, <2>2, <2>3, <2>4, <2>5
<1>9. QED
  BY <1>7, <1>8

\* writeColumns, columnOf and compact: every column sent reads back in every row as
\* the value that the request asks for there, up to the rounding of its format,
\* and a field that is not sent was asked for in no row.
THEOREM RowsSurvive == Spec => []ColumnsCarryRows
<1>1. SInv /\ Provenance /\ DecidedByContent /\ ColumnsFromRows => ColumnsCarryRows
  <2> SUFFICES ASSUME SInv, Provenance, DecidedByContent, ColumnsFromRows, phase = "sent",
                      NEW i \in DOMAIN Fields, NEW r \in RowNumbers
               PROVE  IF i \in DOMAIN cols THEN Means(Fields[i], Wanted(r, i), Read(i, r))
                      ELSE Wanted(r, i) \in {Absent, Nil}
    BY DEF ColumnsCarryRows
  <2>1. ~Faulty /\ phase \in Checking
    BY DEF DecidedByContent, Checking
  <2>2. Kept(Fields[i], Wanted(r, i)) /\ Means(Fields[i], Wanted(r, i), Converted(r, i))
    BY <2>1, FaultlessFits
  <2>3. CASE i \in DOMAIN cols
    BY <2>1, <2>2, <2>3, ReadBack
  <2>4. CASE i \notin DOMAIN cols
    <3>1. Fields[i].auto \/ Fields[i].native \notin Writable
      BY <2>4 DEF SInv, Built
    <3>2. Fields[i].native \notin Writable => ~Keeps(Fields[i], Wanted(r, i))
      BY DEF Keeps, HasForm, TurnedAway, Writable
    <3>3. QED
      BY <2>2, <2>4, <3>1, <3>2 DEF Kept
  <2>5. QED
    BY <2>3, <2>4
<1>2. QED
  BY <1>1, WriteInvariant, WriteProvenance, VerdictByContent, ColumnsHoldRows, PTL
=============================================================================
