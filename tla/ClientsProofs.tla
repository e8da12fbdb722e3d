------------------------------- MODULE ClientsProofs -------------------------------
(***********************************************************************************)
(* The requests of Clients: their bodies, what is refused, skipped and repeated,   *)
(* and the delays, for all requests, all failures and all bodies.                  *)
(***********************************************************************************)
EXTENDS Clients, NaturalsInduction, WellFoundedInduction, FiniteSetTheorems, SequenceTheorems, TLAPS

-----------------------------------------------------------------------------------
(* Numbers.                                                                        *)

\* A set that 0 is in, and the successor of each number in it, holds every number.
LEMMA NatInduct ==
    ASSUME NEW S, 0 \in S, \A n \in Nat : n \in S => n + 1 \in S
    PROVE  \A n \in Nat : n \in S
<1> SUFFICES ASSUME NEW k \in Nat, k \notin S PROVE FALSE
    OBVIOUS
<1> DEFINE T == Nat \ S
<1>1. PICK x \in T : \A y \in T : ~ (<<y, x>> \in OpToRel(<, Nat))
    BY NatLessThanWellFounded, WFMin, Zenon
<1>2. x \in Nat /\ x # 0
    BY <1>1
<1>3. x - 1 \in Nat /\ x - 1 < x /\ (x - 1) + 1 = x
    BY <1>2
<1>4. <<x - 1, x>> \in OpToRel(<, Nat)
    BY <1>2, <1>3 DEF OpToRel
<1>5. x - 1 \in S
    BY <1>1, <1>3, <1>4
<1> QED
    BY <1>1, <1>3, <1>5

\* The least of a set of numbers is one of them.
LEMMA MinIsIn ==
    ASSUME NEW S \in SUBSET Nat, S # {}
    PROVE  Min(S) \in Nat
<1>1. PICK x \in S : \A y \in S : ~ (<<y, x>> \in OpToRel(<, Nat))
    BY NatLessThanWellFounded, WFMin, Zenon
<1>2. \A y \in S : x =< y
  <2> SUFFICES ASSUME NEW y \in S, ~ (x =< y) PROVE FALSE
      OBVIOUS
  <2>1. x \in Nat /\ y \in Nat /\ y < x
      OBVIOUS
  <2>2. <<y, x>> \in OpToRel(<, Nat)
      BY <2>1 DEF OpToRel
  <2> QED
      BY <1>1, <2>2
<1> DEFINE m == CHOOSE z \in S : \A y \in S : z =< y
<1>3. m \in S
    BY <1>2, Zenon
<1>4. Min(S) = m
    BY DEF Min
<1> QED
    BY <1>3, <1>4

\* How the lesser of two numbers lies to them.
LEMMA LeastIsLess ==
    ASSUME NEW a \in Int, NEW b \in Int
    PROVE  /\ Least(a, b) \in {a, b}
           /\ Least(a, b) <= a /\ Least(a, b) <= b
    BY DEF Least

\* The numbers b ** n follow the equations that define them.
LEMMA PowerRecursion ==
    ASSUME NEW b \in Nat
    PROVE  Power(b) = [n \in Nat |-> IF n = 0 THEN 1 ELSE b * Power(b)[n - 1]]
<1> DEFINE G(n) == { g \in [0..n -> Nat] : g[0] = 1 /\ \A k \in 1..n : g[k] = b * g[k - 1] }
           g(n) == CHOOSE h : h \in G(n)
           F == [n \in Nat |-> g(n)[n]]
<1>1. \A n \in Nat : G(n) # {}
  <2> DEFINE S == { n \in Nat : G(n) # {} }
  <2>1. 0 \in S
    <3> DEFINE h == [k \in 0..0 |-> 1]
    <3>1. h \in [0..0 -> Nat] /\ h[0] = 1
        OBVIOUS
    <3>2. \A k \in 1..0 : h[k] = b * h[k - 1]
        OBVIOUS
    <3>3. h \in G(0)
        BY <3>1, <3>2
    <3> QED
        BY <3>3
  <2>2. ASSUME NEW n \in Nat, n \in S PROVE n + 1 \in S
    <3>1. PICK h \in G(n) : TRUE
        BY <2>2
    <3> DEFINE e == [k \in 0..(n + 1) |-> IF k = n + 1 THEN b * h[n] ELSE h[k]]
    <3>2. h \in [0..n -> Nat] /\ h[0] = 1 /\ \A k \in 1..n : h[k] = b * h[k - 1]
        OBVIOUS
    <3>3. b * h[n] \in Nat
        BY <3>2
    <3>4. e \in [0..(n + 1) -> Nat]
        BY <3>2, <3>3
    <3>5. e[0] = 1
        BY <3>2
    <3>6. ASSUME NEW k \in 1..(n + 1) PROVE e[k] = b * e[k - 1]
        BY <3>2, <3>6
    <3>7. e \in G(n + 1)
        BY <3>4, <3>5, <3>6
    <3> HIDE DEF e, G
    <3>8. G(n + 1) # {} /\ n + 1 \in Nat
        BY <3>7
    <3> QED
        BY <3>8
  <2> HIDE DEF S
  <2>3. \A n \in Nat : n \in S
      BY <2>1, <2>2, NatInduct
  <2> QED
      BY <2>3 DEF S
<1>2. \A n \in Nat : g(n) \in G(n)
    BY <1>1
<1>3. ASSUME NEW n \in Nat PROVE F[n + 1] = b * F[n]
  <2> DEFINE p == g(n)
             q == g(n + 1)
             S == { k \in Nat : k <= n => p[k] = q[k] }
  <2>1. p \in [0..n -> Nat] /\ p[0] = 1 /\ \A k \in 1..n : p[k] = b * p[k - 1]
      BY <1>2
  <2>2. q \in [0..(n + 1) -> Nat] /\ q[0] = 1 /\ \A k \in 1..(n + 1) : q[k] = b * q[k - 1]
    <3>1. n + 1 \in Nat
        OBVIOUS
    <3> HIDE DEF g
    <3>2. g(n + 1) \in G(n + 1)
        BY <1>2, <3>1
    <3> QED
        BY <3>2
  <2> HIDE DEF p, q
  <2>3. 0 \in S
      BY <2>1, <2>2
  <2>4. ASSUME NEW k \in Nat, k \in S PROVE k + 1 \in S
    <3> SUFFICES ASSUME k + 1 <= n PROVE p[k + 1] = q[k + 1]
        OBVIOUS
    <3>1. k + 1 \in 1..n /\ k + 1 \in 1..(n + 1) /\ (k + 1) - 1 = k
        OBVIOUS
    <3>2. p[k + 1] = b * p[k] /\ q[k + 1] = b * q[k]
        BY <2>1, <2>2, <3>1
    <3>3. p[k] = q[k]
        BY <2>4
    <3> QED
        BY <3>2, <3>3
  <2>5. \A k \in Nat : k \in S
    <3> HIDE DEF S
    <3> QED
        BY <2>3, <2>4, NatInduct
  <2>6. p[n] = q[n]
      BY <2>5
  <2>7. q[n + 1] = b * q[n]
      BY <2>2
  <2>8. F[n + 1] = q[n + 1] /\ F[n] = p[n]
      BY DEF p, q
  <2> QED
      BY <2>6, <2>7, <2>8
<1>4. F[0] = 1
    BY <1>2
<1> DEFINE H == [n \in Nat |-> IF n = 0 THEN 1 ELSE b * F[n - 1]]
<1>5. F = H
  <2>1. ASSUME NEW n \in Nat PROVE F[n] = H[n]
    <3>1. CASE n = 0
        BY <1>4, <3>1
    <3>2. CASE n # 0
      <4>1. n - 1 \in Nat /\ (n - 1) + 1 = n
          BY <3>2
      <4>2. F[n] = b * F[n - 1]
          BY <1>3, <4>1
      <4> HIDE DEF F
      <4> QED
          BY <3>2, <4>2
    <3> QED
        BY <3>1, <3>2
  <2> QED
      BY <2>1
<1> HIDE DEF F
<1> DEFINE R == CHOOSE f : f = [n \in Nat |-> IF n = 0 THEN 1 ELSE b * f[n - 1]]
<1>6. F = [n \in Nat |-> IF n = 0 THEN 1 ELSE b * F[n - 1]]
    BY <1>5
<1>7. R = [n \in Nat |-> IF n = 0 THEN 1 ELSE b * R[n - 1]]
    BY <1>6, Zenon
<1>8. Power(b) = R
    BY DEF Power
<1> QED
    BY <1>7, <1>8, Zenon

\* b ** n is a number, and one at least when b is.
LEMMA PowerIsNat ==
    ASSUME NEW b \in Nat \ {0}
    PROVE  \A n \in Nat : Power(b)[n] \in Nat \ {0}
<1> DEFINE P == Power(b)
           S == { n \in Nat : P[n] \in Nat \ {0} }
<1>1. P = [n \in Nat |-> IF n = 0 THEN 1 ELSE b * P[n - 1]]
    BY PowerRecursion
<1> HIDE DEF P
<1>2. P[0] = 1 /\ \A n \in Nat : P[n + 1] = b * P[n]
    BY <1>1
<1>3. 0 \in S
    BY <1>2
<1>4. ASSUME NEW n \in Nat, n \in S PROVE n + 1 \in S
  <2> DEFINE k == P[n]
  <2>1. k \in Nat \ {0}
      BY <1>4
  <2>2. P[n + 1] = b * k
      BY <1>2
  <2> HIDE DEF k
  <2>3. b * k \in Nat \ {0}
      BY <2>1
  <2> QED
      BY <2>2, <2>3
<1>5. \A n \in Nat : n \in S
  <2> HIDE DEF S
  <2> QED
      BY <1>3, <1>4, NatInduct
<1> QED
    BY <1>5 DEF P

\* 2 ** n is no more than 3 ** n.
LEMMA PowersGrow ==
    \A n \in Nat : Power(2)[n] <= Power(3)[n]
<1> DEFINE P == Power(2)
           Q == Power(3)
           S == { n \in Nat : P[n] <= Q[n] }
<1>1. P = [n \in Nat |-> IF n = 0 THEN 1 ELSE 2 * P[n - 1]]
    BY PowerRecursion
<1>2. Q = [n \in Nat |-> IF n = 0 THEN 1 ELSE 3 * Q[n - 1]]
    BY PowerRecursion
<1>3. \A n \in Nat : P[n] \in Nat /\ Q[n] \in Nat
  <2>1. 2 \in Nat \ {0} /\ 3 \in Nat \ {0}
      OBVIOUS
  <2> QED
      BY <2>1, PowerIsNat
<1> HIDE DEF P, Q
<1>4. P[0] = 1 /\ Q[0] = 1 /\ \A n \in Nat : P[n + 1] = 2 * P[n] /\ Q[n + 1] = 3 * Q[n]
    BY <1>1, <1>2
<1>5. 0 \in S
    BY <1>4
<1>6. ASSUME NEW n \in Nat, n \in S PROVE n + 1 \in S
  <2>1. P[n] \in Nat /\ Q[n] \in Nat /\ P[n] <= Q[n]
      BY <1>3, <1>6
  <2>2. P[n + 1] = 2 * P[n] /\ Q[n + 1] = 3 * Q[n]
      BY <1>4
  <2> QED
      BY <2>1, <2>2
<1>7. \A n \in Nat : n \in S
  <2> HIDE DEF S
  <2> QED
      BY <1>5, <1>6, NatInduct
<1> QED
    BY <1>7 DEF P, Q

-----------------------------------------------------------------------------------
(* The strategies.                                                                 *)

\* random.uniform stays between its arguments.
LEMMA UniformIsBetween ==
    ASSUME NEW a \in Nat, NEW b \in Nat, NEW d \in Uniform(a, b)
    PROVE  d \in Nat /\ Least(a, b) <= d
<1>1. Least(a, b) \in Nat
    BY DEF Least
<1> QED
    BY <1>1 DEF Uniform

\* The upper half of two units or more is never nothing, and never more than the whole.
LEMMA UpperHalfIsBetween ==
    ASSUME NEW cap \in Nat \ {0, 1}, NEW d \in UpperHalf(cap)
    PROVE  d \in 1..cap
<1>1. cap \div 2 \in Nat /\ 1 <= cap \div 2 /\ cap \div 2 <= cap
    OBVIOUS
<1>2. UpperHalf(cap) = (cap \div 2)..cap
    BY <1>1 DEF UpperHalf, Uniform, Least
<1> QED
    BY <1>1, <1>2

\* A half rounded down, doubled, with its remainder: what \div says of the quotient.
LEMMA QuotientAtLeast ==
    ASSUME NEW a \in Nat, NEW b \in Nat \ {0}, NEW c \in Nat, b * c <= a
    PROVE  a \div b \in Nat /\ c <= a \div b
<1> DEFINE q == a \div b
           r == a % b
<1>1. q \in Int /\ r \in Int /\ a = b * q + r /\ 0 <= r /\ r < b
    OBVIOUS
<1> HIDE DEF q, r
<1>2. ASSUME q <= c - 1 PROVE FALSE
  <2>1. b * q <= b * (c - 1)
      BY <1>1, <1>2
  <2>2. b * (c - 1) = b * c - b
      OBVIOUS
  <2> DEFINE x == b * q
             y == b * c
  <2>3. x \in Int /\ y \in Int
      BY <1>1
  <2> HIDE DEF x, y
  <2>4. x <= y - b /\ y <= a /\ a = x + r
      BY <1>1, <2>1, <2>2 DEF x, y
  <2> QED
      BY <1>1, <2>3, <2>4
<1> QED
    BY <1>1, <1>2 DEF q

\* decorrelated_jitter: a delay is never nothing, and never more than max_s.
LEMMA decorrelated_jitterIsBetween ==
    ASSUME NEW base_s \in Nat \ {0}, NEW max_s \in Nat, base_s <= max_s,
           NEW prev \in Nat \cup {None}, NEW d \in decorrelated_jitter(base_s, max_s, prev)
    PROVE  d \in 1..max_s
<1> DEFINE p == IF prev \in {None, 0} THEN base_s ELSE prev
<1>1. p \in Nat \ {0}
    OBVIOUS
<1>2. PICK u \in Uniform(base_s, 3 * p) : d = Least(max_s, u)
    BY DEF decorrelated_jitter
<1> HIDE DEF p
<1>3. 3 * p \in Nat /\ 1 <= 3 * p
    BY <1>1
<1>4. u \in Nat /\ Least(base_s, 3 * p) <= u
    BY <1>3, UniformIsBetween
<1> HIDE DEF p
<1>5. 1 <= u
    BY <1>3, <1>4 DEF Least
<1> QED
    BY <1>2, <1>4, <1>5 DEF Least

\* equal_jitter: the same.
LEMMA equal_jitterIsBetween ==
    ASSUME NEW base_s \in Nat \ {0, 1}, NEW max_s \in Nat, base_s <= max_s,
           NEW attempt \in Nat, NEW d \in equal_jitter(base_s, max_s, attempt)
    PROVE  d \in 1..max_s
<1> DEFINE k == Power(2)[attempt]
           cap == Least(max_s, base_s * k)
<1>1. k \in Nat \ {0}
    BY PowerIsNat
<1> HIDE DEF k
<1>2. base_s * k \in Nat /\ base_s <= base_s * k
    BY <1>1
<1>3. cap \in Nat \ {0, 1} /\ cap <= max_s
    BY <1>2 DEF Least
<1>4. d \in UpperHalf(cap)
    BY DEF equal_jitter, k
<1> HIDE DEF cap
<1>5. d \in 1..cap
    BY <1>3, <1>4, UpperHalfIsBetween
<1> QED
    BY <1>3, <1>5

\* token_backoff: the same.
LEMMA token_backoffIsBetween ==
    ASSUME NEW base_s \in Nat \ {0, 1}, NEW max_s \in Nat, base_s <= max_s,
           NEW attempt \in Nat, NEW d \in token_backoff(base_s, max_s, attempt)
    PROVE  d \in 1..max_s
<1> DEFINE k == Power(2)[attempt]
           l == Power(3)[attempt]
           q == (base_s * l) \div k
           cap == Least(max_s, q)
<1>1. k \in Nat \ {0} /\ l \in Nat /\ k <= l
  <2>1. 2 \in Nat \ {0} /\ 3 \in Nat \ {0}
      OBVIOUS
  <2> QED
      BY <2>1, PowerIsNat, PowersGrow
<1> HIDE DEF k, l
<1>2. base_s * l \in Nat /\ k * base_s <= base_s * l
    BY <1>1
<1>3. q \in Nat /\ base_s <= q
  <2> DEFINE a == base_s * l
  <2> HIDE DEF a
  <2>1. a \in Nat /\ k * base_s <= a
      BY <1>2 DEF a
  <2>2. a \div k \in Nat /\ base_s <= a \div k
      BY <1>1, <2>1, QuotientAtLeast
  <2> QED
      BY <2>2 DEF a
<1>4. d \in UpperHalf(cap)
    BY DEF token_backoff, k, l
<1> HIDE DEF q
<1>5. cap \in Nat \ {0, 1} /\ cap <= max_s
    BY <1>3 DEF Least
<1> HIDE DEF cap
<1>6. d \in 1..cap
    BY <1>4, <1>5, UpperHalfIsBetween
<1> QED
    BY <1>5, <1>6

\* retry_after_or: a delay that is asked for is waited for, as long as time remains; where
\* none is asked for, it is one of the fallback's.
LEMMA retry_after_orHeeds ==
    ASSUME NEW fallback \in SUBSET Nat, NEW jitter_s \in Nat, NEW hint \in Nat \cup {None},
           NEW remaining \in Nat, NEW d \in retry_after_or(fallback, jitter_s, hint, remaining)
    PROVE  /\ d \in Nat
           /\ hint # None => Least(hint, remaining) <= d
           /\ hint = None => \E f \in fallback : d = Least(f, remaining)
<1>1. CASE hint = None
  <2>1. PICK f \in fallback : d = Least(f, remaining)
      BY <1>1 DEF retry_after_or
  <2> QED
      BY <1>1, <2>1 DEF Least
<1>2. CASE hint # None
  <2>1. PICK u \in Uniform(hint, hint + jitter_s) : d = Least(u, remaining)
      BY <1>2 DEF retry_after_or
  <2>2. u \in Nat /\ Least(hint, hint + jitter_s) <= u
      BY <1>2, UniformIsBetween
  <2>3. hint <= u
      BY <1>2, <2>2 DEF Least
  <2> QED
      BY <1>2, <2>1, <2>2, <2>3 DEF Least
<1> QED
    BY <1>1, <1>2

-----------------------------------------------------------------------------------
(* Bodies.                                                                         *)

\* Nothing in T has an item outside of it.
Closed(heap, T) == \A t \in T : heap[t].items \subseteq T

\* What is reached from some objects is the least set that holds them and is closed.
LEMMA ReachedIsLeast ==
    ASSUME NEW heap \in Heap, NEW from \in SUBSET Objects
    PROVE  /\ Reached(heap, from) \in SUBSET Objects
           /\ from \subseteq Reached(heap, from)
           /\ Closed(heap, Reached(heap, from))
           /\ \A T \in SUBSET Objects :
                from \subseteq T /\ Closed(heap, T) => Reached(heap, from) \subseteq T
<1> DEFINE R == Reached(heap, from)
<1>1. \A o \in Objects : heap[o].items \in SUBSET Objects
    BY DEF Heap
<1>2. R \in SUBSET Objects /\ from \subseteq R
    BY DEF Reached
<1>3. \A T \in SUBSET Objects : from \subseteq T /\ Closed(heap, T) => R \subseteq T
    BY DEF Reached, Closed
<1>4. ASSUME NEW o \in R, NEW i \in heap[o].items PROVE i \in R
  <2>1. o \in Objects /\ i \in Objects
      BY <1>1, <1>2
  <2>2. SUFFICES ASSUME NEW T \in SUBSET Objects, from \subseteq T,
                        \A t \in T : heap[t].items \subseteq T
                 PROVE  i \in T
      BY <2>1 DEF Reached
  <2>3. o \in T
      BY <1>3, <2>2 DEF Closed
  <2> QED
      BY <2>2, <2>3
<1>5. Closed(heap, R)
    BY <1>4 DEF Closed
<1> QED
    BY <1>2, <1>3, <1>5

\* What is reached from an object is the object and what is reached from its items.
LEMMA ReachedByItems ==
    ASSUME NEW heap \in Heap, NEW o \in Objects
    PROVE  /\ heap[o].items \in SUBSET Objects
           /\ Reached(heap, {o}) = {o} \cup Reached(heap, heap[o].items)
<1> DEFINE items == heap[o].items
           R == Reached(heap, items)
           Q == Reached(heap, {o})
<1>1. items \in SUBSET Objects
    BY DEF Heap
<1>2. R \in SUBSET Objects /\ items \subseteq R /\ Closed(heap, R)
    BY <1>1, ReachedIsLeast
<1>3. /\ Q \in SUBSET Objects /\ o \in Q /\ Closed(heap, Q)
      /\ \A T \in SUBSET Objects : {o} \subseteq T /\ Closed(heap, T) => Q \subseteq T
  <2>1. {o} \in SUBSET Objects
      OBVIOUS
  <2> HIDE DEF Q
  <2>2. /\ Reached(heap, {o}) \in SUBSET Objects
        /\ {o} \subseteq Reached(heap, {o})
        /\ Closed(heap, Reached(heap, {o}))
        /\ \A T \in SUBSET Objects :
             {o} \subseteq T /\ Closed(heap, T) => Reached(heap, {o}) \subseteq T
      BY <2>1, ReachedIsLeast
  <2> QED
      BY <2>2 DEF Q
<1> HIDE DEF R, Q
<1>4. Q \subseteq {o} \cup R
  <2>1. {o} \cup R \in SUBSET Objects /\ {o} \subseteq {o} \cup R
      BY <1>2
  <2>2. Closed(heap, {o} \cup R)
      BY <1>2 DEF Closed
  <2> QED
      BY <1>3, <2>1, <2>2
<1>5. items \subseteq Q
    BY <1>3 DEF Closed
<1>6. R \subseteq Q
    BY <1>1, <1>3, <1>5, ReachedIsLeast DEF R
<1> QED
    BY <1>1, <1>3, <1>4, <1>6 DEF R, Q

\* What is reached from some objects is reached from one of them.
LEMMA ReachedFromOne ==
    ASSUME NEW heap \in Heap, NEW from \in SUBSET Objects, NEW x \in Reached(heap, from)
    PROVE  \E s \in from : x \in Reached(heap, {s})
<1> DEFINE T == UNION { Reached(heap, {s}) : s \in from }
<1>1. \A s \in from : /\ Reached(heap, {s}) \in SUBSET Objects
                      /\ {s} \subseteq Reached(heap, {s})
                      /\ Closed(heap, Reached(heap, {s}))
  <2> TAKE s \in from
  <2>1. {s} \in SUBSET Objects
      OBVIOUS
  <2> QED
      BY <2>1, ReachedIsLeast
<1>2. T \in SUBSET Objects /\ from \subseteq T
    BY <1>1
<1>3. Closed(heap, T)
    BY <1>1 DEF Closed
<1>4. Reached(heap, from) \subseteq T
    BY <1>2, <1>3, ReachedIsLeast
<1> QED
    BY <1>4

\* What holds inside of some objects, if it holds inside of these and any other, holds
\* inside of them all.
LEMMA InsideOut ==
    ASSUME NEW P, IsFiniteSet(Objects),
           \A A \in SUBSET Objects : (\A o \in Objects \ A : A \cup {o} \in P) => A \in P
    PROVE  \A A \in SUBSET Objects : A \in P
<1> DEFINE S == { n \in Nat : \A A \in SUBSET Objects : Cardinality(Objects \ A) = n => A \in P }
<1>1. 0 \in S
  <2> SUFFICES ASSUME NEW A \in SUBSET Objects, Cardinality(Objects \ A) = 0 PROVE A \in P
      OBVIOUS
  <2>1. IsFiniteSet(Objects \ A)
      BY FS_Difference
  <2>2. Objects \ A = {}
      BY <2>1, FS_EmptySet
  <2> QED
      BY <2>2
<1>2. ASSUME NEW n \in Nat, n \in S PROVE n + 1 \in S
  <2> SUFFICES ASSUME NEW A \in SUBSET Objects, Cardinality(Objects \ A) = n + 1 PROVE A \in P
      OBVIOUS
  <2>1. IsFiniteSet(Objects \ A)
      BY FS_Difference
  <2>2. ASSUME NEW o \in Objects \ A PROVE A \cup {o} \in P
    <3>1. Objects \ (A \cup {o}) = (Objects \ A) \ {o}
        OBVIOUS
    <3>2. Cardinality((Objects \ A) \ {o}) = Cardinality(Objects \ A) - 1
        BY <2>1, FS_RemoveElement
    <3>3. Cardinality(Objects \ (A \cup {o})) = n
      <4>1. Cardinality((Objects \ A) \ {o}) = (n + 1) - 1
          BY <3>2
      <4>2. (n + 1) - 1 = n
          OBVIOUS
      <4> QED
          BY <3>1, <4>1, <4>2, Zenon
    <3>4. A \cup {o} \in SUBSET Objects
        OBVIOUS
    <3> QED
        BY <1>2, <3>3, <3>4
  <2> QED
      BY <2>2
<1>3. \A n \in Nat : n \in S
  <2> HIDE DEF S
  <2> QED
      BY <1>1, <1>2, NatInduct
<1> SUFFICES ASSUME NEW A \in SUBSET Objects PROVE A \in P
    OBVIOUS
<1>4. IsFiniteSet(Objects \ A)
    BY FS_Difference
<1>5. Cardinality(Objects \ A) \in Nat
    BY <1>4, FS_CardinalityType
<1> QED
    BY <1>3, <1>5

\* What _snapshot_body_value makes of the objects, when X says what it makes of them inside
\* of one more.
Step(r, X) ==
    [ active \in SUBSET Objects |->
        { o \in Objects :
            \/ Kind(r, o) \in Scalars
            \/ /\ o \notin active
               /\ Kind(r, o) = "container"
               /\ r.heap[o].items \subseteq X[active \cup {o}] } ]

\* Where X allows no less than Y, so does the step from it.
LEMMA StepIsMonotonic ==
    ASSUME NEW r, NEW X, NEW Y, \A A \in SUBSET Objects : X[A] \subseteq Y[A]
    PROVE  \A A \in SUBSET Objects : Step(r, X)[A] \subseteq Step(r, Y)[A]
<1> SUFFICES ASSUME NEW A \in SUBSET Objects, NEW o \in Step(r, X)[A]
             PROVE  o \in Step(r, Y)[A]
    OBVIOUS
<1>1. o \in Objects
    BY DEF Step
<1>2. X[A \cup {o}] \subseteq Y[A \cup {o}]
    BY <1>1
<1> QED
    BY <1>1, <1>2 DEF Step

\* The recursion of _snapshot_body_value is one that some function follows: the least of
\* those that the step adds nothing to.
LEMMA CopiedRecursion ==
    ASSUME NEW r
    PROVE  Copied(r) = Step(r, Copied(r))
<1> DEFINE D == [SUBSET Objects -> SUBSET Objects]
           Done(X) == \A A \in SUBSET Objects : Step(r, X)[A] \subseteq X[A]
           L == [A \in SUBSET Objects |-> { o \in Objects : \A X \in D : Done(X) => o \in X[A] }]
<1>1. \A X : Step(r, X) \in D
    BY DEF Step
<1>2. L \in D
    OBVIOUS
<1>3. \A X \in D : Done(X) => \A A \in SUBSET Objects : L[A] \subseteq X[A]
    OBVIOUS
<1>4. Done(L)
  <2> SUFFICES ASSUME NEW A \in SUBSET Objects, NEW o \in Step(r, L)[A] PROVE o \in L[A]
      OBVIOUS
  <2>1. o \in Objects
      BY DEF Step
  <2>2. ASSUME NEW X \in D, Done(X) PROVE o \in X[A]
    <3>1. \A B \in SUBSET Objects : L[B] \subseteq X[B]
        BY <1>3, <2>2
    <3> HIDE DEF L
    <3>2. Step(r, L)[A] \subseteq Step(r, X)[A]
        BY <3>1, StepIsMonotonic
    <3> QED
        BY <2>2, <3>2
  <2> QED
      BY <2>1, <2>2
<1> HIDE DEF L
<1>5. \A A \in SUBSET Objects : L[A] \subseteq Step(r, L)[A]
  <2> DEFINE M == Step(r, L)
  <2>1. M \in D
      BY <1>1
  <2>2. \A A \in SUBSET Objects : M[A] \subseteq L[A]
      BY <1>4
  <2> HIDE DEF M
  <2>3. \A A \in SUBSET Objects : Step(r, M)[A] \subseteq Step(r, L)[A]
      BY <2>2, StepIsMonotonic
  <2>4. Done(M)
      BY <2>3 DEF M
  <2> QED
      BY <1>3, <2>1, <2>4 DEF M
<1>6. L = Step(r, L)
  <2> DEFINE M == Step(r, L)
  <2>1. M \in D
      BY <1>1
  <2>2. \A A \in SUBSET Objects : M[A] = L[A]
      BY <1>4, <1>5
  <2> HIDE DEF M
  <2>3. L = M
      BY <1>2, <2>1, <2>2
  <2> QED
      BY <2>3 DEF M
<1> DEFINE C ==
        CHOOSE c :
            c = [ active \in SUBSET Objects |->
                    { o \in Objects :
                        \/ Kind(r, o) \in Scalars
                        \/ /\ o \notin active
                           /\ Kind(r, o) = "container"
                           /\ r.heap[o].items \subseteq c[active \cup {o}] } ]
<1>7. L = [ active \in SUBSET Objects |->
              { o \in Objects :
                  \/ Kind(r, o) \in Scalars
                  \/ /\ o \notin active
                     /\ Kind(r, o) = "container"
                     /\ r.heap[o].items \subseteq L[active \cup {o}] } ]
    BY <1>6, Zenon DEF Step
<1>8. C = [ active \in SUBSET Objects |->
              { o \in Objects :
                  \/ Kind(r, o) \in Scalars
                  \/ /\ o \notin active
                     /\ Kind(r, o) = "container"
                     /\ r.heap[o].items \subseteq C[active \cup {o}] } ]
    BY <1>7, Zenon
<1>9. Copied(r) = C
    BY DEF Copied
<1> HIDE DEF C
<1>10. C = Step(r, C)
    BY <1>8, Zenon DEF Step
<1> QED
    BY <1>9, <1>10

\* Only text and containers are copied, no object inside of itself, and none of those that
\* are active.
LEMMA CopiedIsBuffered ==
    ASSUME NEW r, r.heap \in Heap, IsFiniteSet(Objects),
           NEW o \in Copied(r)[{}]
    PROVE  o \in Objects /\ Buffered(r.heap, o)
<1> DEFINE heap == r.heap
           C == Copied(r)
           Good(x, A) == /\ heap[x].kind \in Scalars \cup {"container"}
                         /\ x \notin Reached(heap, heap[x].items)
                         /\ x \notin A
           P == { A \in SUBSET Objects :
                    (\A a \in A : heap[a].kind = "container") =>
                        \A c \in C[A] : \A x \in Reached(heap, {c}) : Good(x, A) }
<1>1. C = Step(r, C)
    BY CopiedRecursion
<1> HIDE DEF C
<1>2. \A A \in SUBSET Objects : C[A] =
        { c \in Objects :
            \/ heap[c].kind \in Scalars
            \/ /\ c \notin A
               /\ heap[c].kind = "container"
               /\ heap[c].items \subseteq C[A \cup {c}] }
    BY <1>1 DEF Step, Kind
<1> HIDE DEF heap
<1>3. ASSUME NEW A \in SUBSET Objects, \A c \in Objects \ A : A \cup {c} \in P PROVE A \in P
  <2> SUFFICES ASSUME \A a \in A : heap[a].kind = "container",
                      NEW c \in C[A], NEW x \in Reached(heap, {c})
               PROVE  Good(x, A)
      OBVIOUS
  <2>1. c \in Objects /\ heap \in Heap
      BY <1>2 DEF heap
  <2>2. /\ heap[c].items \in SUBSET Objects
        /\ Reached(heap, {c}) = {c} \cup Reached(heap, heap[c].items)
      BY <2>1, ReachedByItems
  <2>3. CASE heap[c].kind \in Scalars
    <3>1. heap[c].items = {}
        BY <2>1, <2>3 DEF Heap, Scalars
    <3>2. Reached(heap, {}) = {}
      <4>1. {} \in SUBSET Objects /\ Closed(heap, {})
          BY DEF Closed
      <4> QED
          BY <2>1, <4>1, ReachedIsLeast
    <3>3. x = c
        BY <2>2, <3>1, <3>2
    <3> QED
        BY <2>3, <3>1, <3>2, <3>3 DEF Scalars
  <2>4. CASE heap[c].kind \notin Scalars
    <3>1. c \notin A /\ heap[c].kind = "container" /\ heap[c].items \subseteq C[A \cup {c}]
        BY <1>2, <2>4 DEF Scalars
    <3>2. A \cup {c} \in P
        BY <1>3, <2>1, <3>1
    <3>3. \A i \in heap[c].items : \A y \in Reached(heap, {i}) : Good(y, A \cup {c})
        BY <3>1, <3>2
    <3>4. \A y \in Reached(heap, heap[c].items) : Good(y, A \cup {c})
      <4> SUFFICES ASSUME NEW y \in Reached(heap, heap[c].items) PROVE Good(y, A \cup {c})
          OBVIOUS
      <4> HIDE DEF Good
      <4>1. \E i \in heap[c].items : y \in Reached(heap, {i})
          BY <2>1, <2>2, ReachedFromOne
      <4> QED
          BY <3>3, <4>1
    <3>5. c \notin Reached(heap, heap[c].items)
        BY <3>4
    <3>6. CASE x = c
        BY <3>1, <3>5, <3>6
    <3>7. CASE x # c
        BY <2>2, <3>4, <3>7
    <3> QED
        BY <3>6, <3>7
  <2> QED
      BY <2>3, <2>4
<1>4. \A A \in SUBSET Objects : A \in P
  <2> HIDE DEF P
  <2> QED
      BY <1>3, InsideOut
<1>5. {} \in P /\ o \in C[{}]
    BY <1>4 DEF C
<1>6. \A x \in Reached(heap, {o}) : Good(x, {})
    BY <1>5
<1>7. o \in Objects
    BY <1>2, <1>5
<1> QED
    BY <1>6, <1>7 DEF Buffered, heap

\* A body of text and containers, none of them inside of itself, is copied.
LEMMA BufferedIsCopied ==
    ASSUME NEW r, r.heap \in Heap, IsFiniteSet(Objects),
           NEW o \in Objects, Buffered(r.heap, o)
    PROVE  o \in Copied(r)[{}]
<1> DEFINE heap == r.heap
           C == Copied(r)
           B == Reached(heap, {o})
           P == { A \in SUBSET Objects :
                    \A x \in B : Reached(heap, {x}) \cap A = {} => x \in C[A] }
<1>1. C = Step(r, C)
    BY CopiedRecursion
<1> HIDE DEF C
<1>2. \A A \in SUBSET Objects : C[A] =
        { c \in Objects :
            \/ heap[c].kind \in Scalars
            \/ /\ c \notin A
               /\ heap[c].kind = "container"
               /\ heap[c].items \subseteq C[A \cup {c}] }
    BY <1>1 DEF Step, Kind
<1>3. \A x \in B : /\ heap[x].kind \in Scalars \cup {"container"}
                   /\ x \notin Reached(heap, heap[x].items)
    BY DEF Buffered
<1>4. heap \in Heap /\ {o} \in SUBSET Objects
    OBVIOUS
<1> HIDE DEF heap
<1>5. B \in SUBSET Objects /\ o \in B /\ Closed(heap, B)
    BY <1>4, ReachedIsLeast
<1>6. ASSUME NEW A \in SUBSET Objects, \A c \in Objects \ A : A \cup {c} \in P PROVE A \in P
  <2> SUFFICES ASSUME NEW x \in B, Reached(heap, {x}) \cap A = {} PROVE x \in C[A]
      OBVIOUS
  <2>1. x \in Objects
      BY <1>5
  <2>2. /\ heap[x].items \in SUBSET Objects
        /\ Reached(heap, {x}) = {x} \cup Reached(heap, heap[x].items)
      BY <1>4, <2>1, ReachedByItems
  <2>3. CASE heap[x].kind \in Scalars
      BY <1>2, <2>1, <2>3
  <2>4. CASE heap[x].kind = "container"
    <3>1. x \notin A
        BY <2>2
    <3>2. A \cup {x} \in P
        BY <1>6, <2>1, <3>1
    <3>3. ASSUME NEW i \in heap[x].items PROVE i \in C[A \cup {x}]
      <4>1. i \in B /\ i \in Objects /\ {i} \in SUBSET Objects
          BY <1>5, <2>2 DEF Closed
      <4>2. heap[x].items \subseteq Reached(heap, heap[x].items)
          BY <1>4, <2>2, ReachedIsLeast
      <4>3. {i} \in SUBSET Reached(heap, heap[x].items)
          BY <4>2
      <4>4. Reached(heap, {i}) \subseteq Reached(heap, heap[x].items)
        <5>1. Closed(heap, Reached(heap, heap[x].items))
              /\ Reached(heap, heap[x].items) \in SUBSET Objects
            BY <1>4, <2>2, ReachedIsLeast
        <5> QED
            BY <1>4, <4>1, <4>3, <5>1, ReachedIsLeast
      <4>5. Reached(heap, {i}) \cap (A \cup {x}) = {}
          BY <1>3, <2>2, <4>4
      <4> QED
          BY <3>2, <4>1, <4>5
    <3> QED
        BY <1>2, <2>1, <2>4, <3>1, <3>3
  <2> QED
      BY <1>3, <2>3, <2>4
<1>7. \A A \in SUBSET Objects : A \in P
  <2> HIDE DEF P
  <2> QED
      BY <1>6, InsideOut
<1>8. {} \in P
    BY <1>7
<1> QED
    BY <1>5, <1>8 DEF C

\* A request is replayable if and only if its body is supported, whatever it is made of.
LEMMA ReplayableIfSupported ==
    ASSUME NEW r \in Request, IsFiniteSet(Objects)
    PROVE  Replayable(r) <=> Supported(r)
<1>1. r.heap \in Heap /\ r.body \in Objects
    BY DEF Request
<1>2. CASE r.argument = "content"
    BY <1>2 DEF Replayable, Supported
<1>3. r.body \in Copied(r)[{}] => Buffered(r.heap, r.body)
    BY <1>1, CopiedIsBuffered
<1>4. Buffered(r.heap, r.body) => r.body \in Copied(r)[{}]
    BY <1>1, BufferedIsCopied
<1> QED
    BY <1>2, <1>3, <1>4 DEF Replayable, Supported

-----------------------------------------------------------------------------------
(* Delays that are asked for, and those that the policy makes of them.             *)

\* A delay that an answer asks for.
Hints == Nat \cup {None}

\* What a classification passes on is a delay, or None.
LEMMA ClassificationHints ==
    ASSUME NEW row, NEW f, f.retry_after \in Hints, f.resets \in SUBSET Nat
    PROVE  Classification(row, f).retry_after_s \in Hints
<1>1. retry_after_from_headers(f) \in Hints
    BY MinIsIn DEF retry_after_from_headers, Hints
<1>2. \/ Classification(row, f).retry_after_s = retry_after_from_headers(f)
      \/ Classification(row, f).retry_after_s = None
    BY DEF Classification
<1> QED
    BY <1>1, <1>2 DEF Hints

\* So does every classifier.
LEMMA ClassifyHints ==
    ASSUME NEW classifier, NEW f \in Failure
    PROVE  Classify(classifier, f).retry_after_s \in Hints
<1>1. f.retry_after \in Hints /\ f.resets \in SUBSET Nat
    BY DEF Failure, Hints
<1>2. \A row : Classification(row, f).retry_after_s \in Hints
    BY <1>1, ClassificationHints
<1> QED
    BY <1>2, Zenon DEF Classify

\* The delays of a request, whatever came before: never nothing, where none is asked for
\* and time remains; and no less than what is asked for, where it is heeded.
LEMMA DelaysHeed ==
    ASSUME ClientsAssumption, request \in Requests, sent \in Seq(Says),
           prev_sleep \in Hints, classification.retry_after_s \in Hints,
           NEW remaining \in Nat \ {0}, NEW d \in Delays(remaining)
    PROVE  /\ d \in Nat
           /\ (classification.retry_after_s = None \/ request.hints = "ignored") => 0 < d
           /\ (classification.retry_after_s # None /\ request.hints # "ignored") =>
                Least(IF request.hints = "clamped" THEN Least(MaxS, classification.retry_after_s)
                      ELSE classification.retry_after_s, remaining) <= d
<1> DEFINE ra == classification.retry_after_s
<1>1. /\ request.strategy \in {"decorrelated_jitter", "equal_jitter", "token_backoff"}
      /\ request.hints \in {"ignored", "honoured", "clamped"}
      /\ request.jitter_s \in Nat
    BY DEF ClientsAssumption, Request
<1>2. BaseS \in Nat \ {0, 1} /\ BaseS \in Nat \ {0} /\ MaxS \in Nat /\ BaseS <= MaxS
    BY DEF ClientsAssumption
<1>3. Len(sent) \in Nat
    BY LenProperties
<1>4. ra \in Hints /\ prev_sleep \in Nat \cup {None} /\ None \notin Nat
    BY DEF Hints, ClientsAssumption
<1>5. ASSUME NEW j \in Jittered PROVE j \in Nat \ {0}
  <2>1. CASE request.strategy = "decorrelated_jitter"
    <3>1. j \in decorrelated_jitter(BaseS, MaxS, prev_sleep)
        BY <2>1 DEF Jittered
    <3>2. j \in 1..MaxS
        BY <1>2, <1>4, <3>1, decorrelated_jitterIsBetween
    <3> QED
        BY <1>2, <3>2
  <2>2. CASE request.strategy = "equal_jitter"
    <3>1. j \in equal_jitter(BaseS, MaxS, Len(sent))
        BY <2>2 DEF Jittered
    <3>2. j \in 1..MaxS
        BY <1>2, <1>3, <3>1, equal_jitterIsBetween
    <3> QED
        BY <1>2, <3>2
  <2>3. CASE request.strategy = "token_backoff"
    <3>1. j \in token_backoff(BaseS, MaxS, Len(sent))
        BY <2>3 DEF Jittered
    <3>2. j \in 1..MaxS
        BY <1>2, <1>3, <3>1, token_backoffIsBetween
    <3> QED
        BY <1>2, <3>2
  <2> QED
      BY <1>1, <2>1, <2>2, <2>3
<1> HIDE DEF ra
<1>6. CASE request.hints = "ignored"
  <2>1. PICK j \in Jittered : d = Least(j, remaining)
      BY <1>6 DEF Delays
  <2>2. j \in Nat \ {0}
      BY <1>5, <2>1
  <2> QED
      BY <1>6, <2>1, <2>2 DEF Least
<1>7. CASE request.hints # "ignored"
  <2> DEFINE hint == Hint
             want == IF request.hints = "clamped" THEN Least(MaxS, ra) ELSE ra
  <2>1. /\ hint \in Nat \cup {None}
        /\ ra = None => hint = None
        /\ ra # None => hint = want /\ hint # None
      BY <1>1, <1>2, <1>4, <1>7 DEF Hint, clamp_retry_after, Least, ra, Hints
  <2>2. PICK u \in retry_after_or(Jittered, request.jitter_s, hint, remaining) :
            d = Least(u, remaining)
      BY <1>7 DEF Delays
  <2> DEFINE J == Jittered
  <2>3. J \in SUBSET Nat
      BY <1>5
  <2>4. u \in retry_after_or(J, request.jitter_s, hint, remaining)
      BY <2>2
  <2> HIDE DEF hint, want, J
  <2>5. /\ u \in Nat
        /\ hint # None => Least(hint, remaining) <= u
        /\ hint = None => \E f \in J : u = Least(f, remaining)
      BY <1>1, <2>1, <2>3, <2>4, retry_after_orHeeds
  <2>6. CASE ra = None
    <3>1. PICK f \in J : u = Least(f, remaining)
        BY <2>1, <2>5, <2>6
    <3>2. f \in Nat \ {0}
        BY <1>5, <3>1 DEF J
    <3> QED
        BY <2>2, <2>6, <3>1, <3>2 DEF Least, ra
  <2>7. CASE ra # None
    <3>1. hint = want /\ hint \in Nat /\ Least(hint, remaining) <= u
        BY <2>1, <2>5, <2>7
    <3>2. u \in Nat /\ d = Least(u, remaining)
        BY <2>2, <2>5
    <3>3. d \in Nat /\ Least(hint, remaining) <= d
        BY <3>1, <3>2 DEF Least
    <3>4. d \in Nat /\ Least(want, remaining) <= d
        BY <3>1, <3>3
    <3> QED
        BY <1>7, <2>7, <3>4 DEF ra, want
  <2> QED
      BY <2>6, <2>7
<1> QED
    BY <1>6, <1>7

-----------------------------------------------------------------------------------
(* The invariants.                                                                 *)

\* What the policy knows of a failure while it deals with it.
Typed ==
    /\ TypeOK
    /\ pc \in {"failed", "sleeping"} =>
         classification.retry_after_s \in Hints /\ failed_at \in 0..now
    /\ pc = "sleeping" => wake_at \in Nat

\* Where httpx keeps the body as it was when the request was made.
Kept ==
    request.adapter = "httpx" =>
        /\ \A i \in 1..Len(sent) : sent[i] = "original"
        /\ pc = "called" => body = "original"
        /\ pc \notin {"called", "done"} => snapshot = "original"

\* What has been decided of a request at each place.
Decided ==
    /\ pc = "called" => sent = <<>>
    /\ pc # "done" => outcome = None
    /\ outcome = "unreplayable" => sent = <<>>
    /\ request.adapter = "httpx" /\ pc \notin {"called", "done"} => Replayable(request)
    /\ request.adapter = "httpx" /\ pc = "done" /\ outcome # "bypassed" =>
         (outcome = "unreplayable" <=> ~Replayable(request))

\* A request that is skipped is about to be sent, or has been sent once.
Once ==
    Skipped =>
        \/ pc = "called"
        \/ pc = "done" /\ outcome = "bypassed" /\ Len(sent) = 1

\* The sleep is as long as the answer asks for.
Heeded ==
    pc = "sleeping" /\ request.hints # "ignored" /\ classification.retry_after_s # None =>
        wake_at >= Earliest(classification.retry_after_s)

\* All of it.
Sound == Typed /\ Kept /\ Decided /\ Once /\ Heeded

\* Initially there is nothing to know yet.
LEMMA SoundInit ==
    Init => Sound
<1> SUFFICES ASSUME Init PROVE Sound
    OBVIOUS
<1>1. Typed
    BY ClientsAssumption DEF Init, Typed, TypeOK, Places, Says, Outcomes, ClientsAssumption
<1>2. Kept
    BY DEF Init, Kept
<1>3. Decided
    BY ClientsAssumption DEF Init, Decided, ClientsAssumption
<1>4. Once
    BY DEF Init, Once
<1>5. Heeded
    BY DEF Init, Heeded
<1> QED
    BY <1>1, <1>2, <1>3, <1>4, <1>5 DEF Sound

\* Each step keeps to the types, and knows its failure when it deals with one.
LEMMA TypedStep ==
    ASSUME Typed, Kept, [Next]_vars
    PROVE  Typed'
<1> USE DEF content, latest, delays
<1>1. TypeOK
    BY DEF Typed
<1>2. MaxTime \in Nat /\ Deadline \in Nat /\ now \in Nat
    BY ClientsAssumption, <1>1 DEF TypeOK, ClientsAssumption
<1>3. ASSUME Tick PROVE Typed'
    BY <1>1, <1>2, <1>3 DEF Tick, Typed, TypeOK, Places
<1>4. ASSUME SendOriginal PROVE sent' \in Seq(Says) /\ body' \in Says
    BY <1>1, <1>4 DEF SendOriginal, TypeOK, Says
<1>5. ASSUME Bypass PROVE Typed'
    BY <1>1, <1>4, <1>5 DEF Bypass, SendOriginal, End, Typed, TypeOK, Places, Outcomes
<1>6. ASSUME Refuse PROVE Typed'
    BY <1>1, <1>6 DEF Refuse, End, Typed, TypeOK, Places, Outcomes
<1>7. ASSUME Enter PROVE Typed'
    BY <1>1, <1>7 DEF Enter, Typed, TypeOK, Places
<1>8. ASSUME Attempt PROVE Typed'
  <2>1. CASE request.adapter = "httpx"
    <3>1. snapshot \in Says
        BY <1>8, <2>1 DEF Attempt, Kept, Says
    <3>2. sent' \in Seq(Says)
        BY <1>1, <1>8, <2>1, <3>1 DEF Attempt, TypeOK
    <3> QED
        BY <1>1, <1>8, <2>1, <3>1, <3>2 DEF Attempt, Typed, TypeOK, Places
  <2>2. CASE request.adapter # "httpx"
      BY <1>1, <1>4, <1>8, <2>2 DEF Attempt, SendOriginal, Typed, TypeOK, Places
  <2> QED
      BY <2>1, <2>2
<1>9. ASSUME ClientChanges PROVE Typed'
    BY <1>1, <1>9 DEF ClientChanges, Typed, TypeOK, Says
<1>10. ASSUME CallerChanges PROVE Typed'
    BY <1>1, <1>10 DEF CallerChanges, Typed, TypeOK, Says
<1>11. ASSUME NEW what, NEW meant \in Meanings, what.retry_after_s \in Hints, Failed(what, meant)
       PROVE  Typed'
    BY <1>1, <1>2, <1>11 DEF Failed, Typed, TypeOK, Places, Hints
<1>12. ASSUME NEW status \in {200, 404, 409, 429, 503}, NEW retry_after \in {None, 0, 1, 6},
              Answer(status, retry_after)
       PROVE  Typed'
  <2> DEFINE row == default_result_classifier(status)
             header == [retry_after |-> retry_after, resets |-> {}]
             what == Classification(row, header)
  <2>1. what.retry_after_s \in Hints
    <3>1. header.retry_after \in Hints /\ header.resets \in SUBSET Nat
        BY DEF Hints
    <3> HIDE DEF header, row
    <3> QED
        BY <3>1, ClassificationHints
  <2>2. "busy" \in Meanings
      BY DEF Meanings
  <2>3. \/ Failed(what, "busy")
        \/ End("returned") /\ UNCHANGED <<request, now, content, latest, delays>>
      BY <1>12 DEF Answer
  <2> HIDE DEF what
  <2>4. CASE Failed(what, "busy")
      BY <1>11, <2>1, <2>2, <2>4
  <2>5. CASE End("returned") /\ UNCHANGED <<request, now, content, latest, delays>>
      BY <1>1, <2>5 DEF End, Typed, TypeOK, Places, Outcomes
  <2> QED
      BY <2>3, <2>4, <2>5
<1>13. ASSUME NEW x \in Failures, Raise(x) PROVE Typed'
  <2> DEFINE what == Classify(request.classifier, x.failure)
  <2>1. x.failure \in Failure /\ x.meaning \in Meanings
      BY ClientsAssumption DEF ClientsAssumption
  <2>2. what.retry_after_s \in Hints
      BY <2>1, ClassifyHints
  <2>3. Failed(what, x.meaning)
      BY <1>13 DEF Raise
  <2> HIDE DEF what
  <2> QED
      BY <1>11, <2>1, <2>2, <2>3
<1>14. ASSUME GiveUp PROVE Typed'
    BY <1>1, <1>14 DEF GiveUp, End, Typed, TypeOK, Places, Outcomes
<1>15. ASSUME Retry PROVE Typed'
  <2>1. PICK d \in Delays(Deadline - now) : prev_sleep' = d /\ wake_at' = now + d
      BY <1>15 DEF Retry
  <2>2. pc = "failed" /\ now < Deadline
      BY <1>15 DEF Retry
  <2>3. Deadline - now \in Nat \ {0}
      BY <1>2, <2>2
  <2>4. classification.retry_after_s \in Hints /\ failed_at \in 0..now
      BY <2>2 DEF Typed
  <2>5. prev_sleep \in Hints /\ sent \in Seq(Says) /\ request \in Requests
      BY <1>1 DEF TypeOK, Hints
  <2>6. d \in Nat
      BY ClientsAssumption, <2>1, <2>3, <2>4, <2>5, DelaysHeed
  <2>7. prev_sleep' \in Nat /\ wake_at' \in Nat
      BY <1>2, <2>1, <2>6
  <2> QED
      BY <1>1, <1>15, <2>4, <2>7 DEF Retry, Typed, TypeOK, Places
<1>16. ASSUME Wake PROVE Typed'
    BY <1>1, <1>16 DEF Wake, End, Typed, TypeOK, Places, Outcomes
<1>17. ASSUME UNCHANGED vars PROVE Typed'
    BY <1>1, <1>17 DEF vars, Typed, TypeOK
<1> QED
    BY <1>3, <1>5, <1>6, <1>7, <1>8, <1>9, <1>10, <1>12, <1>13, <1>14, <1>15, <1>16, <1>17
       DEF Next

\* The steps of a request that is under way and stays so: nothing is sent or decided.
Idle ==
    /\ UNCHANGED <<request, sent, snapshot, outcome>>
    /\ pc \notin {"called", "done"} /\ pc' \notin {"called", "done"}

\* The steps that end a request that is under way.
Ends ==
    /\ UNCHANGED <<request, sent>>
    /\ pc \notin {"called", "done"} /\ pc' = "done" /\ outcome' # "unreplayable"

\* Every step is one of these, or decides or sends something.
LEMMA StepsSorted ==
    ASSUME [Next]_vars
    PROVE  \/ Idle \/ Ends
           \/ Bypass \/ Refuse \/ Enter \/ Attempt
           \/ UNCHANGED vars
<1>1. ASSUME Tick PROVE Idle
    BY <1>1 DEF Tick, Idle, content
<1>2. ASSUME ClientChanges PROVE Idle
    BY <1>2 DEF ClientChanges, Idle
<1>3. ASSUME CallerChanges PROVE Idle
    BY <1>3 DEF CallerChanges, Idle
<1>4. ASSUME NEW what, NEW meant, pc = "sent", Failed(what, meant) PROVE Idle
    BY <1>4 DEF Failed, Idle, content
<1>5. ASSUME NEW status, NEW retry_after, Answer(status, retry_after) PROVE Idle \/ Ends
  <2>1. \/ \E what : Failed(what, "busy")
        \/ End("returned") /\ UNCHANGED <<request, now, content, latest, delays>>
      BY <1>5 DEF Answer
  <2>2. pc = "sent"
      BY <1>5 DEF Answer
  <2>3. CASE \E what : Failed(what, "busy")
      BY <1>4, <2>2, <2>3
  <2>4. CASE End("returned") /\ UNCHANGED <<request, now, content, latest, delays>>
      BY <2>2, <2>4 DEF End, Ends, content
  <2> QED
      BY <2>1, <2>3, <2>4
<1>6. ASSUME NEW x, Raise(x) PROVE Idle
    BY <1>4, <1>6 DEF Raise
<1>7. ASSUME GiveUp PROVE Ends
    BY <1>7 DEF GiveUp, End, Ends, content
<1>8. ASSUME Retry PROVE Idle
    BY <1>8 DEF Retry, Idle, content
<1>9. ASSUME Wake PROVE Idle \/ Ends
    BY <1>9 DEF Wake, End, Idle, Ends, content
<1> QED
    BY <1>1, <1>2, <1>3, <1>5, <1>6, <1>7, <1>8, <1>9 DEF Next

\* Nothing that the caller or the client does reaches the snapshot.
LEMMA KeptStep ==
    ASSUME Typed, Kept, Decided, [Next]_vars
    PROVE  Kept'
<1> SUFFICES ASSUME request'.adapter = "httpx" PROVE Kept'
    BY DEF Kept
<1>1. sent \in Seq(Says)
    BY DEF Typed, TypeOK
<1>2. request' = request
    BY StepsSorted DEF Idle, Ends, Bypass, Refuse, Enter, Attempt, vars
<1>3. CASE Idle
    BY <1>2, <1>3 DEF Idle, Kept
<1>4. CASE Ends
    BY <1>2, <1>4 DEF Ends, Kept
<1>5. ASSUME NEW what, what = "original", sent' = Append(sent, what)
      PROVE  request.adapter = "httpx" => \A i \in 1..Len(sent') : sent'[i] = "original"
  <2>1. Len(sent') = Len(sent) + 1 /\ Len(sent) \in Nat
      BY <1>1, <1>5
  <2>2. \A i \in 1..Len(sent) : sent'[i] = sent[i]
      BY <1>1, <1>5
  <2>3. sent'[Len(sent) + 1] = "original"
      BY <1>1, <1>5
  <2> QED
      BY <2>1, <2>2, <2>3 DEF Kept
<1>6. CASE Bypass
  <2>1. body = "original" /\ sent' = Append(sent, body) /\ pc' = "done"
      BY <1>2, <1>6 DEF Bypass, SendOriginal, End, Kept
  <2> QED
      BY <1>2, <1>5, <2>1 DEF Kept
<1>7. CASE Refuse
    BY <1>2, <1>7 DEF Refuse, End, content, Kept
<1>8. CASE Enter
    BY <1>2, <1>8 DEF Enter, Kept
<1>9. CASE Attempt
  <2>1. snapshot = "original" /\ sent' = Append(sent, snapshot) /\ pc' = "sent"
        /\ snapshot' = snapshot
      BY <1>2, <1>9 DEF Attempt, Kept
  <2> QED
      BY <1>2, <1>5, <2>1 DEF Kept
<1>10. CASE UNCHANGED vars
    BY <1>10 DEF vars, content, Kept
<1> QED
    BY <1>3, <1>4, <1>6, <1>7, <1>8, <1>9, <1>10, StepsSorted

\* A request is refused before anything is sent, and only when it is not replayable.
LEMMA DecidedStep ==
    ASSUME Typed, Decided, [Next]_vars
    PROVE  Decided'
<1>1. None # "unreplayable"
    BY ClientsAssumption DEF ClientsAssumption
<1>2. request' = request
    BY StepsSorted DEF Idle, Ends, Bypass, Refuse, Enter, Attempt, vars
<1>3. Replayable(request') <=> Replayable(request)
    BY <1>2
<1>4. CASE Idle
    BY <1>1, <1>2, <1>3, <1>4 DEF Idle, Decided
<1>5. CASE Ends
    BY <1>1, <1>2, <1>3, <1>5 DEF Ends, Decided
<1>6. CASE Bypass
    BY <1>1, <1>2, <1>6 DEF Bypass, End, Decided
<1>7. CASE Refuse
    BY <1>2, <1>3, <1>7 DEF Refuse, End, content, Decided
<1>8. CASE Enter
    BY <1>1, <1>2, <1>3, <1>8 DEF Enter, Decided
<1>9. CASE Attempt
    BY <1>1, <1>2, <1>3, <1>9 DEF Attempt, Decided
<1>10. CASE UNCHANGED vars
    BY <1>3, <1>10 DEF vars, content, Decided
<1> QED
    BY <1>4, <1>5, <1>6, <1>7, <1>8, <1>9, <1>10, StepsSorted

\* A request that is skipped never enters the policy.
LEMMA OnceStep ==
    ASSUME Decided, Once, [Next]_vars
    PROVE  Once'
<1>1. request' = request
    BY StepsSorted DEF Idle, Ends, Bypass, Refuse, Enter, Attempt, vars
<1>2. Skipped' <=> Skipped
    BY <1>1 DEF Skipped
<1> SUFFICES ASSUME Skipped PROVE Once'
    BY <1>2 DEF Once
<1>3. pc \in {"called", "done"} /\ ~ Idle /\ ~ Ends
    BY DEF Once, Idle, Ends
<1>4. CASE Bypass
  <2>1. sent = <<>> /\ sent' = Append(sent, body)
      BY <1>4 DEF Bypass, SendOriginal, Decided
  <2>2. Len(sent') = 1
      BY <2>1
  <2> QED
      BY <1>4, <2>2 DEF Bypass, End, Once
<1>5. ~ Refuse /\ ~ Enter /\ ~ Attempt
    BY <1>3 DEF Refuse, Enter, Attempt
<1>6. CASE UNCHANGED vars
    BY <1>2, <1>6 DEF vars, content, Once
<1> QED
    BY <1>3, <1>4, <1>5, <1>6, StepsSorted

\* No sleep is shorter than the delay that the answer before it asks for, unless the
\* deadline comes first.
LEMMA HeededStep ==
    ASSUME Typed, Heeded, [Next]_vars
    PROVE  Heeded'
<1> SUFFICES ASSUME pc' = "sleeping" PROVE Heeded'
    BY DEF Heeded
<1>1. MaxS \in Nat /\ Deadline \in Nat /\ now \in Nat /\ MaxTime \in Nat
    BY ClientsAssumption DEF Typed, TypeOK, ClientsAssumption
<1>2. ASSUME pc = "sleeping", UNCHANGED <<request, latest, delays>> PROVE Heeded'
    BY <1>2 DEF latest, delays, Heeded, Earliest
<1>3. CASE Retry
  <2>1. PICK d \in Delays(Deadline - now) : wake_at' = now + d
      BY <1>3 DEF Retry
  <2>2. pc = "failed" /\ now < Deadline /\ UNCHANGED <<request, latest>>
      BY <1>3 DEF Retry
  <2>3. Deadline - now \in Nat \ {0}
      BY <1>1, <2>2
  <2>4. classification.retry_after_s \in Hints /\ failed_at \in 0..now
      BY <2>2 DEF Typed
  <2>5. prev_sleep \in Hints /\ sent \in Seq(Says) /\ request \in Requests
      BY DEF Typed, TypeOK, Hints
  <2> SUFFICES ASSUME request.hints # "ignored", classification.retry_after_s # None
               PROVE  wake_at' >= Earliest(classification.retry_after_s)'
      BY <2>2 DEF Heeded, latest
  <2> DEFINE ra == classification.retry_after_s
             want == IF request.hints = "clamped" THEN Least(MaxS, ra) ELSE ra
  <2>6. d \in Nat /\ Least(want, Deadline - now) <= d
      BY ClientsAssumption, <2>3, <2>4, <2>5, DelaysHeed
  <2>7. ra \in Nat /\ want \in Nat
      BY <1>1, <2>4 DEF Hints, Least
  <2>8. Earliest(classification.retry_after_s)' = Least(failed_at + want, Deadline)
      BY <2>2 DEF Earliest, latest
  <2> HIDE DEF want
  <2>9. Least(failed_at + want, Deadline) <= now + d
    <3>1. failed_at \in Nat /\ failed_at <= now
        BY <1>1, <2>4
    <3> QED
        BY <1>1, <2>6, <2>7, <3>1 DEF Least
  <2> QED
      BY <2>1, <2>8, <2>9
<1>4. CASE Tick
    BY <1>2, <1>4 DEF Tick
<1>5. CASE CallerChanges
    BY <1>2, <1>5 DEF CallerChanges
<1>6. CASE UNCHANGED vars
    BY <1>2, <1>6 DEF vars
<1>7. ~ Bypass /\ ~ Refuse /\ ~ Enter /\ ~ Attempt /\ ~ GiveUp /\ ~ Wake /\ ~ ClientChanges
    BY DEF Bypass, Refuse, Enter, Attempt, GiveUp, Wake, ClientChanges, End
<1>8. \A status, retry_after : ~ Answer(status, retry_after)
    BY DEF Answer, Failed, End
<1>9. \A x : ~ Raise(x)
    BY DEF Raise, Failed
<1> QED
    BY <1>3, <1>4, <1>5, <1>6, <1>7, <1>8, <1>9 DEF Next

\* The invariants hold throughout.
LEMMA SoundHolds ==
    Spec => []Sound
<1>1. Sound /\ [Next]_vars => Sound'
    BY TypedStep, KeptStep, DecidedStep, OnceStep, HeededStep DEF Sound
<1> QED
    BY <1>1, SoundInit, PTL DEF Spec

-----------------------------------------------------------------------------------
(* The theorems.                                                                   *)

\* Every variable of Clients keeps its type: delays, among them those of three strategies
\* and those that an answer asks for, are never negative.
THEOREM ClientsTypeCorrect ==
    Spec => []TypeOK
<1>1. Sound => TypeOK
    BY DEF Sound, Typed
<1> QED
    BY <1>1, SoundHolds, PTL

\* httpx: every attempt sends the body as it was when the request was made, whatever its
\* body is made of, and whatever the caller and the client change.
THEOREM SameBodyHolds ==
    Spec => []SameBody
<1>1. Sound => SameBody
    BY DEF Sound, Kept, SameBody
<1> QED
    BY <1>1, SoundHolds, PTL

\* httpx: a body is refused, before anything is sent, if and only if it is content that is
\* not text, or something is reached from it that is neither a scalar nor a container, or
\* that is reached from itself; for any finite number of objects.
THEOREM RefusesUnreplayableHolds ==
    Spec => []RefusesUnreplayable
<1>1. ASSUME Sound PROVE RefusesUnreplayable
  <2> SUFFICES ASSUME request.adapter = "httpx", pc # "called", outcome # "bypassed"
               PROVE  /\ outcome = "unreplayable" <=> ~Supported(request)
                      /\ outcome = "unreplayable" => sent = <<>>
      BY DEF RefusesUnreplayable
  <2>1. request \in Request /\ IsFiniteSet(Objects) /\ None # "unreplayable"
      BY <1>1, ClientsAssumption DEF Sound, Typed, TypeOK, ClientsAssumption
  <2>2. Replayable(request) <=> Supported(request)
      BY <2>1, ReplayableIfSupported
  <2>3. outcome = "unreplayable" <=> ~Replayable(request)
      BY <1>1, <2>1 DEF Sound, Decided
  <2>4. outcome = "unreplayable" => sent = <<>>
      BY <1>1 DEF Sound, Decided
  <2> QED
      BY <2>2, <2>3, <2>4
<1> QED
    BY <1>1, SoundHolds, PTL

\* A request that its skip_if names, or that of its client where it has none of its own, is
\* sent at most once and never refused, however its method is spelled.
THEOREM SentOnceWhenSkippedHolds ==
    Spec => []SentOnceWhenSkipped
<1>1. ASSUME Sound PROVE SentOnceWhenSkipped
  <2> SUFFICES ASSUME NEW methods \in SUBSET {"GET", "POST"},
                      Upper[request.method] \in methods,
                      \/ request.skip_if = methods
                      \/ request.skip_if = None /\ request.skip_default = methods
               PROVE  Len(sent) <= 1 /\ outcome # "unreplayable"
      BY DEF SentOnceWhenSkipped
  <2>1. methods # None /\ None # "unreplayable"
      BY ClientsAssumption DEF ClientsAssumption
  <2>2. choose_option(request.skip_default, request.skip_if) = methods
      BY <2>1 DEF choose_option
  <2>3. Skipped
      BY <2>1, <2>2, Zenon DEF Skipped
  <2>4. CASE pc = "called"
    <3>1. sent = <<>> /\ outcome = None
        BY <1>1, <2>4 DEF Sound, Decided
    <3> QED
        BY <2>1, <3>1
  <2>5. CASE pc = "done" /\ outcome = "bypassed" /\ Len(sent) = 1
      BY <2>5
  <2> QED
      BY <1>1, <2>3, <2>4, <2>5 DEF Sound, Once
<1> QED
    BY <1>1, SoundHolds, PTL

\* The attempt after an answer that asks for a delay is not made before the delay is over or
\* the deadline has come; helpers of the providers wait max_s at most.
THEOREM HintHonouredHolds ==
    Spec => HintHonoured
<1>1. Sound /\ [Next]_vars =>
        [ Wake /\ pc' = "ready" /\ request.hints # "ignored"
          /\ classification.retry_after_s # None
          => now >= Earliest(classification.retry_after_s) ]_vars
  <2> SUFFICES ASSUME Sound, Wake, request.hints # "ignored",
                      classification.retry_after_s # None
               PROVE  now >= Earliest(classification.retry_after_s)
      OBVIOUS
  <2>1. pc = "sleeping" /\ now >= wake_at
      BY DEF Wake
  <2>2. wake_at >= Earliest(classification.retry_after_s)
      BY <2>1 DEF Sound, Heeded
  <2>3. now \in Nat /\ wake_at \in Nat /\ Earliest(classification.retry_after_s) \in Int
      BY <2>1, ClientsAssumption
         DEF Sound, Typed, TypeOK, ClientsAssumption, Earliest, Least, Hints
  <2> QED
      BY <2>1, <2>2, <2>3
<1> QED
    BY <1>1, SoundHolds, PTL DEF Spec, HintHonoured

\* A failure that asks for no delay is never repeated at once, whatever was asked for
\* before it, with any of the three strategies.
THEOREM NoHotLoopHolds ==
    Spec => NoHotLoop
<1>1. Sound /\ [Next]_vars =>
        [ Retry /\ (classification.retry_after_s = None \/ request.hints = "ignored")
          => wake_at' > now ]_vars
  <2> SUFFICES ASSUME Sound, Retry,
                      classification.retry_after_s = None \/ request.hints = "ignored"
               PROVE  wake_at' > now
      OBVIOUS
  <2>1. PICK d \in Delays(Deadline - now) : wake_at' = now + d
      BY DEF Retry
  <2>2. now \in Nat /\ Deadline - now \in Nat \ {0}
      BY ClientsAssumption DEF Retry, Sound, Typed, TypeOK, ClientsAssumption
  <2>3. /\ classification.retry_after_s \in Hints /\ prev_sleep \in Hints
        /\ sent \in Seq(Says) /\ request \in Requests
      BY DEF Retry, Sound, Typed, TypeOK, Hints
  <2>4. d \in Nat /\ 0 < d
      BY ClientsAssumption, <2>2, <2>3, DelaysHeed
  <2> QED
      BY <2>1, <2>2, <2>4
<1> QED
    BY <1>1, SoundHolds, PTL DEF Spec, NoHotLoop

-----------------------------------------------------------------------------------
(* Classifiers: what the order of their rows decides, for every failure.           *)

\* The least number that a set holds is its minimum.
LEMMA MinIsLeast ==
    ASSUME NEW S \in SUBSET Nat, NEW m \in S, \A x \in S : m <= x
    PROVE  Min(S) = m
<1>1. \A x \in S : (\A y \in S : x <= y) => x = m
    OBVIOUS
<1> QED
    BY <1>1, Zenon DEF Min

\* Row k is the first that applies.
Leads(rows, what, k) ==
    /\ Len(rows) \in Nat /\ k \in 1..Len(rows)
    /\ rows[k].whom \cap what # {}
    /\ \A j \in 1..(k - 1) : rows[j].whom \cap what = {}

\* The first row that applies is taken.
LEMMA FirstApplies ==
    \A rows, what, otherwise, k : Leads(rows, what, k) => First(rows, what, otherwise) = rows[k]
<1> SUFFICES ASSUME NEW rows, NEW what, NEW otherwise, NEW k, Leads(rows, what, k)
             PROVE  First(rows, what, otherwise) = rows[k]
    OBVIOUS
<1> DEFINE I == { i \in 1..Len(rows) : rows[i].whom \cap what # {} }
<1>1. k \in I /\ I \in SUBSET Nat
    BY DEF Leads
<1>2. \A i \in I : k <= i
    BY DEF Leads
<1>3. Min(I) = k
    BY <1>1, <1>2, MinIsLeast
<1>4. SelectInSeq(rows, LAMBDA row : row.whom \cap what # {}) = k
    BY <1>1, <1>3 DEF SelectInSeq
<1>5. k # 0
    BY DEF Leads
<1> QED
    BY <1>4, <1>5 DEF First

\* Where no row applies, what comes after them decides.
LEMMA FirstPasses ==
    ASSUME NEW rows, NEW what, NEW otherwise,
           \A j \in 1..Len(rows) : rows[j].whom \cap what = {}
    PROVE  First(rows, what, otherwise) = otherwise
<1>1. SelectInSeq(rows, LAMBDA row : row.whom \cap what # {}) = 0
    BY DEF SelectInSeq
<1> QED
    BY <1>1 DEF First

\* redis-py derives its authentication errors from the error of a lost connection.  Such a
\* failure is final, whatever else it is, and a lost connection alone is not.
THEOREM RedisRefusalsFirst ==
    ASSUME NEW f, "redis.ReadOnlyError" \notin f.types
    PROVE  LET class == Classify("redis", f).klass
           IN  /\ "redis.AuthenticationError" \in f.types => class = "AUTH"
               /\ "redis.AuthenticationError" \notin f.types
                  /\ "redis.AuthorizationError" \in f.types => class = "PERMISSION"
               /\ f.types \cap {"redis.AuthenticationError", "redis.AuthorizationError"} = {}
                  /\ "redis.ConnectionError" \in f.types => class = "TRANSIENT"
<1> DEFINE rows == << Row({"redis.ReadOnlyError"}, "CONCURRENCY"),
                      Row({"redis.AuthenticationError"}, "AUTH"),
                      Row({"redis.AuthorizationError"}, "PERMISSION"),
                      Row({"redis.TimeoutError", "redis.ConnectionError", "redis.BusyLoadingError"},
                          "TRANSIENT") >>
<1>1. Classify("redis", f).klass = First(rows, f.types, default_classifier(f)).class
  <2>1. Classify("redis", f) = Classification(redis_classifier(f), f)
      BY DEF Classify
  <2>2. \A row : Classification(row, f).klass = row.class
      BY DEF Classification
  <2>3. redis_classifier(f) = First(rows, f.types, default_classifier(f))
      BY DEF redis_classifier
  <2> QED
      BY <2>1, <2>2, <2>3
<1>2. /\ Len(rows) = 4
      /\ rows[1].whom = {"redis.ReadOnlyError"}
      /\ rows[2].whom = {"redis.AuthenticationError"} /\ rows[2].class = "AUTH"
      /\ rows[3].whom = {"redis.AuthorizationError"} /\ rows[3].class = "PERMISSION"
      /\ rows[4].whom = {"redis.TimeoutError", "redis.ConnectionError", "redis.BusyLoadingError"}
      /\ rows[4].class = "TRANSIENT"
    BY DEF Row
<1> HIDE DEF rows
<1>3. ASSUME NEW k \in 1..4, rows[k].whom \cap f.types # {},
             \A j \in 1..(k - 1) : rows[j].whom \cap f.types = {}
      PROVE  First(rows, f.types, default_classifier(f)) = rows[k]
  <2>1. Leads(rows, f.types, k)
      BY <1>2, <1>3 DEF Leads
  <2> QED
      BY <2>1, FirstApplies, Zenon
<1>4. CASE "redis.AuthenticationError" \in f.types
  <2>1. \A j \in 1..(2 - 1) : rows[j].whom \cap f.types = {}
      BY <1>2
  <2> QED
      BY <1>1, <1>2, <1>3, <1>4, <2>1
<1>5. CASE /\ "redis.AuthenticationError" \notin f.types
           /\ "redis.AuthorizationError" \in f.types
  <2>1. \A j \in 1..(3 - 1) : rows[j].whom \cap f.types = {}
      BY <1>2, <1>5
  <2> QED
      BY <1>1, <1>2, <1>3, <1>5, <2>1
<1>6. CASE /\ f.types \cap {"redis.AuthenticationError", "redis.AuthorizationError"} = {}
           /\ "redis.ConnectionError" \in f.types
  <2>1. \A j \in 1..(4 - 1) : rows[j].whom \cap f.types = {}
      BY <1>2, <1>6
  <2> QED
      BY <1>1, <1>2, <1>3, <1>6, <2>1
<1> QED
    BY <1>4, <1>5, <1>6

AwsConnections ==
    { "botocore.EndpointConnectionError", "botocore.ConnectionClosedError",
      "botocore.ReadTimeoutError", "botocore.ConnectTimeoutError" }

AwsThrottling ==
    { "Throttling", "ThrottlingException", "TooManyRequestsException",
      "RequestLimitExceeded", "SlowDown" }

\* Where no answer of AWS has come, it may come the next time.
LEMMA AwsConnectionsPass ==
    ASSUME NEW f, f.types \cap AwsConnections # {}
    PROVE  Classify("boto3", f).klass = "TRANSIENT"
<1> DEFINE rows == << Row(AwsConnections, "TRANSIENT") >>
           rest == IF "botocore.ClientError" \in f.types THEN classify_client_error(f)
                   ELSE default_classifier(f)
<1>1. boto3_classifier(f) = First(rows, f.types, rest)
    BY DEF boto3_classifier, AwsConnections
<1>2. Leads(rows, f.types, 1) /\ rows[1].class = "TRANSIENT"
    BY DEF Leads, Row
<1> HIDE DEF rows, rest
<1>3. First(rows, f.types, rest) = rows[1]
    BY <1>2, FirstApplies, Zenon
<1> QED
    BY <1>1, <1>2, <1>3 DEF Classify, Classification

\* AWS answers throttling with the status of a bad request.  The code of an answer decides
\* before its status does: what is throttled is not final, and what is denied is.
THEOREM AwsCodesFirst ==
    ASSUME NEW f, "botocore.ClientError" \in f.types,
           f.types \cap AwsConnections = {}
    PROVE  LET class == Classify("boto3", f).klass
           IN  /\ f.code \in AwsThrottling => class = "RATE_LIMIT"
               /\ f.code \in {"AccessDenied", "AccessDeniedException", "UnauthorizedOperation"}
                  => class = "PERMISSION"
               /\ f.code \in {"UnrecognizedClientException", "InvalidClientTokenId", "ExpiredToken"}
                  => class = "AUTH"
<1> DEFINE rows == ClientErrorCodes
           rest == First(ClientErrorStatuses, {f.answered}, Unknown)
<1>1. Classify("boto3", f).klass = boto3_classifier(f).class
  <2>1. Classify("boto3", f) = Classification(boto3_classifier(f), f)
      BY DEF Classify
  <2>2. \A row : Classification(row, f).klass = row.class
      BY DEF Classification
  <2> QED
      BY <2>1, <2>2
<1>2. boto3_classifier(f) = classify_client_error(f)
    BY FirstPasses DEF boto3_classifier, AwsConnections, Row
<1>3. classify_client_error(f) = First(rows, {f.code}, rest)
    BY DEF classify_client_error
<1>4. /\ Len(rows) = 3
      /\ rows[1].whom = AwsThrottling
      /\ rows[2].whom = {"AccessDenied", "AccessDeniedException", "UnauthorizedOperation"}
      /\ rows[3].whom = {"UnrecognizedClientException", "InvalidClientTokenId", "ExpiredToken"}
      /\ rows[1].class = "RATE_LIMIT" /\ rows[2].class = "PERMISSION" /\ rows[3].class = "AUTH"
    BY DEF ClientErrorCodes, AwsThrottling, Row
<1> HIDE DEF rows, rest
<1>5. ASSUME NEW k \in 1..3, f.code \in rows[k].whom,
             \A j \in 1..(k - 1) : f.code \notin rows[j].whom
      PROVE  First(rows, {f.code}, rest) = rows[k]
  <2>1. Leads(rows, {f.code}, k)
      BY <1>4, <1>5 DEF Leads
  <2> QED
      BY <2>1, FirstApplies, Zenon
<1>6. f.code \in rows[2].whom => f.code \notin rows[1].whom
    BY <1>4 DEF AwsThrottling
<1>7. f.code \in rows[3].whom => f.code \notin rows[1].whom /\ f.code \notin rows[2].whom
    BY <1>4 DEF AwsThrottling
<1> QED
    BY <1>1, <1>2, <1>3, <1>4, <1>5, <1>6, <1>7

-----------------------------------------------------------------------------------
(* What that makes of a request.                                                   *)

\* The classes that a policy takes for final.
Final == {"PERMANENT", "AUTH", "PERMISSION"}

Passing == {"TRANSIENT", "RATE_LIMIT", "CONCURRENCY", "SERVER_ERROR"}

\* An answer that the caller does not get is not final.
LEMMA AnswersPass ==
    ASSUME NEW status \in {200, 404, 409, 429, 503}, NEW header,
           default_result_classifier(status) # None
    PROVE  Classification(default_result_classifier(status), header).klass \in Passing
<1>1. CASE status \in {200, 404}
    BY <1>1 DEF default_result_classifier
<1>2. CASE status = 409
  <2>1. default_result_classifier(status) = Row({409}, "CONCURRENCY")
      BY <1>2 DEF default_result_classifier
  <2> QED
      BY <2>1 DEF Classification, Row, Passing
<1>3. CASE status = 429
  <2>1. default_result_classifier(status) = Hinted({429}, "RATE_LIMIT")
      BY <1>3 DEF default_result_classifier
  <2> QED
      BY <2>1 DEF Classification, Hinted, Passing
<1>4. CASE status = 503
  <2>1. default_result_classifier(status) = Row({503}, "SERVER_ERROR")
      BY <1>4 DEF default_result_classifier
  <2> QED
      BY <2>1 DEF Classification, Row, Passing
<1> QED
    BY <1>1, <1>2, <1>3, <1>4

\* The latest failure has the class that its classifier gave it, and the policy acts on it.
ClassHeeded(library, classifier, meant, classes) ==
    /\ request.library = library /\ request.classifier = classifier /\ meaning = meant =>
            classification.klass \in classes
    /\ pc = "sleeping" => classification.klass \notin NonRetryable
    /\ outcome = "NON_RETRYABLE_CLASS" => classification.klass \in NonRetryable

\* What a classifier makes of the failures of its library, the policy heeds to the end of
\* the request.
LEMMA ClassesHeeded ==
    ASSUME NEW library, NEW classifier, NEW meant \in {"refused", "busy"}, NEW classes,
           meant = "busy" => Passing \subseteq classes,
           \A x \in Failures : x.library = library /\ x.meaning = meant =>
                Classify(classifier, x.failure).klass \in classes
    PROVE  /\ Init => ClassHeeded(library, classifier, meant, classes)
           /\ Sound /\ ClassHeeded(library, classifier, meant, classes) /\ [Next]_vars
              => ClassHeeded(library, classifier, meant, classes)'
<1> DEFINE H == ClassHeeded(library, classifier, meant, classes)
<1> USE DEF latest, ClassHeeded
<1>1. Init => H
    BY ClientsAssumption DEF Init, ClientsAssumption, Meanings
<1>2. Sound /\ H /\ [Next]_vars => H'
  <2> SUFFICES ASSUME Sound, H, [Next]_vars
               PROVE  H'
      OBVIOUS
  <2>0. (pc # "done" => outcome = None) /\ None # "NON_RETRYABLE_CLASS"
      BY ClientsAssumption DEF Sound, Decided, Typed, TypeOK, ClientsAssumption
  <2>1. CASE Tick \/ Bypass \/ Refuse \/ Enter \/ Attempt
      BY <2>0, <2>1 DEF Tick, Bypass, Refuse, Enter, Attempt, End
  <2>2. CASE ClientChanges \/ CallerChanges
      BY <2>2 DEF ClientChanges, CallerChanges
  <2>3. ASSUME NEW what, NEW m, Failed(what, m), pc = "sent",
               request.library = library /\ request.classifier = classifier /\ m = meant =>
                    what.klass \in classes
        PROVE  H'
      BY <2>0, <2>3 DEF Failed
  <2>4. ASSUME NEW status \in {200, 404, 409, 429, 503}, NEW retry_after \in {None, 0, 1, 6},
               Answer(status, retry_after)
        PROVE  H'
    <3> DEFINE row == default_result_classifier(status)
               what == Classification(row, [retry_after |-> retry_after, resets |-> {}])
    <3>1. CASE row # None /\ Failed(what, "busy")
      <4>1. what.klass \in Passing
          BY <3>1, AnswersPass
      <4>2. pc = "sent"
          BY <2>4 DEF Answer
      <4> HIDE DEF what
      <4> QED
          BY <2>3, <3>1, <4>1, <4>2
    <3>2. CASE End("returned") /\ UNCHANGED <<request, latest>>
        BY <3>2 DEF End
    <3> QED
        BY <2>4, <3>1, <3>2 DEF Answer
  <2>5. ASSUME NEW x \in Failures, Raise(x)
        PROVE  H'
      BY <2>3, <2>5 DEF Raise
  <2>6. CASE GiveUp
      BY <2>6 DEF GiveUp, End
  <2>7. CASE Retry
      BY <2>0, <2>7 DEF Retry
  <2>8. CASE Wake
      BY <2>0, <2>8 DEF Wake, End
  <2>9. CASE UNCHANGED vars
      BY <2>9 DEF vars
  <2> QED
      BY <2>1, <2>2, <2>4, <2>5, <2>6, <2>7, <2>8, <2>9 DEF Next
<1> QED
    BY <1>1, <1>2

\* A wrong password of redis is not tried again, although its type derives from that of a
\* lost connection: what is refused is known by its type alone.
THEOREM RedisRefusalsNotRepeated ==
    ASSUME {"AUTH", "PERMISSION"} \subseteq NonRetryable,
           \A x \in Failures : x.library = "redis" /\ x.meaning = "refused" =>
                /\ x.failure.types \cap {"redis.AuthenticationError", "redis.AuthorizationError"} # {}
                /\ "redis.ReadOnlyError" \notin x.failure.types
    PROVE  Spec =>
            [](request.library = "redis" /\ request.classifier = "redis" => RefusalsNotRepeated)
<1> DEFINE H == ClassHeeded("redis", "redis", "refused", {"AUTH", "PERMISSION"})
<1>1. ASSUME NEW x \in Failures, x.library = "redis", x.meaning = "refused"
      PROVE  Classify("redis", x.failure).klass \in {"AUTH", "PERMISSION"}
    BY <1>1, RedisRefusalsFirst
<1>2. (Init => H) /\ (Sound /\ H /\ [Next]_vars => H')
    BY <1>1, ClassesHeeded
<1>3. H => (request.library = "redis" /\ request.classifier = "redis" => RefusalsNotRepeated)
    BY DEF ClassHeeded, RefusalsNotRepeated
<1> QED
    BY <1>2, <1>3, SoundHolds, PTL DEF Spec

\* An overload that AWS answers with the status of a bad request does not end a request as
\* a refusal does, and nor does a lost connection.
THEOREM AwsOverloadNotFinal ==
    ASSUME NonRetryable \subseteq Final,
           \A x \in Failures : x.library = "boto3" /\ x.meaning = "busy" =>
                \/ x.failure.types \cap AwsConnections # {}
                \/ /\ "botocore.ClientError" \in x.failure.types
                   /\ x.failure.code \in AwsThrottling
    PROVE  Spec =>
            [](request.library = "boto3" /\ request.classifier = "boto3" => BusyNotFinal)
<1> DEFINE H == ClassHeeded("boto3", "boto3", "busy", Passing)
<1>1. ASSUME NEW x \in Failures, x.library = "boto3", x.meaning = "busy"
      PROVE  Classify("boto3", x.failure).klass \in Passing
  <2>1. CASE x.failure.types \cap AwsConnections # {}
      BY <2>1, AwsConnectionsPass DEF Passing
  <2>2. CASE x.failure.types \cap AwsConnections = {}
      BY <1>1, <2>2, AwsCodesFirst DEF Passing
  <2> QED
      BY <2>1, <2>2
<1>2. (Init => H) /\ (Sound /\ H /\ [Next]_vars => H')
    BY <1>1, ClassesHeeded
<1>3. Passing \cap NonRetryable = {}
    BY DEF Passing, Final
<1>4. H => (request.library = "boto3" /\ request.classifier = "boto3" => BusyNotFinal)
    BY <1>3 DEF ClassHeeded, BusyNotFinal
<1> QED
    BY <1>2, <1>4, SoundHolds, PTL DEF Spec
====
