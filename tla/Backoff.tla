----------------------------------- MODULE Backoff ---------------------------------
(***********************************************************************************)
(* The stateless strategies: the delays that each may choose.  Time is counted in  *)
(* whole units, and a half is rounded down.                                        *)
(***********************************************************************************)
EXTENDS Integers, Classifiers

\* b ** n, as a function of n.
Power(b) == LET P[n \in Nat] == IF n = 0 THEN 1 ELSE b * P[n - 1] IN P

Least(a, b) == IF a <= b THEN a ELSE b

\* random.uniform(a, b), of numbers in either order.
Uniform(a, b) == Least(a, b)..(a + b - Least(a, b))

\* Faulty: a delay of zero is taken for the previous one.
Faultydecorrelated_jitter(base_s, max_s, prev) ==
    { Least(max_s, d) : d \in Uniform(base_s, 3 * (IF prev = None THEN base_s ELSE prev)) }

decorrelated_jitter(base_s, max_s, prev) ==
    { Least(max_s, d) : d \in Uniform(base_s, 3 * (IF prev \in {None, 0} THEN base_s ELSE prev)) }

UpperHalf(cap) == Uniform(cap \div 2, cap)

equal_jitter(base_s, max_s, attempt) == UpperHalf(Least(max_s, base_s * Power(2)[attempt]))

token_backoff(base_s, max_s, attempt) ==
    UpperHalf(Least(max_s, (base_s * Power(3)[attempt]) \div Power(2)[attempt]))

\* Faulty: the jitter goes both ways.
Faultyretry_after_or(fallback, jitter_s, hint, remaining) ==
    { Least(d, remaining) :
        d \in IF hint = None THEN fallback ELSE Uniform(hint - jitter_s, hint + jitter_s) }

\* The delay asked for and a jitter, or a delay of the fallback's.
retry_after_or(fallback, jitter_s, hint, remaining) ==
    { Least(d, remaining) :
        d \in IF hint = None THEN fallback ELSE Uniform(hint, hint + jitter_s) }

clamp_retry_after(max_s, hint) == IF hint = None THEN None ELSE Least(max_s, hint)
====================================================================================
