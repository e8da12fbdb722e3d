------------------------------ MODULE RollingWindow ------------------------------
(***********************************************************************************)
(* The deque of timestamps that Budget and CircuitBreaker both keep: entries are   *)
(* appended on the right, and expired ones are popped from the left for as long as *)
(* the leftmost one has expired.                                                   *)
(***********************************************************************************)
EXTENDS Integers, Sequences, SequencesExt

\* Faulty: nothing ever expires.
FaultyDropExpired(bucket, cutoff) == bucket

\* while bucket and bucket[0] <= cutoff: bucket.popleft()
DropExpired(bucket, cutoff) ==
    LET kept == SelectInSeq(bucket, LAMBDA t : t > cutoff)
    IN  IF kept = 0 THEN <<>> ELSE SubSeq(bucket, kept, Len(bucket))
====================================================================================
