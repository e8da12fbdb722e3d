------------------------------ MODULE AdaptiveProofs ------------------------------
(***********************************************************************************)
(* Proofs about AdaptiveStrategy, for any number of callers, any window, target,   *)
(* multipliers and stall.  The argument is that of Budget: the deque is the dated  *)
(* tail of the history, and pruning at a late reading keeps it so.                 *)
(***********************************************************************************)
EXTENDS AdaptiveStrategy, RollingWindowProofs, FiniteSetTheorems

\* The newest n of a sequence.
LEMMA NewestOf ==
    ASSUME NEW S, NEW s \in Seq(S), NEW n \in Nat, n <= Len(s)
    PROVE  /\ Newest(s, n) \in Seq(S)
           /\ Len(Newest(s, n)) = n
           /\ \A i \in 1..n : Newest(s, n)[i] = s[Len(s) - n + i]
<1>1. Len(s) \in Nat
  BY LenProperties
<1>2. CASE n = 0
  <2>1. Newest(s, n) = <<>>
    BY <1>1, <1>2, SubSeqProperties DEF Newest
  <2>2. <<>> \in Seq(S) /\ Len(<<>>) = 0
    OBVIOUS
  <2>3. \A i \in 1..n : FALSE
    BY <1>2
  <2> QED BY <1>2, <2>1, <2>2, <2>3
<1>3. CASE n # 0
  <2> DEFINE k == Len(s) - n + 1
  <2>1. k \in 1..Len(s) /\ Len(s) - k + 1 = n
    BY <1>1, <1>3
  <2>2. /\ SubSeq(s, k, Len(s)) \in Seq(S)
        /\ Len(SubSeq(s, k, Len(s))) = Len(s) - k + 1
        /\ \A i \in 1..(Len(s) - k + 1) : SubSeq(s, k, Len(s))[i] = s[k + i - 1]
    BY <1>1, <2>1, SubSeqProperties
  <2>3. \A i \in 1..n : k + i - 1 = Len(s) - n + i
    BY <1>1
  <2> QED BY <2>1, <2>2, <2>3 DEF Newest
<1> QED BY <1>2, <1>3

\* The dates of a sequence of records.
LEMMA DatesOf ==
    ASSUME NEW s \in Seq(Events)
    PROVE  /\ Dates(s) \in Seq(Nat) /\ Dates(s) \in Seq(Int)
           /\ Len(Dates(s)) = Len(s)
           /\ \A i \in 1..Len(s) : Dates(s)[i] = s[i].at
<1>1. Len(s) \in Nat
  BY LenProperties
<1>2. \A i \in 1..Len(s) : s[i].at \in Nat
  <2> TAKE i \in 1..Len(s)
  <2>1. s[i] \in Events
    BY ElementOfSeq
  <2> QED BY <2>1 DEF Events
<1>3. Dates(s) \in Seq(Nat) /\ Len(Dates(s)) = Len(s)
  BY <1>1, <1>2 DEF Dates
<1>4. Dates(s) \in Seq(Int)
  BY <1>3, SeqMonotonic
<1>5. \A i \in 1..Len(s) : Dates(s)[i] = s[i].at
  BY DEF Dates
<1> QED BY <1>3, <1>4, <1>5

\* Pruning keeps a tail of the window; what it drops has expired at the reading, and
\* the first entry it keeps has not.
LEMMA PrunedTail ==
    ASSUME NEW s \in Seq(Events), NEW at \in Nat
    PROVE  /\ Pruned(s, at) \in Seq(Events)
           /\ Len(Pruned(s, at)) \in Nat /\ Len(Pruned(s, at)) <= Len(s)
           /\ \A i \in 1..Len(Pruned(s, at)) :
                 Pruned(s, at)[i] = s[Len(s) - Len(Pruned(s, at)) + i]
           /\ \A i \in 1..(Len(s) - Len(Pruned(s, at))) : s[i].at <= at - WindowS
           /\ Len(Pruned(s, at)) > 0 => Pruned(s, at)[1].at > at - WindowS
<1> DEFINE cutoff == at - WindowS
           dates == Dates(s)
           kept == DropExpired(dates, cutoff)
           n == Len(kept)
<1>1. cutoff \in Int /\ Len(s) \in Nat
  BY AdaptiveAssumption, LenProperties
<1>2. dates \in Seq(Nat) /\ dates \in Seq(Int) /\ Len(dates) = Len(s)
      /\ \A i \in 1..Len(s) : dates[i] = s[i].at
  BY DatesOf
<1>3. kept \in Seq(Nat) /\ n \in Nat
  BY <1>1, <1>2, DropExpiredType, LenProperties
<1> HIDE DEF dates, cutoff
<1>4. /\ n <= Len(s)
      /\ \A i \in 1..(Len(s) - n) : s[i].at <= cutoff
      /\ n > 0 => s[Len(s) - n + 1].at > cutoff
  <2>1. CASE kept = <<>> /\ \A i \in 1..Len(dates) : dates[i] <= cutoff
    <3>1. n = 0
      BY <2>1
    <3> HIDE DEF n, kept
    <3> QED BY <1>1, <1>2, <2>1, <3>1
  <2>2. CASE \E k \in 1..Len(dates) :
                /\ kept = SubSeq(dates, k, Len(dates))
                /\ dates[k] > cutoff
                /\ \A i \in 1..(k - 1) : dates[i] <= cutoff
    <3>1. PICK k \in 1..Len(dates) :
                /\ kept = SubSeq(dates, k, Len(dates))
                /\ dates[k] > cutoff
                /\ \A i \in 1..(k - 1) : dates[i] <= cutoff
      BY <2>2
    <3>2. n = Len(s) - k + 1
      BY <1>1, <1>2, <3>1, SubSeqProperties
    <3> HIDE DEF n, kept
    <3>3. k \in Nat /\ k >= 1 /\ k <= Len(s)
      BY <1>1, <1>2
    <3>4. Len(s) - n = k - 1 /\ n > 0 /\ n <= Len(s) /\ Len(s) - n + 1 = k
      BY <1>1, <3>2, <3>3
    <3>5. \A i \in 1..(k - 1) : s[i].at <= cutoff
      BY <1>1, <1>2, <3>1, <3>3, SMTT(20)
    <3>6. s[k].at > cutoff
      BY <1>2, <3>1
    <3> QED BY <3>4, <3>5, <3>6
  <2>3. kept = DropExpired(dates, cutoff)
    OBVIOUS
  <2> QED BY <1>1, <1>2, <2>1, <2>2, <2>3, DropExpiredCases
<1>5. Pruned(s, at) = Newest(s, n)
  BY DEF Pruned, dates, cutoff
<1> HIDE DEF n, kept
<1>6. /\ Newest(s, n) \in Seq(Events) /\ Len(Newest(s, n)) = n
      /\ \A i \in 1..n : Newest(s, n)[i] = s[Len(s) - n + i]
  BY <1>3, <1>4, NewestOf
<1>7. n > 0 => Newest(s, n)[1].at > cutoff
  BY <1>3, <1>4, <1>6
<1> QED BY <1>3, <1>4, <1>5, <1>6, <1>7 DEF cutoff

\* The multiplier of a window is a proper fraction, of min_multiplier or more.
LEMMA MultiplierType ==
    ASSUME NEW S, NEW s \in Seq(S)
    PROVE  /\ Failures(s) \in Nat /\ Failures(s) <= Len(s)
           /\ Multiplier(s) \in Multipliers
<1> DEFINE failed == {i \in 1..Len(s) : ~s[i].ok}
           f == Failures(s)
           t == Len(s)
<1>1. t \in Nat
  BY LenProperties
<1>2. IsFiniteSet(1..t) /\ Cardinality(1..t) = t
  BY <1>1, FS_Interval, SMTT(20)
<1>3. f \in Nat /\ f <= t
  <2>1. failed \subseteq 1..t
    OBVIOUS
  <2>2. IsFiniteSet(failed) /\ Cardinality(failed) <= Cardinality(1..t)
    BY <1>2, <2>1, FS_Subset
  <2>3. Cardinality(failed) \in Nat
    BY <2>2, FS_CardinalityType
  <2> QED BY <1>2, <2>2, <2>3 DEF Failures
<1>4. /\ TargetNum \in Nat /\ TargetNum >= 1 /\ TargetDen \in Nat /\ TargetNum <= TargetDen
      /\ MinMultiplier \in Nat /\ MinMultiplier >= 1 /\ MaxMultiplier \in Nat
      /\ MinMultiplier <= MaxMultiplier
  BY AdaptiveAssumption
<1> HIDE DEF f, t
<1>5. CASE f * TargetDen <= (TargetDen - TargetNum) * t
  <2>1. Multiplier(s) = Baseline
    BY <1>5 DEF Multiplier, f, t
  <2> QED BY <1>3, <1>4, <2>1 DEF Baseline, Multipliers, f, t
<1>6. CASE ~(f * TargetDen <= (TargetDen - TargetNum) * t)
  <2> DEFINE over == f * TargetDen - (TargetDen - TargetNum) * t
  <2>1. f * TargetDen \in Nat
    BY <1>3, <1>4
  <2>2. TargetDen - TargetNum \in Nat
    BY <1>4
  <2>3. (TargetDen - TargetNum) * t \in Nat
    BY <1>1, <2>2
  <2>4. over \in Nat
    BY <1>6, <2>1, <2>3
  <2>5. t # 0
    <3>1. ASSUME t = 0 PROVE FALSE
      <4>1. f = 0
        BY <1>3, <3>1
      <4> QED BY <1>4, <1>6, <3>1, <4>1
    <3> QED BY <3>1
  <2>6. t * TargetNum \in Nat \ {0}
    BY <1>1, <1>4, <2>5
  <2>7. MinMultiplier * (t * TargetNum) \in Nat
    BY <1>4, <2>6
  <2>8. over * (MaxMultiplier - MinMultiplier) \in Nat
    <3>1. MaxMultiplier - MinMultiplier \in Nat
      BY <1>4
    <3> HIDE DEF over
    <3> QED BY <2>4, <3>1
  <2>9. Multiplier(s) = [num |-> MinMultiplier * (t * TargetNum)
                                 + over * (MaxMultiplier - MinMultiplier),
                         den |-> t * TargetNum]
    BY <1>6 DEF Multiplier, f, t
  <2>10. MinMultiplier * (t * TargetNum) + over * (MaxMultiplier - MinMultiplier) \in Nat
    <3> HIDE DEF over
    <3> QED BY <2>7, <2>8
  <2> HIDE DEF over
  <2> QED BY <1>3, <2>6, <2>9, <2>10 DEF Multipliers, f, t
<1> QED BY <1>5, <1>6
\* A product grows with its factor.
LEMMA Product ==
    ASSUME NEW a \in Nat, NEW b \in Nat, NEW d \in Nat, a <= b
    PROVE  a * d <= b * d
<1>1. b * d = a * d + (b - a) * d
  OBVIOUS
<1>2. (b - a) * d \in Nat /\ a * d \in Nat
  <2>1. b - a \in Nat
    OBVIOUS
  <2> QED BY <2>1
<1> QED BY <1>1, <1>2

\* "It only increases backoff (never below the fallback)", and never by more than
\* max_multiplier: the clamps of the code are there for the rounding only.
THEOREM MultiplierInRange ==
    ASSUME NEW S, NEW s \in Seq(S)
    PROVE  /\ MinMultiplier * Multiplier(s).den <= Multiplier(s).num
           /\ Multiplier(s).num <= MaxMultiplier * Multiplier(s).den
<1> DEFINE f == Failures(s)
           t == Len(s)
<1>1. t \in Nat /\ f \in Nat /\ f <= t
  BY LenProperties, MultiplierType
<1>2. /\ TargetNum \in Nat /\ TargetNum >= 1 /\ TargetDen \in Nat /\ TargetNum <= TargetDen
      /\ MinMultiplier \in Nat /\ MaxMultiplier \in Nat /\ MinMultiplier <= MaxMultiplier
  BY AdaptiveAssumption
<1> HIDE DEF f, t
<1>3. CASE f * TargetDen <= (TargetDen - TargetNum) * t
  <2>1. Multiplier(s) = Baseline
    BY <1>3 DEF Multiplier, f, t
  <2> QED BY <1>2, <2>1 DEF Baseline
<1>4. CASE ~(f * TargetDen <= (TargetDen - TargetNum) * t)
  <2> DEFINE over == f * TargetDen - (TargetDen - TargetNum) * t
             den == t * TargetNum
             slope == MaxMultiplier - MinMultiplier
  <2>1. /\ f * TargetDen \in Nat /\ t * TargetDen \in Nat /\ den \in Nat
        /\ (TargetDen - TargetNum) * t = t * TargetDen - den
    BY <1>1, <1>2
  <2>2. f * TargetDen <= t * TargetDen
    BY <1>1, <1>2, Product
  <2>3. over \in Nat /\ over <= den
    <3> DEFINE a == f * TargetDen
               b == t * TargetDen
               x == (TargetDen - TargetNum) * t
    <3>1. a \in Nat /\ b \in Nat /\ den \in Nat /\ x = b - den /\ a <= b /\ ~(a <= x)
      BY <1>4, <2>1, <2>2
    <3>2. over = a - x
      OBVIOUS
    <3> HIDE DEF a, b, x, den, over
    <3> QED BY <3>1, <3>2
  <2>4. slope \in Nat
    BY <1>2
  <2>5. Multiplier(s).num = MinMultiplier * den + over * slope /\ Multiplier(s).den = den
    BY <1>4 DEF Multiplier, f, t
  <2>6. den \in Nat
    BY <2>1
  <2> HIDE DEF over, den
  <2>7. over * slope \in Nat /\ MinMultiplier * den \in Nat
    <3> HIDE DEF slope
    <3> QED BY <1>2, <2>3, <2>4, <2>6
  <2>8. over * slope <= den * slope
    <3> HIDE DEF slope
    <3> QED BY <2>3, <2>4, <2>6, Product
  <2>9. MinMultiplier * den + den * slope = MaxMultiplier * den
    BY <1>2, <2>6
  <2>10. den * slope \in Nat
    <3> HIDE DEF slope
    <3> QED BY <2>4, <2>6
  <2> HIDE DEF slope
  <2> QED BY <2>5, <2>7, <2>8, <2>9, <2>10
<1> QED BY <1>3, <1>4

-----------------------------------------------------------------------------------
(* Types.                                                                          *)

\* Every variable keeps its type.
THEOREM AdaptiveTypeCorrect == Spec => []TypeOK
<1> USE DEF Events, Outcomes
<1>1. Baseline \in Multipliers
  BY AdaptiveAssumption DEF Baseline, Multipliers
<1>2. Init => TypeOK
  BY <1>1, AdaptiveAssumption DEF Init, TypeOK, Steps
<1>3. TypeOK /\ [Next]_vars => TypeOK'
  <2> SUFFICES ASSUME TypeOK, [Next]_vars PROVE TypeOK'
    OBVIOUS
  <2>1. now \in Nat
    BY AdaptiveAssumption DEF TypeOK
  <2>2. CASE Tick
    BY <2>2, AdaptiveAssumption DEF TypeOK, Tick
  <2>3. ASSUME NEW c \in Callers, Fail(c) \/ FailElsewhere(c) \/ Succeed(c) \/ Leave(c) \/ Ask(c)
        PROVE  TypeOK'
    <3>1. UNCHANGED <<now, events, recorded>>
      BY <2>3 DEF Fail, FailElsewhere, Succeed, Leave, Ask
    <3>2. step' \in [Callers -> Steps]
      BY <2>3 DEF TypeOK, Fail, FailElsewhere, Succeed, Leave, Ask, Move, Attempt, Steps
    <3>3. reading' \in [Callers -> Nat]
      <4>1. \/ reading' = reading
            \/ reading' = [reading EXCEPT ![c] = 0]
            \/ reading' = [reading EXCEPT ![c] = now]
        BY <2>3 DEF Fail, FailElsewhere, Succeed, Leave, Ask, ReadClock, Locked
      <4>2. reading \in [Callers -> Nat]
        BY DEF TypeOK
      <4> QED BY <2>1, <4>1, <4>2
    <3>4. chosen' \in [Callers -> BOOLEAN]
      BY <2>3 DEF TypeOK, Fail, FailElsewhere, Succeed, Leave, Ask
    <3>5. answer' \in [Callers -> Multipliers]
      BY <1>1, <2>3
      DEF TypeOK, Fail, FailElsewhere, Succeed, Leave, Ask, ReadClock, Attempt
    <3> QED BY <3>1, <3>2, <3>3, <3>4, <3>5 DEF TypeOK
  <2>4. ASSUME NEW c \in Callers, Record(c) PROVE TypeOK'
    <3> DEFINE ok == step[c] = "succeeding"
               entry == [at |-> reading[c], ok |-> ok]
    <3>1. reading[c] \in Nat /\ ok \in BOOLEAN
      BY DEF TypeOK
    <3>2. entry \in Events
      BY <3>1
    <3>3. Append(events, entry) \in Seq(Events)
      BY <3>2, AppendProperties DEF TypeOK
    <3>4. events' \in Seq(Events)
      BY <2>4, <3>1, <3>3, PrunedTail DEF Record
    <3>5. recorded' \in Seq(Outcomes)
      <4>1. [at |-> now, ok |-> ok, by |-> c] \in Outcomes
        BY <2>1, <3>1
      <4> QED BY <2>4, <4>1, AppendProperties DEF TypeOK, Record
    <3>6. /\ step' \in [Callers -> Steps] /\ chosen' \in [Callers -> BOOLEAN]
          /\ reading' \in [Callers -> Nat] /\ UNCHANGED <<now, answer>>
      BY <2>4 DEF TypeOK, Record, Steps, Locked
    <3> QED BY <3>4, <3>5, <3>6 DEF TypeOK
  <2>5. ASSUME NEW c \in Callers, Answer(c) PROVE TypeOK'
    <3>1. events \in Seq(Events) /\ reading[c] \in Nat
      BY DEF TypeOK
    <3>2. Pruned(events, reading[c]) \in Seq(Events)
      BY <3>1, PrunedTail
    <3>3. Multiplier(Pruned(events, reading[c])) \in Multipliers
      BY <3>2, MultiplierType
    <3> QED BY <2>5, <3>2, <3>3 DEF TypeOK, Answer, Attempt, Locked, Steps
  <2>6. CASE UNCHANGED vars
    BY <2>6 DEF TypeOK, vars
  <2> QED BY <2>2, <2>3, <2>4, <2>5, <2>6 DEF Next
<1> QED BY <1>2, <1>3, PTL DEF Spec

-----------------------------------------------------------------------------------
(* The window is the dated end of the history.                                     *)

\* A caller that waits for the lock read the clock no earlier than MaxStall ago.
LEMMA Waiting ==
    ASSUME TypeOK, Bounds, NEW c \in Callers, step[c] \in Waits
    PROVE  /\ reading[c] \in Nat /\ now \in Nat
           /\ reading[c] <= now /\ now <= reading[c] + MaxStall
<1>1. reading[c] \in Nat /\ now \in Nat
  BY AdaptiveAssumption DEF TypeOK
<1> QED BY <1>1 DEF Bounds

\* Pruning at a reading that is not from the future keeps a dated tail.
LEMMA PrunedDated ==
    ASSUME NEW s \in Seq(Events), NEW r \in Seq(Outcomes), NEW at \in Nat, NEW t \in Nat,
           at <= t, DatedTail(s, r, t)
    PROVE  DatedTail(Pruned(s, at), r, t)
<1> DEFINE kept == Pruned(s, at)
           before == Len(r) - Len(s)
           gone == Len(r) - Len(kept)
<1>1. /\ Len(r) \in Nat /\ Len(s) \in Nat /\ Len(kept) \in Nat /\ Len(kept) <= Len(s)
      /\ \A i \in 1..Len(kept) : kept[i] = s[Len(s) - Len(kept) + i]
      /\ \A i \in 1..(Len(s) - Len(kept)) : s[i].at <= at - WindowS
  BY PrunedTail, LenProperties
<1>2. /\ before >= 0
      /\ \A i \in 1..Len(s) : /\ s[i].ok = r[before + i].ok
                               /\ s[i].at <= r[before + i].at
                               /\ r[before + i].at <= s[i].at + MaxStall
      /\ \A j \in 1..before : r[j].at <= t - WindowS + MaxStall
  BY DEF DatedTail
<1>3. WindowS \in Nat /\ MaxStall \in Nat
  BY AdaptiveAssumption
<1> HIDE DEF kept
<1>4. gone >= 0
  BY <1>1, <1>2
<1>5. ASSUME NEW i \in 1..Len(kept)
      PROVE  /\ kept[i].ok = r[gone + i].ok
             /\ kept[i].at <= r[gone + i].at
             /\ r[gone + i].at <= kept[i].at + MaxStall
  <2> DEFINE k == Len(s) - Len(kept) + i
  <2>1. k \in 1..Len(s) /\ before + k = gone + i
    BY <1>1
  <2>2. kept[i] = s[k]
    BY <1>1
  <2> HIDE DEF k, before, gone
  <2> QED BY <1>2, <2>1, <2>2
<1>6. ASSUME NEW j \in 1..gone PROVE r[j].at <= t - WindowS + MaxStall
  <2>1. CASE j <= before
    <3>1. j \in 1..before
      BY <2>1, <1>1
    <3> QED BY <3>1, <1>2
  <2>2. CASE ~(j <= before)
    <3> DEFINE i == j - before
    <3>1. i \in 1..(Len(s) - Len(kept)) /\ i \in 1..Len(s) /\ before + i = j /\ j \in 1..Len(r)
      BY <2>2, <1>1
    <3>2. s[i] \in Events /\ r[j] \in Outcomes
      BY <3>1, ElementOfSeq
    <3>3. s[i].at \in Nat /\ r[j].at \in Nat
      BY <3>2 DEF Events, Outcomes
    <3>4. r[before + i].at <= s[i].at + MaxStall /\ s[i].at <= at - WindowS
      <4> HIDE DEF i, before
      <4> QED BY <1>1, <1>2, <3>1
    <3>5. r[j].at <= s[i].at + MaxStall
      BY <3>1, <3>4
    <3> HIDE DEF i, before, gone
    <3> QED BY <1>3, <3>3, <3>4, <3>5
  <2> QED BY <2>1, <2>2
<1> QED BY <1>4, <1>5, <1>6 DEF DatedTail, kept

\* So does an outcome that enters both, dated at most MaxStall early.
LEMMA AppendedDated ==
    ASSUME NEW s \in Seq(Events), NEW r \in Seq(Outcomes), NEW at \in Nat, NEW t \in Nat,
           at <= t, t <= at + MaxStall, DatedTail(s, r, t),
           NEW e \in Events, e.at = at, NEW o \in Outcomes, o.at = t, o.ok = e.ok
    PROVE  DatedTail(Append(s, e), Append(r, o), t)
<1> DEFINE gone == Len(r) - Len(s)
<1>1. Len(r) \in Nat /\ Len(s) \in Nat /\ gone >= 0
  BY LenProperties DEF DatedTail
<1>2. /\ Len(Append(s, e)) = Len(s) + 1 /\ Len(Append(r, o)) = Len(r) + 1
      /\ Append(s, e)[Len(s) + 1] = e /\ Append(r, o)[Len(r) + 1] = o
      /\ \A i \in 1..Len(s) : Append(s, e)[i] = s[i]
      /\ \A i \in 1..Len(r) : Append(r, o)[i] = r[i]
  BY AppendProperties
<1>3. Len(Append(r, o)) - Len(Append(s, e)) = gone
  BY <1>1, <1>2
<1>4. ASSUME NEW i \in 1..(Len(s) + 1)
      PROVE  /\ Append(s, e)[i].ok = Append(r, o)[gone + i].ok
             /\ Append(s, e)[i].at <= Append(r, o)[gone + i].at
             /\ Append(r, o)[gone + i].at <= Append(s, e)[i].at + MaxStall
  <2>1. CASE i <= Len(s)
    <3>1. i \in 1..Len(s) /\ gone + i \in 1..Len(r)
      BY <1>1, <2>1
    <3>2. Append(s, e)[i] = s[i] /\ Append(r, o)[gone + i] = r[gone + i]
      BY <1>2, <3>1
    <3> QED BY <3>1, <3>2 DEF DatedTail
  <2>2. CASE ~(i <= Len(s))
    <3>1. i = Len(s) + 1 /\ gone + i = Len(r) + 1
      BY <1>1, <2>2
    <3>2. Append(s, e)[i] = e /\ Append(r, o)[gone + i] = o
      BY <1>2, <3>1
    <3> QED BY <3>2
  <2> QED BY <2>1, <2>2
<1>5. ASSUME NEW j \in 1..gone PROVE Append(r, o)[j].at <= t - WindowS + MaxStall
  <2>1. j \in 1..Len(r)
    BY <1>1
  <2>2. Append(r, o)[j] = r[j]
    BY <1>2, <2>1
  <2> QED BY <2>2 DEF DatedTail
<1> HIDE DEF gone
<1> QED BY <1>1, <1>2, <1>3, <1>4, <1>5 DEF DatedTail

\* What enters the history is dated now.
LEMMA RecordBounds ==
    ASSUME TypeOK, Bounds, NEW c \in Callers, Record(c)
    PROVE  Bounds'
<1> DEFINE o == [at |-> now, ok |-> step[c] = "succeeding", by |-> c]
<1>1. recorded \in Seq(Outcomes) /\ Len(recorded) \in Nat /\ now \in Nat
  BY AdaptiveAssumption, LenProperties DEF TypeOK
<1>2. o \in Outcomes
  BY <1>1 DEF Outcomes
<1>3. recorded' = Append(recorded, o) /\ now' = now
  BY DEF Record
<1>4. /\ Len(recorded') = Len(recorded) + 1
      /\ recorded'[Len(recorded) + 1] = o
      /\ \A i \in 1..Len(recorded) : recorded'[i] = recorded[i]
  BY <1>1, <1>2, <1>3, AppendProperties
<1>5. ASSUME NEW j \in 1..(Len(recorded) + 1) PROVE recorded'[j].at <= now
  <2>1. CASE j <= Len(recorded)
    <3>1. j \in 1..Len(recorded)
      BY <1>1, <2>1
    <3> QED BY <1>4, <3>1 DEF Bounds
  <2>2. CASE ~(j <= Len(recorded))
    <3>1. recorded'[j] = o
      BY <1>1, <1>4, <2>2
    <3> QED BY <1>1, <3>1
  <2> QED BY <2>1, <2>2
<1>6. ASSUME NEW i \in 1..(Len(recorded) + 1), NEW j \in 1..(Len(recorded) + 1), i <= j
      PROVE  recorded'[i].at <= recorded'[j].at
  <2>1. CASE j <= Len(recorded)
    <3>1. i \in 1..Len(recorded) /\ j \in 1..Len(recorded)
      BY <1>1, <1>6, <2>1
    <3>2. recorded'[i] = recorded[i] /\ recorded'[j] = recorded[j]
      BY <1>4, <3>1
    <3> QED BY <1>6, <3>1, <3>2 DEF Bounds
  <2>2. CASE ~(j <= Len(recorded))
    <3>1. recorded'[j].at = now
      BY <1>1, <1>4, <2>2
    <3> QED BY <1>5, <3>1
  <2> QED BY <2>1, <2>2
<1>7. ASSUME NEW d \in Callers, step'[d] \in Waits
      PROVE  reading'[d] <= now' /\ now' <= reading'[d] + MaxStall
  <2>1. d # c
    BY <1>7 DEF Record, TypeOK, Waits
  <2>2. step'[d] = step[d] /\ reading'[d] = reading[d]
    BY <2>1 DEF Record, Locked, TypeOK
  <2> QED BY <1>3, <1>7, <2>2 DEF Bounds
<1> QED BY <1>3, <1>4, <1>5, <1>6, <1>7 DEF Bounds

\* The deque is the dated end of the history, whoever waits for the lock.
THEOREM WindowHolds == Spec => [](Window /\ Bounds)
<1>1. Init => Window /\ Bounds
  BY AdaptiveAssumption DEF Init, Window, Bounds, DatedTail, Waits
<1>2. TypeOK /\ Window /\ Bounds /\ [Next]_vars => (Window /\ Bounds)'
  <2> SUFFICES ASSUME TypeOK, Window, Bounds, [Next]_vars PROVE Window' /\ Bounds'
    OBVIOUS
  <2>0. /\ now \in Nat /\ events \in Seq(Events) /\ recorded \in Seq(Outcomes)
        /\ Len(events) \in Nat /\ Len(recorded) \in Nat
        /\ MaxStall \in Nat /\ WindowS \in Nat
    BY AdaptiveAssumption, LenProperties DEF TypeOK
  <2>1. CASE Tick
    <3>1. now' = now + 1 /\ UNCHANGED <<events, recorded, step, reading>>
      BY <2>1 DEF Tick
    <3>2. \A j \in 1..Len(recorded) : recorded[j].at \in Nat
      <4> TAKE j \in 1..Len(recorded)
      <4>1. recorded[j] \in Outcomes
        BY <2>0, ElementOfSeq
      <4> QED BY <4>1 DEF Outcomes
    <3>3. Window'
      <4>1. ASSUME NEW j \in 1..(Len(recorded) - Len(events))
            PROVE  recorded[j].at <= now' - WindowS + MaxStall
        <5>1. j \in 1..Len(recorded)
          BY <2>0
        <5>2. recorded[j].at <= now - WindowS + MaxStall
          BY <4>1 DEF Window, DatedTail
        <5> QED BY <2>0, <3>1, <3>2, <5>1, <5>2
      <4> QED BY <3>1, <4>1 DEF Window, DatedTail
    <3>4. \A j \in 1..Len(recorded) : recorded[j].at <= now'
      BY <2>0, <3>1, <3>2 DEF Bounds
    <3>5. ASSUME NEW d \in Callers, step[d] \in Waits
          PROVE  reading[d] <= now' /\ now' <= reading[d] + MaxStall
      <4>1. reading[d] \in Nat /\ reading[d] <= now /\ now < reading[d] + MaxStall
        BY <2>1, <3>5 DEF Tick, Bounds, TypeOK
      <4> QED BY <2>0, <3>1, <4>1
    <3> QED BY <3>1, <3>3, <3>4, <3>5 DEF Bounds
  <2>2. ASSUME NEW c \in Callers, Fail(c) \/ FailElsewhere(c) \/ Succeed(c) \/ Leave(c) \/ Ask(c)
        PROVE  Window' /\ Bounds'
    <3>1. UNCHANGED <<now, events, recorded>>
      BY <2>2 DEF Fail, FailElsewhere, Succeed, Leave, Ask
    <3>2. ASSUME NEW d \in Callers, step'[d] \in Waits
          PROVE  reading'[d] <= now /\ now <= reading'[d] + MaxStall
      <4>1. CASE d # c
        <5>1. step'[d] = step[d] /\ reading'[d] = reading[d]
          BY <2>2, <4>1
          DEF TypeOK, Fail, FailElsewhere, Succeed, Leave, Ask, Move, Attempt, ReadClock, Locked
        <5> QED BY <3>2, <5>1 DEF Bounds
      <4>2. CASE d = c
        <5>1. Fail(c) \/ Succeed(c) \/ Ask(c)
          BY <2>2, <3>2, <4>2 DEF TypeOK, FailElsewhere, Leave, Attempt, Waits
        <5>2. reading'[c] = now
          BY <5>1 DEF TypeOK, Fail, Succeed, Ask, ReadClock
        <5> QED BY <2>0, <4>2, <5>2
      <4> QED BY <4>1, <4>2
    <3> QED BY <3>1, <3>2 DEF Window, Bounds
  <2>3. ASSUME NEW c \in Callers, Record(c) PROVE Window' /\ Bounds'
    <3> DEFINE e == [at |-> reading[c], ok |-> step[c] = "succeeding"]
               o == [at |-> now, ok |-> step[c] = "succeeding", by |-> c]
    <3>1. reading[c] \in Nat /\ reading[c] <= now /\ now <= reading[c] + MaxStall
      <4>1. step[c] \in Waits
        BY <2>3 DEF Record, Waits
      <4> QED BY <4>1, Waiting
    <3>2. e \in Events /\ o \in Outcomes
      BY <2>0, <3>1 DEF Events, Outcomes
    <3>3. e.at = reading[c] /\ o.at = now /\ o.ok = e.ok
      OBVIOUS
    <3>4. events' = Pruned(Append(events, e), reading[c]) /\ recorded' = Append(recorded, o)
          /\ now' = now
      BY <2>3 DEF Record
    <3>5. Append(events, e) \in Seq(Events) /\ Append(recorded, o) \in Seq(Outcomes)
      BY <2>0, <3>2, AppendProperties
    <3> HIDE DEF e, o
    <3>6. DatedTail(Append(events, e), Append(recorded, o), now)
      BY <2>0, <3>1, <3>2, <3>3, AppendedDated DEF Window
    <3>7. DatedTail(Pruned(Append(events, e), reading[c]), Append(recorded, o), now)
      BY <2>0, <3>1, <3>5, <3>6, PrunedDated
    <3> QED BY <2>3, <3>4, <3>7, RecordBounds DEF Window
  <2>4. ASSUME NEW c \in Callers, Answer(c) PROVE Window' /\ Bounds'
    <3>1. reading[c] \in Nat /\ reading[c] <= now
      <4>1. step[c] \in Waits
        BY <2>4 DEF Answer, Waits
      <4> QED BY <4>1, Waiting
    <3>2. events' = Pruned(events, reading[c]) /\ UNCHANGED <<now, recorded>>
      BY <2>4 DEF Answer
    <3>3. Window'
      BY <2>0, <3>1, <3>2, PrunedDated DEF Window
    <3>4. ASSUME NEW d \in Callers, step'[d] \in Waits
          PROVE  reading'[d] <= now /\ now <= reading'[d] + MaxStall
      <4>1. d # c
        BY <2>4, <3>4 DEF Answer, Attempt, TypeOK, Waits
      <4>2. step'[d] = step[d] /\ reading'[d] = reading[d]
        BY <2>4, <4>1 DEF Answer, Attempt, Locked, TypeOK
      <4> QED BY <3>4, <4>2 DEF Bounds
    <3> QED BY <3>2, <3>3, <3>4 DEF Bounds
  <2>5. CASE UNCHANGED vars
    BY <2>5 DEF vars, Window, Bounds
  <2> QED BY <2>1, <2>2, <2>3, <2>4, <2>5 DEF Next
<1> QED BY <1>1, <1>2, AdaptiveTypeCorrect, PTL DEF Spec

-----------------------------------------------------------------------------------
(* What the window is for.                                                         *)

\* Two windows with the same outcomes have the same multiplier.
LEMMA SameOutcomes ==
    ASSUME NEW s, NEW r, Len(s) = Len(r), \A i \in 1..Len(s) : s[i].ok = r[i].ok
    PROVE  Multiplier(s) = Multiplier(r)
<1>1. {i \in 1..Len(s) : ~s[i].ok} = {i \in 1..Len(r) : ~r[i].ok}
  OBVIOUS
<1>2. Failures(s) = Failures(r)
  BY <1>1 DEF Failures
<1> QED BY <1>2 DEF Multiplier

\* The factor a caller is given is that of the outcomes of the last window_s, up to
\* the longest wait for the lock, in whatever order they got it.
THEOREM MultiplierOfWindowHolds == Spec => MultiplierOfWindow
<1>1. TypeOK /\ Window /\ Bounds /\ [Next]_vars =>
        \A c \in Callers : Answered(c) => OfRecentPast(answer'[c])
  <2> SUFFICES ASSUME TypeOK, Window, Bounds, [Next]_vars, NEW c \in Callers, Answered(c)
               PROVE  OfRecentPast(answer'[c])
    OBVIOUS
  <2> DEFINE kept == Pruned(events, reading[c])
             n == Len(kept)
             gone == Len(recorded) - n
  <2>1. Answer(c)
    <3>1. step[c] = "asking" /\ step'[c] = "running" /\ chosen'[c]
      BY DEF Answered
    <3>2. ~Tick /\ ~UNCHANGED vars
      BY <3>1 DEF Tick, vars
    <3>3. ASSUME NEW d \in Callers, \/ Fail(d) \/ FailElsewhere(d) \/ Succeed(d)
                                    \/ Leave(d) \/ Record(d) \/ Ask(d)
          PROVE  FALSE
      <4>1. CASE d = c
        BY <3>1, <3>3, <4>1
        DEF Fail, FailElsewhere, Succeed, Leave, Record, Ask, Move, TypeOK
      <4>2. CASE d # c
        BY <3>1, <3>3, <4>2
        DEF Fail, FailElsewhere, Succeed, Leave, Record, Ask, Move, Attempt, TypeOK
      <4> QED BY <4>1, <4>2
    <3>4. ASSUME NEW d \in Callers, Answer(d) PROVE d = c
      BY <3>1, <3>4 DEF Answer, Attempt, TypeOK
    <3> QED BY <3>2, <3>3, <3>4 DEF Next
  <2>2. /\ now \in Nat /\ events \in Seq(Events) /\ recorded \in Seq(Outcomes)
        /\ Len(recorded) \in Nat /\ MaxStall \in Nat /\ WindowS \in Nat
    BY AdaptiveAssumption, LenProperties DEF TypeOK
  <2>3. reading[c] \in Nat /\ reading[c] <= now /\ now <= reading[c] + MaxStall
    <3>1. step[c] \in Waits
      BY <2>1 DEF Answer, Waits
    <3> QED BY <3>1, Waiting
  <2>4. answer'[c] = Multiplier(kept)
    BY <2>1 DEF Answer, Attempt, TypeOK
  <2>5. /\ n \in Nat /\ kept \in Seq(Events)
        /\ n > 0 => kept[1].at > reading[c] - WindowS
    BY <2>2, <2>3, PrunedTail
  <2>6. DatedTail(kept, recorded, now)
    BY <2>2, <2>3, PrunedDated DEF Window
  <2> HIDE DEF kept
  <2>7. /\ gone >= 0
        /\ \A i \in 1..n : /\ kept[i].ok = recorded[gone + i].ok
                            /\ kept[i].at <= recorded[gone + i].at
        /\ \A j \in 1..gone : recorded[j].at <= now - WindowS + MaxStall
    BY <2>6 DEF DatedTail
  <2>8. n \in 0..Len(recorded)
    BY <2>2, <2>5, <2>7
  <2>9. /\ Len(Newest(recorded, n)) = n
        /\ \A i \in 1..n : Newest(recorded, n)[i] = recorded[gone + i]
    BY <2>2, <2>5, <2>8, NewestOf
  <2>10. Multiplier(kept) = Multiplier(Newest(recorded, n))
    BY <2>7, <2>9, SameOutcomes
  <2>11. ASSUME NEW j \in (gone + 1)..Len(recorded)
         PROVE  recorded[j].at > now - WindowS - MaxStall
    <3>1. 1 \in 1..n /\ gone + 1 \in 1..Len(recorded) /\ j \in 1..Len(recorded) /\ gone + 1 <= j
      BY <2>2, <2>5, <2>7
    <3>2. kept[1] \in Events /\ recorded[gone + 1] \in Outcomes /\ recorded[j] \in Outcomes
      BY <2>2, <2>5, <3>1, ElementOfSeq
    <3>3. /\ kept[1].at \in Nat /\ recorded[gone + 1].at \in Nat /\ recorded[j].at \in Nat
      BY <3>2 DEF Events, Outcomes
    <3>4. kept[1].at > reading[c] - WindowS
      BY <2>5, <3>1
    <3>5. kept[1].at <= recorded[gone + 1].at /\ recorded[gone + 1].at <= recorded[j].at
      BY <2>7, <3>1 DEF Bounds
    <3>6. \A first, one, last, read \in Nat :
            /\ first > read - WindowS /\ first <= one /\ one <= last
            /\ now <= read + MaxStall
            => last > now - WindowS - MaxStall
      BY <2>2
    <3> HIDE DEF gone
    <3> QED BY <2>3, <3>3, <3>4, <3>5, <3>6
  <2> QED BY <2>4, <2>7, <2>8, <2>10, <2>11 DEF OfRecentPast
<1>2. TypeOK /\ Window /\ Bounds /\ [Next]_vars =>
        [\A c \in Callers : Answered(c) => OfRecentPast(answer'[c])]_vars
  BY <1>1
<1> QED BY <1>2, AdaptiveTypeCorrect, WindowHolds, PTL DEF Spec, MultiplierOfWindow

\* The strategy hears of a success only from an execution that it heard fail.
THEOREM SuccessEndsFailuresHolds == Spec => []SuccessEndsFailures
<1>1. Init => SuccessEndsFailures /\ ChosenHeard
  BY DEF Init, SuccessEndsFailures, ChosenHeard
<1>2. TypeOK /\ SuccessEndsFailures /\ ChosenHeard /\ [Next]_vars
      => (SuccessEndsFailures /\ ChosenHeard)'
  <2> SUFFICES ASSUME TypeOK, SuccessEndsFailures, ChosenHeard, [Next]_vars
               PROVE  SuccessEndsFailures' /\ ChosenHeard'
    OBVIOUS
  <2>1. CASE UNCHANGED recorded
    <3>1. SuccessEndsFailures'
      BY <2>1 DEF SuccessEndsFailures, HeardFail
    <3>2. \A d \in Callers : HeardFail(recorded, d, Len(recorded)) => HeardFail(recorded', d, Len(recorded'))
      BY <2>1 DEF HeardFail
    <3>3. CASE UNCHANGED <<step, chosen>>
      BY <3>1, <3>2, <3>3 DEF ChosenHeard
    <3>4. ASSUME NEW c \in Callers, \/ Fail(c) \/ FailElsewhere(c) \/ Succeed(c)
                                    \/ Leave(c) \/ Ask(c) \/ Answer(c)
          PROVE  ChosenHeard'
      <4>1. /\ \A d \in Callers \ {c} : step'[d] = step[d] /\ chosen'[d] = chosen[d]
            /\ step'[c] # "running" => chosen'[c]
            /\ chosen'[c] /\ step'[c] # "failing" => chosen[c] /\ step[c] # "failing"
        <5>1. \A d \in Callers \ {c} : step'[d] = step[d] /\ chosen'[d] = chosen[d]
          BY <3>4 DEF TypeOK, Fail, FailElsewhere, Succeed, Leave, Ask, Answer, Move, Attempt
        <5>2. CASE Fail(c) \/ FailElsewhere(c) \/ Leave(c)
          BY <5>1, <5>2 DEF TypeOK, Fail, FailElsewhere, Leave, Move, Attempt
        <5>3. CASE Succeed(c) \/ Ask(c) \/ Answer(c)
          BY <5>1, <5>3 DEF TypeOK, ChosenHeard, Succeed, Ask, Answer, Move, Attempt
        <5> QED BY <3>4, <5>2, <5>3
      <4> QED BY <3>2, <4>1 DEF ChosenHeard
    <3>5. ~(\E c \in Callers : Record(c))
      <4> SUFFICES ASSUME NEW c \in Callers, Record(c) PROVE FALSE
        OBVIOUS
      <4>1. recorded' = Append(recorded, [at |-> now, ok |-> step[c] = "succeeding", by |-> c])
        BY DEF Record
      <4>2. recorded \in Seq(Outcomes) /\ now \in Nat
        BY AdaptiveAssumption DEF TypeOK
      <4>3. [at |-> now, ok |-> step[c] = "succeeding", by |-> c] \in Outcomes
        BY <4>2 DEF Outcomes
      <4>4. Len(recorded') = Len(recorded) + 1 /\ Len(recorded) \in Nat
        BY <4>1, <4>2, <4>3, AppendProperties, LenProperties
      <4> QED BY <2>1, <4>4
    <3>6. CASE Tick \/ UNCHANGED vars
      BY <3>3, <3>6 DEF Tick, vars
    <3> QED BY <3>1, <3>4, <3>5, <3>6 DEF Next
  <2>2. ASSUME NEW c \in Callers, Record(c)
        PROVE  SuccessEndsFailures' /\ ChosenHeard'
    <3> DEFINE ok == step[c] = "succeeding"
               o == [at |-> now, ok |-> ok, by |-> c]
               n == Len(recorded)
    <3>1. recorded \in Seq(Outcomes) /\ n \in Nat /\ now \in Nat
      BY AdaptiveAssumption, LenProperties DEF TypeOK
    <3>2. o \in Outcomes
      BY <3>1 DEF Outcomes
    <3>3. recorded' = Append(recorded, o)
      BY <2>2 DEF Record
    <3>4. /\ Len(recorded') = n + 1 /\ recorded'[n + 1] = o
          /\ \A i \in 1..n : recorded'[i] = recorded[i]
      BY <3>1, <3>2, <3>3, AppendProperties
    <3>5. o.ok = ok /\ o.by = c
      OBVIOUS
    <3> HIDE DEF o, n
    <3>6. ASSUME NEW d \in Callers, NEW i \in Nat, i <= n, HeardFail(recorded, d, i)
          PROVE  HeardFail(recorded', d, i)
      <4>1. PICK j \in 1..i : /\ recorded[j].by = d /\ ~recorded[j].ok
                              /\ \A k \in j..i : recorded[k].by = d => ~recorded[k].ok
        BY <3>6 DEF HeardFail
      <4>2. \A k \in j..i : k \in 1..n
        BY <3>1, <3>6
      <4>3. \A k \in j..i : recorded'[k] = recorded[k]
        BY <3>4, <4>2
      <4>4. j \in j..i
        BY <3>6
      <4> QED BY <4>1, <4>3, <4>4 DEF HeardFail
    <3>7. chosen[c] /\ (ok => HeardFail(recorded, c, n))
      BY <2>2 DEF Record, ChosenHeard, n
    <3>8. SuccessEndsFailures'
      <4> SUFFICES ASSUME NEW i \in 1..(n + 1), recorded'[i].ok
                   PROVE  HeardFail(recorded', recorded'[i].by, i - 1)
        BY <3>4 DEF SuccessEndsFailures
      <4>1. CASE i <= n
        <5>1. i \in 1..n /\ i - 1 \in Nat /\ i - 1 <= n
          BY <3>1, <4>1
        <5>2. recorded'[i] = recorded[i] /\ recorded[i] \in Outcomes
          BY <3>1, <3>4, <5>1, ElementOfSeq DEF n
        <5>3. recorded[i].by \in Callers /\ HeardFail(recorded, recorded[i].by, i - 1)
          BY <5>1, <5>2 DEF SuccessEndsFailures, Outcomes, n
        <5>4. HeardFail(recorded, recorded[i].by, i - 1) => \E j \in 1..(i - 1) :
                    /\ recorded'[j].by = recorded[i].by /\ ~recorded'[j].ok
                    /\ \A k \in j..(i - 1) : recorded'[k].by = recorded[i].by => ~recorded'[k].ok
          <6>1. \A k \in 1..(i - 1) : recorded'[k] = recorded[k]
            BY <3>1, <3>4, <5>1
          <6>2. \A j \in 1..(i - 1) : \A k \in j..(i - 1) : k \in 1..(i - 1)
            BY <5>1
          <6> QED BY <6>1, <6>2 DEF HeardFail
        <5> QED BY <5>2, <5>3, <5>4 DEF HeardFail
      <4>2. CASE ~(i <= n)
        <5>1. i = n + 1 /\ i - 1 = n
          BY <3>1, <4>2
        <5>2. recorded'[i] = o /\ ok
          BY <3>4, <3>5, <5>1
        <5>3. HeardFail(recorded', c, n)
          BY <3>1, <3>6, <3>7, <5>2
        <5> QED BY <3>5, <5>1, <5>2, <5>3 DEF HeardFail
      <4> QED BY <4>1, <4>2
    <3>9. ASSUME NEW d \in Callers, chosen'[d], step'[d] # "failing"
          PROVE  HeardFail(recorded', d, n + 1)
      <4>1. CASE d # c
        <5>1. chosen[d] /\ step[d] # "failing"
          BY <2>2, <3>9, <4>1 DEF Record, TypeOK
        <5>2. HeardFail(recorded, d, n)
          BY <5>1 DEF ChosenHeard, n
        <5>3. HeardFail(recorded', d, n)
          BY <3>1, <3>6, <5>2
        <5>4. PICK j \in 1..n : /\ recorded'[j].by = d /\ ~recorded'[j].ok
                                /\ \A k \in j..n : recorded'[k].by = d => ~recorded'[k].ok
          BY <5>3 DEF HeardFail, n
        <5>5. recorded'[n + 1].by # d
          BY <3>4, <3>5, <4>1
        <5>6. j \in 1..(n + 1) /\ \A k \in j..(n + 1) : k \in j..n \/ k = n + 1
          BY <3>1
        <5> QED BY <5>4, <5>5, <5>6 DEF HeardFail
      <4>2. CASE d = c
        <5>1. ~ok
          BY <2>2, <3>9, <4>2 DEF Record, TypeOK
        <5>2. recorded'[n + 1].by = c /\ ~recorded'[n + 1].ok
          BY <3>4, <3>5, <5>1
        <5>3. n + 1 \in 1..(n + 1) /\ \A k \in (n + 1)..(n + 1) : k = n + 1
          BY <3>1
        <5> QED BY <4>2, <5>2, <5>3 DEF HeardFail
      <4> QED BY <4>1, <4>2
    <3>10. ASSUME NEW d \in Callers, step'[d] # "running" PROVE chosen'[d]
      BY <2>2, <3>7, <3>10 DEF Record, TypeOK, ChosenHeard
    <3>11. \A d \in Callers : HeardFail(recorded', d, n + 1) => HeardFail(recorded', d, Len(recorded'))
      BY <3>4 DEF HeardFail
    <3> QED BY <3>8, <3>9, <3>10, <3>11 DEF ChosenHeard
  <2>3. CASE ~(\E c \in Callers : Record(c))
    <3>1. UNCHANGED recorded
      BY <2>3
      DEF Next, Tick, Fail, FailElsewhere, Succeed, Leave, Ask, Answer, vars
    <3> QED BY <2>1, <3>1
  <2> QED BY <2>2, <2>3
<1> QED BY <1>1, <1>2, AdaptiveTypeCorrect, PTL DEF Spec
====================================================================================
