---------------------------- MODULE CircuitWindowProofs ---------------------------
(***********************************************************************************)
(* Proofs about CircuitWindow, for any thresholds, window and lag, and whoever     *)
(* records: the buckets of a closed breaker are the dated ends of the histories    *)
(* (Buckets), so that their lengths bound what a window of real time holds.        *)
(***********************************************************************************)
EXTENDS CircuitWindow, RollingWindowProofs, FiniteSetTheorems

-----------------------------------------------------------------------------------
(* Counting in a sequence of instants.                                             *)

\* If none but the latest n instants are within the span, there are at most n.
LEMMA AtMostLatest ==
    ASSUME NEW h \in Seq(Nat), NEW n \in Nat, n <= Len(h), NEW span \in Int, now \in Nat,
           \A j \in 1..(Len(h) - n) : h[j] <= now - span
    PROVE  Within(span, h) \in Nat /\ Within(span, h) <= n
<1> DEFINE those == {i \in 1..Len(h) : h[i] > now - span}
           latest == (Len(h) - n + 1)..Len(h)
<1>1. Len(h) \in Nat /\ \A i \in 1..Len(h) : h[i] \in Nat
  BY LenProperties, ElementOfSeq
<1>2. those \subseteq latest
  <2> SUFFICES ASSUME NEW i \in 1..Len(h), h[i] > now - span PROVE i \in latest
    OBVIOUS
  <2>1. ~(i \in 1..(Len(h) - n))
    BY <1>1
  <2> QED BY <1>1, <2>1
<1>3. IsFiniteSet(latest) /\ Cardinality(latest) = n
  BY <1>1, FS_Interval
<1> HIDE DEF those, latest
<1>4. IsFiniteSet(those) /\ Cardinality(those) <= Cardinality(latest)
  BY <1>2, <1>3, FS_Subset
<1>5. Cardinality(those) \in Nat
  BY <1>4, FS_CardinalityType
<1> QED BY <1>3, <1>4, <1>5 DEF Within, those

\* If the latest n instants are all within the span, there are at least n.
LEMMA AtLeastLatest ==
    ASSUME NEW h \in Seq(Nat), NEW n \in Nat, n <= Len(h), NEW span \in Int, now \in Nat,
           \A j \in (Len(h) - n + 1)..Len(h) : h[j] > now - span
    PROVE  Within(span, h) \in Nat /\ Within(span, h) >= n
<1> DEFINE those == {i \in 1..Len(h) : h[i] > now - span}
           latest == (Len(h) - n + 1)..Len(h)
<1>1. Len(h) \in Nat
  BY LenProperties
<1>2. latest \subseteq those
  <2> SUFFICES ASSUME NEW j \in latest PROVE j \in 1..Len(h) /\ h[j] > now - span
    OBVIOUS
  <2>1. j \in 1..Len(h)
    BY <1>1
  <2> QED BY <2>1
<1>3. Cardinality(latest) = n
  BY <1>1, FS_Interval
<1>4. IsFiniteSet(those)
  <2>1. IsFiniteSet(1..Len(h)) /\ those \subseteq 1..Len(h)
    BY <1>1, FS_Interval
  <2> HIDE DEF those
  <2> QED BY <2>1, FS_Subset
<1> HIDE DEF those, latest
<1>5. Cardinality(latest) <= Cardinality(those)
  BY <1>2, <1>4, FS_Subset
<1>6. Cardinality(those) \in Nat
  BY <1>4, FS_CardinalityType
<1> QED BY <1>3, <1>5, <1>6 DEF Within, those

-----------------------------------------------------------------------------------
(* A bucket and its history.                                                       *)

\* Pruning at a reading that is not from the future keeps a dated tail.
LEMMA PruneKeepsTail ==
    ASSUME NEW w \in Seq(Nat), NEW h \in Seq(Nat), NEW at \in Nat, now \in Nat, at <= now,
           DatedTail(w, h)
    PROVE  DatedTail(Prune(w, at), h)
<1> DEFINE kept == Prune(w, at)
           before == Len(h) - Len(w)
           gone == Len(h) - Len(kept)
<1>1. WindowS \in Nat /\ MaxLag \in Nat /\ at - WindowS \in Int
  BY BreakerAssumption, WindowAssumption
<1>2. /\ kept \in Seq(Nat) /\ Len(kept) \in Nat /\ Len(kept) <= Len(w)
      /\ \A i \in 1..Len(kept) : kept[i] = w[Len(w) - Len(kept) + i]
      /\ \A i \in 1..(Len(w) - Len(kept)) : w[i] <= at - WindowS
  BY <1>1, DropExpiredTail DEF Prune
<1>3. Len(h) \in Nat /\ Len(w) \in Nat /\ \A i \in 1..Len(w) : w[i] \in Nat
      /\ \A j \in 1..Len(h) : h[j] \in Nat
  BY LenProperties, ElementOfSeq
<1>4. /\ before >= 0
      /\ \A i \in 1..Len(w) : w[i] <= h[before + i] /\ h[before + i] <= w[i] + MaxLag
      /\ \A j \in 1..before : h[j] <= now - WindowS + MaxLag
  BY DEF DatedTail
<1> HIDE DEF kept
<1>5. gone >= 0
  BY <1>2, <1>3, <1>4
<1>6. ASSUME NEW i \in 1..Len(kept)
      PROVE  kept[i] <= h[gone + i] /\ h[gone + i] <= kept[i] + MaxLag
  <2> DEFINE k == Len(w) - Len(kept) + i
  <2>1. k \in 1..Len(w) /\ before + k = gone + i
    BY <1>2, <1>3
  <2>2. kept[i] = w[k]
    BY <1>2
  <2> HIDE DEF k, before, gone
  <2> QED BY <1>4, <2>1, <2>2
<1>7. ASSUME NEW j \in 1..gone PROVE h[j] <= now - WindowS + MaxLag
  <2>1. CASE j <= before
    <3>1. j \in 1..before
      BY <1>3, <1>4, <2>1
    <3> QED BY <1>4, <3>1
  <2>2. CASE ~(j <= before)
    <3> DEFINE i == j - before
    <3>1. /\ i \in 1..(Len(w) - Len(kept)) /\ i \in 1..Len(w) /\ before + i = j
          /\ j \in 1..Len(h)
      BY <1>2, <1>3, <1>4, <2>2
    <3>2. w[i] <= at - WindowS /\ h[j] <= w[i] + MaxLag /\ w[i] \in Nat /\ h[j] \in Nat
      <4> HIDE DEF i, before
      <4> QED BY <1>2, <1>3, <1>4, <3>1
    <3> HIDE DEF i, before, gone
    <3> QED BY <1>1, <3>2, SMTT(20)
  <2> QED BY <2>1, <2>2
<1> QED BY <1>5, <1>6, <1>7 DEF DatedTail, kept

\* A failure dated at most MaxLag early enters both: the bucket stays a dated tail, the
\* history in order, and what the bucket holds is of the window and the lag.
LEMMA NotedKeepsTail ==
    ASSUME NEW w \in Seq(Nat), NEW h \in Seq(Nat), NEW at \in Nat, now \in Nat,
           at <= now, now <= at + MaxLag, DatedTail(w, h), InOrder(h)
    PROVE  LET w2 == Noted(w, at)
               h2 == Append(h, now)
           IN  /\ w2 \in Seq(Nat) /\ h2 \in Seq(Nat) /\ Len(w2) \in Nat /\ Len(w2) <= Len(h2)
               /\ DatedTail(w2, h2)
               /\ \A j \in (Len(h2) - Len(w2) + 1)..Len(h2) : h2[j] > now - (WindowS + MaxLag)
<1> DEFINE kept == Prune(w, at)
           w2 == Noted(w, at)
           h2 == Append(h, now)
           gone == Len(h) - Len(kept)
<1>1. WindowS \in Nat /\ WindowS > 0 /\ MaxLag \in Nat /\ at - WindowS \in Int
  BY BreakerAssumption, WindowAssumption
<1>2. /\ kept \in Seq(Nat) /\ Len(kept) \in Nat
      /\ Len(kept) > 0 => kept[1] > at - WindowS
  BY <1>1, DropExpiredTail DEF Prune
<1>3. /\ gone >= 0
      /\ \A i \in 1..Len(kept) : kept[i] <= h[gone + i] /\ h[gone + i] <= kept[i] + MaxLag
      /\ \A j \in 1..gone : h[j] <= now - WindowS + MaxLag
  BY PruneKeepsTail DEF DatedTail
<1>4. Len(h) \in Nat /\ \A j \in 1..Len(h) : h[j] \in Nat
  BY LenProperties, ElementOfSeq
<1> HIDE DEF kept
<1>5. /\ w2 \in Seq(Nat) /\ Len(w2) = Len(kept) + 1
      /\ \A i \in 1..Len(kept) : w2[i] = kept[i]
      /\ w2[Len(kept) + 1] = at
  BY <1>2, AppendProperties DEF Noted, kept
<1>6. /\ h2 \in Seq(Nat) /\ Len(h2) = Len(h) + 1
      /\ \A j \in 1..Len(h) : h2[j] = h[j]
      /\ h2[Len(h) + 1] = now
  BY AppendProperties
<1> HIDE DEF w2, h2
<1>7. Len(h2) - Len(w2) = gone /\ Len(w2) \in Nat /\ Len(w2) <= Len(h2)
  BY <1>2, <1>3, <1>4, <1>5, <1>6
<1>8. ASSUME NEW i \in 1..(Len(kept) + 1)
      PROVE  w2[i] <= h2[gone + i] /\ h2[gone + i] <= w2[i] + MaxLag
  <2>1. CASE i <= Len(kept)
    <3>1. i \in 1..Len(kept) /\ gone + i \in 1..Len(h)
      BY <1>2, <1>3, <1>4, <2>1
    <3>2. w2[i] = kept[i] /\ h2[gone + i] = h[gone + i]
      BY <1>5, <1>6, <3>1
    <3> QED BY <1>3, <3>1, <3>2
  <2>2. CASE ~(i <= Len(kept))
    <3>1. i \in Int /\ i = Len(kept) + 1
      BY <1>2, <2>2
    <3>2. gone + i = Len(h) + 1
      BY <1>2, <1>4, <3>1
    <3>3. w2[i] = at /\ h2[gone + i] = now
      BY <1>5, <1>6, <3>1, <3>2
    <3> QED BY <3>3
  <2> QED BY <2>1, <2>2
<1>9. ASSUME NEW j \in 1..gone PROVE h2[j] <= now - WindowS + MaxLag
  <2>1. j \in 1..Len(h)
    BY <1>2, <1>3, <1>4
  <2> QED BY <1>3, <1>6, <2>1
<1>10. ASSUME NEW j \in (gone + 1)..(Len(h) + 1) PROVE h2[j] > now - (WindowS + MaxLag)
  <2>1. CASE j = Len(h) + 1
    BY <1>1, <1>6, <2>1
  <2>2. CASE j # Len(h) + 1
    <3>0. gone \in Int /\ gone + Len(kept) = Len(h) /\ j \in Int
      BY <1>2, <1>4
    <3>1. /\ 1 \in 1..Len(kept) /\ Len(kept) > 0
          /\ gone + 1 \in 1..Len(h) /\ j \in 1..Len(h) /\ gone + 1 <= j
      <4> HIDE DEF gone
      <4> QED BY <1>2, <1>3, <1>4, <1>10, <2>2, <3>0, SMTT(20)
    <3>2. kept[1] > at - WindowS /\ kept[1] <= h[gone + 1] /\ h[gone + 1] <= h[j]
      BY <1>2, <1>3, <3>1 DEF InOrder
    <3>3. kept[1] \in Nat /\ h[gone + 1] \in Nat /\ h[j] \in Nat /\ h2[j] = h[j]
      BY <1>2, <1>4, <1>6, <3>1, ElementOfSeq
    <3>4. \A first, one, last \in Nat :
            first > at - WindowS /\ first <= one /\ one <= last => last > now - (WindowS + MaxLag)
      BY <1>1
    <3> HIDE DEF gone
    <3> QED BY <3>2, <3>3, <3>4
  <2> QED BY <2>1, <2>2
<1> HIDE DEF gone
<1>11. DatedTail(w2, h2)
  BY <1>3, <1>5, <1>7, <1>8, <1>9 DEF DatedTail
<1> QED BY <1>5, <1>6, <1>7, <1>10, <1>11 DEF w2, h2

\* What enters a history in order is dated now.
LEMMA AppendInOrder ==
    ASSUME NEW h \in Seq(Nat), now \in Nat, InOrder(h)
    PROVE  Append(h, now) \in Seq(Nat) /\ InOrder(Append(h, now))
<1> DEFINE h2 == Append(h, now)
<1>1. Len(h) \in Nat
  BY LenProperties
<1>2. /\ h2 \in Seq(Nat) /\ Len(h2) = Len(h) + 1
      /\ \A j \in 1..Len(h) : h2[j] = h[j]
      /\ h2[Len(h) + 1] = now
  BY AppendProperties
<1> HIDE DEF h2
<1>3. ASSUME NEW j \in 1..(Len(h) + 1) PROVE h2[j] <= now
  <2>1. j \in 1..Len(h) \/ j = Len(h) + 1
    BY <1>1
  <2> QED BY <1>2, <2>1 DEF InOrder
<1>4. ASSUME NEW i \in 1..(Len(h) + 1), NEW j \in 1..(Len(h) + 1), i <= j
      PROVE  h2[i] <= h2[j]
  <2>1. CASE j = Len(h) + 1
    BY <1>2, <1>3, <2>1
  <2>2. CASE j # Len(h) + 1
    <3>1. i \in 1..Len(h) /\ j \in 1..Len(h)
      BY <1>1, <1>4, <2>2
    <3> QED BY <1>2, <1>4, <3>1 DEF InOrder
  <2> QED BY <2>1, <2>2
<1> QED BY <1>2, <1>3, <1>4 DEF InOrder, h2

-----------------------------------------------------------------------------------
(* The steps.                                                                      *)

\* A critical section that records an outcome with a reading at most MaxLag old.
Records(outcome, at) ==
    /\ outcome \in Outcomes /\ at \in Nat /\ at <= now /\ now <= at + MaxLag
    /\ Record(outcome, at)
    /\ Remember(outcome)
    /\ UNCHANGED now

\* What a step is: the clock ticks, an outcome is recorded, or neither the buckets nor the
\* histories change and the breaker is not closed by it.
LEMMA NextCases ==
    ASSUME TypeOK, [Next]_vars
    PROVE  \/ Tick /\ UNCHANGED history
           \/ \E outcome, at : Records(outcome, at)
           \/ /\ UNCHANGED <<now, tally, history>>
              /\ state' = state \/ state' = "half_open"
<1>1. now \in Nat /\ MaxLag \in Nat
  BY BreakerAssumption, WindowAssumption DEF TypeOK
<1>2. ASSUME NEW c \in Callers, Allow(c)
      PROVE  UNCHANGED <<now, tally, history>> /\ (state' = state \/ state' = "half_open")
  BY <1>2 DEF Allow, AdmitRecoveryProbe, RejectOpen, AdmitNextProbe, AdmitClosed, RejectBusy,
              breakerVars, resolution, tally
<1>3. ASSUME NEW c \in Callers, Settle(c)
      PROVE  \/ \E outcome, at : Records(outcome, at)
             \/ UNCHANGED <<now, tally, history>> /\ state' = state
  <2>1. PICK outcome \in Outcomes :
           /\ Complete(c, outcome)
           /\ IF ~admission[c].completed /\ ~Superseded(c) THEN Remember(outcome)
              ELSE UNCHANGED history
    BY <1>3 DEF Settle
  <2>2. CASE ~admission[c].completed /\ ~Superseded(c)
    <3>1. Record(outcome, now) /\ Remember(outcome) /\ UNCHANGED now
      BY <2>1, <2>2 DEF Complete
    <3>2. Records(outcome, now)
      BY <1>1, <3>1 DEF Records
    <3> QED BY <3>2
  <2>3. CASE ~(~admission[c].completed /\ ~Superseded(c))
    BY <2>1, <2>3 DEF Complete, breakerVars, resolution, tally
  <2> QED BY <2>2, <2>3
<1>4. ASSUME NEW c \in Callers, Forget(c)
      PROVE  UNCHANGED <<now, tally, history>> /\ state' = state
  BY <1>4 DEF Forget, resolution, tally
<1>5. ASSUME Direct PROVE \E outcome, at : Records(outcome, at)
  <2>1. PICK outcome \in Outcomes, at \in Readings :
           Record(outcome, at) /\ Remember(outcome) /\ UNCHANGED now
    BY <1>5 DEF Direct
  <2>2. at \in Nat /\ at <= now /\ now <= at + MaxLag
    BY <1>1 DEF Readings
  <2> QED BY <2>1, <2>2 DEF Records
<1>6. CASE UNCHANGED vars
  BY <1>6 DEF vars, breakerVars, tally
<1> QED BY <1>2, <1>3, <1>4, <1>5, <1>6 DEF Next

\* The effect of recording an outcome.
LEMMA RecordsCases ==
    ASSUME TypeOK, NEW outcome, NEW at, Records(outcome, at)
    PROVE  \/ \* The breaker closes.
              /\ state = "half_open" /\ state' = "closed"
              /\ failures' = <<>> /\ classFailures' = NoClassFailures
              /\ recorded' = <<>> /\ recordedOf' = NothingOf
           \/ \* It is not, and nothing is counted.
              /\ UNCHANGED history
              /\ \/ state = "half_open" /\ state' = "open"
                 \/ state' = state /\ UNCHANGED tally
           \/ \* A failure is counted by a closed breaker, which may open.
              /\ state = "closed" /\ outcome \in Classes
              /\ recorded' = Append(recorded, now)
              /\ recordedOf' = [recordedOf EXCEPT ![outcome] = Append(@, now)]
              /\ \/ state' = "open" /\ Trips(outcome, at)
                 \/ /\ state' = "closed" /\ ~Trips(outcome, at)
                    /\ failures' = Noted(failures, at)
                    /\ classFailures' = IF outcome \in DOMAIN ClassThreshold
                                        THEN [classFailures EXCEPT ![outcome] = Noted(@, at)]
                                        ELSE classFailures
<1>0. Classes \cap {"success", "cancel"} = {} /\ Record(outcome, at) /\ Remember(outcome)
  BY BreakerAssumption DEF Records
<1>1. CASE outcome = "success" /\ RecordSuccess
  BY <1>0, <1>1 DEF RecordSuccess, Remember, ClearFailures, resolution, tally
<1>2. CASE outcome = "cancel" /\ RecordCancel
  BY <1>0, <1>2 DEF RecordCancel, Remember, tally
<1>3. CASE outcome \in Classes /\ RecordFailure(outcome, at)
  <2>1. CASE state = "half_open" /\ Open(at)
    BY <1>0, <2>1 DEF Open, Remember
  <2>2. CASE state = "closed" /\ Counts(outcome) /\ Trips(outcome, at) /\ Open(at)
    BY <1>0, <1>3, <2>2 DEF Open, Remember
  <2>3. CASE state = "closed" /\ Counts(outcome) /\ ~Trips(outcome, at) /\ NoteFailure(outcome, at)
    BY <1>0, <1>3, <2>3 DEF NoteFailure, Remember, resolution
  <2>4. CASE /\ state = "open" \/ (state = "closed" /\ ~Counts(outcome))
             /\ UNCHANGED <<resolution, tally>>
    BY <1>0, <1>3, <2>4 DEF Remember, resolution, tally
  <2> QED BY <1>3, <2>1, <2>2, <2>3, <2>4 DEF RecordFailure
<1> QED BY <1>0, <1>1, <1>2, <1>3 DEF Record

\* The buckets and the histories are sequences of instants.
THEOREM WindowTypeCorrect == Spec => []TypeOK
<1>1. Init => TypeOK
  BY BreakerAssumption DEF Init, BreakerInit, TypeOK, NoClassFailures, NothingOf
<1>2. TypeOK /\ [Next]_vars => TypeOK'
  <2> SUFFICES ASSUME TypeOK, [Next]_vars PROVE TypeOK'
    OBVIOUS
  <2>1. CASE Tick /\ UNCHANGED history
    BY <2>1, BreakerAssumption DEF TypeOK, Tick, history
  <2>2. ASSUME NEW outcome, NEW at, Records(outcome, at) PROVE TypeOK'
    <3>1. now \in Nat /\ at \in Nat /\ at - WindowS \in Int /\ UNCHANGED now
      BY <2>2, BreakerAssumption DEF Records, TypeOK
    <3>2. \A w \in Seq(Nat) : Noted(w, at) \in Seq(Nat)
      BY <3>1, DropExpiredType, AppendProperties DEF Noted, Prune
    <3>3. NoClassFailures \in [DOMAIN ClassThreshold -> Seq(Nat)] /\ NothingOf \in [Classes -> Seq(Nat)]
      BY DEF NoClassFailures, NothingOf
    <3>4. Append(recorded, now) \in Seq(Nat)
      BY <3>1, AppendProperties DEF TypeOK
    <3>5. ASSUME outcome \in Classes
          PROVE  [recordedOf EXCEPT ![outcome] = Append(@, now)] \in [Classes -> Seq(Nat)]
      <4>1. recordedOf[outcome] \in Seq(Nat)
        BY <3>5 DEF TypeOK
      <4>2. Append(recordedOf[outcome], now) \in Seq(Nat)
        BY <3>1, <4>1, AppendProperties
      <4> QED BY <4>2 DEF TypeOK
    <3>6. recorded' \in Seq(Nat) /\ recordedOf' \in [Classes -> Seq(Nat)]
      <4>1. CASE recorded' = <<>> /\ recordedOf' = NothingOf
        BY <3>3, <4>1
      <4>2. CASE recorded' = recorded /\ recordedOf' = recordedOf
        BY <4>2 DEF TypeOK
      <4>3. CASE /\ outcome \in Classes /\ recorded' = Append(recorded, now)
                 /\ recordedOf' = [recordedOf EXCEPT ![outcome] = Append(@, now)]
        <5>1. recorded' \in Seq(Nat)
          BY <3>4, <4>3
        <5>2. recordedOf' \in [Classes -> Seq(Nat)]
          BY <3>5, <4>3, Zenon
        <5> QED BY <5>1, <5>2
      <4> QED BY <2>2, <4>1, <4>2, <4>3, RecordsCases DEF history
    <3>7. state' \in {"closed", "open", "half_open"}
      BY <2>2, RecordsCases DEF TypeOK
    <3>8. failures' \in Seq(Nat) /\ classFailures' \in [DOMAIN ClassThreshold -> Seq(Nat)]
      <4>1. Record(outcome, at)
        BY <2>2 DEF Records
      <4>2. \/ ClearFailures
            \/ UNCHANGED tally
            \/ \E k : NoteFailure(k, at)
        BY <4>1 DEF Record, RecordSuccess, RecordCancel, RecordFailure, Open, tally
      <4>3. ASSUME NEW k, NoteFailure(k, at)
            PROVE  /\ failures' \in Seq(Nat)
                   /\ classFailures' \in [DOMAIN ClassThreshold -> Seq(Nat)]
        <5>1. failures' = Noted(failures, at) /\ failures \in Seq(Nat)
          BY <4>3 DEF NoteFailure, TypeOK
        <5>2. CASE k \in DOMAIN ClassThreshold
          <6>1. classFailures[k] \in Seq(Nat)
            BY <5>2 DEF TypeOK
          <6>2. Noted(classFailures[k], at) \in Seq(Nat)
            BY <3>2, <6>1
          <6>3. classFailures' = [classFailures EXCEPT ![k] = Noted(classFailures[k], at)]
            BY <4>3, <5>2 DEF NoteFailure
          <6>4. classFailures' \in [DOMAIN ClassThreshold -> Seq(Nat)]
            BY <6>2, <6>3 DEF TypeOK
          <6> QED BY <3>2, <5>1, <6>4
        <5>3. CASE k \notin DOMAIN ClassThreshold
          <6>1. classFailures' = classFailures
            BY <4>3, <5>3 DEF NoteFailure
          <6>2. Noted(failures, at) \in Seq(Nat)
            BY <3>2, <5>1
          <6>3. failures' \in Seq(Nat)
            BY <5>1, <6>2
          <6> QED BY <6>1, <6>3 DEF TypeOK
        <5> QED BY <5>2, <5>3
      <4>4. CASE ClearFailures
        BY <3>3, <4>4 DEF ClearFailures
      <4>5. CASE UNCHANGED tally
        BY <4>5 DEF TypeOK, tally
      <4> QED BY <4>2, <4>3, <4>4, <4>5
    <3> QED BY <3>1, <3>6, <3>7, <3>8 DEF TypeOK
  <2>3. CASE UNCHANGED <<now, tally, history>> /\ (state' = state \/ state' = "half_open")
    BY <2>3 DEF TypeOK, tally, history
  <2> QED BY <2>1, <2>2, <2>3, NextCases
<1> QED BY <1>1, <1>2, PTL DEF Spec

\* Time that passes makes no dated tail another, and no history disorderly.
LEMMA TickKeeps ==
    ASSUME NEW h \in Seq(Nat), now \in Nat, Tick
    PROVE  /\ InOrder(h) => InOrder(h)'
           /\ \A w \in Seq(Nat) : DatedTail(w, h) => DatedTail(w, h)'
<1>1. now' = now + 1 /\ WindowS \in Nat /\ MaxLag \in Nat
  BY BreakerAssumption, WindowAssumption DEF Tick
<1>2. Len(h) \in Nat /\ \A j \in 1..Len(h) : h[j] \in Nat
  BY LenProperties, ElementOfSeq
<1>3. InOrder(h) => InOrder(h)'
  BY <1>1, <1>2 DEF InOrder
<1>4. ASSUME NEW w \in Seq(Nat), DatedTail(w, h) PROVE DatedTail(w, h)'
  <2>1. Len(w) \in Nat
    BY LenProperties
  <2>2. ASSUME NEW j \in 1..(Len(h) - Len(w)) PROVE h[j] <= now' - WindowS + MaxLag
    <3>1. j \in 1..Len(h) /\ h[j] <= now - WindowS + MaxLag
      BY <1>2, <1>4, <2>1 DEF DatedTail
    <3> QED BY <1>1, <1>2, <3>1
  <2> QED BY <1>4, <2>2 DEF DatedTail
<1> QED BY <1>3, <1>4

\* A breaker that closes begins with nothing.
LEMMA EmptyTail == now \in Nat => DatedTail(<<>>, <<>>) /\ InOrder(<<>>)
BY DEF DatedTail, InOrder

\* The buckets of a closed breaker are the dated ends of the histories, below their
\* thresholds.
THEOREM BucketsHold == Spec => []Buckets
<1>1. Init => Buckets
  <2> SUFFICES ASSUME Init PROVE Buckets
    OBVIOUS
  <2>1. /\ now = 0 /\ failures = <<>> /\ recorded = <<>>
        /\ classFailures = NoClassFailures /\ recordedOf = NothingOf
    BY DEF Init, BreakerInit
  <2>2. DatedTail(<<>>, <<>>) /\ InOrder(<<>>)
    BY <2>1, EmptyTail
  <2> QED BY <2>1, <2>2, BreakerAssumption DEF Buckets, NoClassFailures, NothingOf
<1>2. TypeOK /\ Buckets /\ [Next]_vars => Buckets'
  <2> SUFFICES ASSUME TypeOK, Buckets, [Next]_vars PROVE Buckets'
    OBVIOUS
  <2>0. now \in Nat /\ recorded \in Seq(Nat) /\ \A k \in Classes : recordedOf[k] \in Seq(Nat)
    BY BreakerAssumption DEF TypeOK
  <2>1. CASE Tick /\ UNCHANGED history
    <3>1. UNCHANGED <<state, failures, classFailures, recorded, recordedOf>> /\ Tick
      BY <2>1 DEF Tick, history
    <3>2. InOrder(recorded)'
      BY <2>0, <3>1, TickKeeps DEF Buckets
    <3>3. ASSUME NEW k \in Classes PROVE InOrder(recordedOf[k])'
      <4>1. InOrder(recordedOf[k]) /\ recordedOf[k] \in Seq(Nat) /\ recordedOf'[k] = recordedOf[k]
        BY <2>0, <3>1 DEF Buckets
      <4> QED BY <2>0, <3>1, <4>1, TickKeeps
    <3>4. ASSUME state' = "closed"
          PROVE  DatedTail(failures, recorded)' /\ Len(failures') < FailureThreshold
      BY <2>0, <3>1, <3>4, TickKeeps DEF Buckets, TypeOK
    <3>5. ASSUME state' = "closed", NEW k \in DOMAIN ClassThreshold
          PROVE  /\ DatedTail(classFailures[k], recordedOf[k])'
                 /\ Len(classFailures'[k]) < ClassThreshold[k]
      <4>1. /\ k \in Classes /\ recordedOf[k] \in Seq(Nat) /\ classFailures[k] \in Seq(Nat)
            /\ recordedOf'[k] = recordedOf[k] /\ classFailures'[k] = classFailures[k]
        BY <2>0, <3>1, BreakerAssumption DEF TypeOK
      <4>2. /\ DatedTail(classFailures[k], recordedOf[k])
            /\ Len(classFailures[k]) < ClassThreshold[k]
        BY <3>1, <3>5 DEF Buckets
      <4> QED BY <2>0, <3>1, <4>1, <4>2, TickKeeps
    <3> QED BY <3>2, <3>3, <3>4, <3>5 DEF Buckets
  <2>2. ASSUME NEW outcome, NEW at, Records(outcome, at) PROVE Buckets'
    <3>0. /\ now' = now /\ at \in Nat /\ at <= now /\ now <= at + MaxLag
          /\ DOMAIN ClassThreshold \subseteq Classes
          /\ InOrder(recorded) /\ \A k \in Classes : InOrder(recordedOf[k])
      BY <2>2, BreakerAssumption DEF Records, Buckets
    <3>1. CASE /\ state' = "closed" /\ failures' = <<>> /\ classFailures' = NoClassFailures
               /\ recorded' = <<>> /\ recordedOf' = NothingOf
      <4>1. DatedTail(<<>>, <<>>)' /\ InOrder(<<>>)'
        BY <2>0, <3>0, EmptyTail DEF DatedTail, InOrder
      <4> QED BY <3>1, <4>1, BreakerAssumption DEF Buckets, NoClassFailures, NothingOf
    <3>2. CASE /\ UNCHANGED history
               /\ \/ state = "half_open" /\ state' = "open"
                  \/ state' = state /\ UNCHANGED tally
      BY <3>0, <3>2 DEF Buckets, tally, history, DatedTail, InOrder
    <3>3. CASE /\ state = "closed" /\ outcome \in Classes
               /\ recorded' = Append(recorded, now)
               /\ recordedOf' = [recordedOf EXCEPT ![outcome] = Append(@, now)]
               /\ \/ state' = "open" /\ Trips(outcome, at)
                  \/ /\ state' = "closed" /\ ~Trips(outcome, at)
                     /\ failures' = Noted(failures, at)
                     /\ classFailures' = IF outcome \in DOMAIN ClassThreshold
                                         THEN [classFailures EXCEPT ![outcome] = Noted(@, at)]
                                         ELSE classFailures
      <4>1. InOrder(recorded)'
        BY <2>0, <3>0, <3>3, AppendInOrder DEF InOrder
      <4>2. ASSUME NEW k \in Classes PROVE InOrder(recordedOf[k])'
        <5>1. recordedOf'[k] = IF k = outcome THEN Append(recordedOf[k], now) ELSE recordedOf[k]
          BY <3>3 DEF TypeOK
        <5>2. InOrder(recordedOf[k]) /\ recordedOf[k] \in Seq(Nat)
          BY <2>0, <3>0
        <5>3. InOrder(Append(recordedOf[k], now))
          BY <2>0, <5>2, AppendInOrder
        <5> QED BY <3>0, <5>1, <5>2, <5>3 DEF InOrder
      <4>3. ASSUME state' = "closed"
            PROVE  DatedTail(failures, recorded)' /\ Len(failures') < FailureThreshold
        <5>1. /\ failures' = Noted(failures, at) /\ recorded' = Append(recorded, now)
              /\ ~Trips(outcome, at)
          BY <3>3, <4>3
        <5>2. DatedTail(failures, recorded) /\ failures \in Seq(Nat)
          BY <3>3 DEF Buckets, TypeOK
        <5>3. /\ DatedTail(Noted(failures, at), Append(recorded, now))
              /\ Len(Noted(failures, at)) \in Nat
          BY <2>0, <3>0, <5>2, NotedKeepsTail
        <5>4. Len(Noted(failures, at)) < FailureThreshold
          BY <5>1, <5>3, BreakerAssumption DEF Trips
        <5> QED BY <3>0, <5>1, <5>3, <5>4 DEF DatedTail
      <4>4. ASSUME state' = "closed", NEW k \in DOMAIN ClassThreshold
            PROVE  /\ DatedTail(classFailures[k], recordedOf[k])'
                   /\ Len(classFailures'[k]) < ClassThreshold[k]
        <5>1. /\ DatedTail(classFailures[k], recordedOf[k]) /\ classFailures[k] \in Seq(Nat)
              /\ Len(classFailures[k]) < ClassThreshold[k]
              /\ recordedOf[k] \in Seq(Nat) /\ InOrder(recordedOf[k])
          BY <2>0, <3>0, <3>3 DEF Buckets, TypeOK
        <5>2. CASE k = outcome
          <6>1. /\ classFailures'[k] = Noted(classFailures[k], at)
                /\ recordedOf'[k] = Append(recordedOf[k], now) /\ ~Trips(k, at)
            BY <3>0, <3>3, <4>4, <5>2 DEF TypeOK
          <6>2. /\ DatedTail(Noted(classFailures[k], at), Append(recordedOf[k], now))
                /\ Len(Noted(classFailures[k], at)) \in Nat
            BY <2>0, <3>0, <5>1, NotedKeepsTail
          <6>3. Len(Noted(classFailures[k], at)) < ClassThreshold[k]
            BY <6>1, <6>2, BreakerAssumption DEF Trips
          <6> QED BY <3>0, <6>1, <6>2, <6>3 DEF DatedTail
        <5>3. CASE k # outcome
          <6>1. classFailures'[k] = classFailures[k] /\ recordedOf'[k] = recordedOf[k]
            BY <3>0, <3>3, <4>4, <5>3 DEF TypeOK
          <6> QED BY <3>0, <5>1, <6>1 DEF DatedTail
        <5> QED BY <5>2, <5>3
      <4> QED BY <4>1, <4>2, <4>3, <4>4 DEF Buckets
    <3> QED BY <2>2, <3>1, <3>2, <3>3, RecordsCases
  <2>3. CASE UNCHANGED <<now, tally, history>> /\ (state' = state \/ state' = "half_open")
    BY <2>3 DEF Buckets, tally, history, DatedTail, InOrder
  <2> QED BY <2>1, <2>2, <2>3, NextCases
<1> QED BY <1>1, <1>2, WindowTypeCorrect, PTL DEF Spec

\* A breaker stays closed only below the thresholds: what a window of real time holds, less
\* the lag, are at most the entries of the bucket.
THEOREM NoTripMissedHolds == Spec => []NoTripMissed
<1>1. TypeOK /\ Buckets => NoTripMissed
  <2> SUFFICES ASSUME TypeOK, Buckets, state = "closed"
               PROVE  ~Reached(WindowS - MaxLag, recorded, recordedOf)
    BY DEF NoTripMissed
  <2>0. /\ now \in Nat /\ WindowS - MaxLag \in Int /\ FailureThreshold \in Nat
        /\ \A k \in DOMAIN ClassThreshold : k \in Classes /\ ClassThreshold[k] \in Nat
        /\ \A t : now - (WindowS - MaxLag) = now - WindowS + MaxLag
    BY BreakerAssumption, WindowAssumption DEF TypeOK
  <2>1. ASSUME NEW w \in Seq(Nat), NEW h \in Seq(Nat), NEW n \in Nat, DatedTail(w, h), Len(w) < n
        PROVE  ~(Within(WindowS - MaxLag, h) >= n)
    <3>1. Len(w) \in Nat /\ Len(h) \in Nat
      BY LenProperties
    <3>2. Len(w) <= Len(h) /\ \A j \in 1..(Len(h) - Len(w)) : h[j] <= now - (WindowS - MaxLag)
      BY <2>0, <2>1, <3>1 DEF DatedTail
    <3>3. Within(WindowS - MaxLag, h) \in Nat /\ Within(WindowS - MaxLag, h) <= Len(w)
      BY <2>0, <3>1, <3>2, AtMostLatest
    <3> QED BY <2>1, <3>1, <3>3
  <2>2. ~(Within(WindowS - MaxLag, recorded) >= FailureThreshold)
    BY <2>0, <2>1 DEF Buckets, TypeOK
  <2>3. ASSUME NEW k \in DOMAIN ClassThreshold
        PROVE  ~(Within(WindowS - MaxLag, recordedOf[k]) >= ClassThreshold[k])
    <3>1. /\ classFailures[k] \in Seq(Nat) /\ recordedOf[k] \in Seq(Nat)
          /\ DatedTail(classFailures[k], recordedOf[k])
          /\ Len(classFailures[k]) < ClassThreshold[k]
      BY <2>0 DEF Buckets, TypeOK
    <3> QED BY <2>0, <2>1, <3>1
  <2> QED BY <2>2, <2>3 DEF Reached
<1> QED BY <1>1, WindowTypeCorrect, BucketsHold, PTL

\* A closed breaker opens only on enough failures: every entry of the bucket that reached
\* its threshold was recorded within the window and the lag.
THEOREM TripsOnlyOnThresholdHolds == Spec => TripsOnlyOnThreshold
<1>1. TypeOK /\ Buckets /\ [Next]_vars
        => (state = "closed" /\ state' = "open"
              => Reached(WindowS + MaxLag, recorded', recordedOf'))
  <2> SUFFICES ASSUME TypeOK, Buckets, [Next]_vars, state = "closed", state' = "open"
               PROVE  Reached(WindowS + MaxLag, recorded', recordedOf')
    OBVIOUS
  <2>0. /\ now \in Nat /\ WindowS + MaxLag \in Int /\ FailureThreshold \in Nat
        /\ \A k \in DOMAIN ClassThreshold : k \in Classes /\ ClassThreshold[k] \in Nat
    BY BreakerAssumption, WindowAssumption DEF TypeOK
  <2>1. PICK outcome, at : Records(outcome, at)
    BY NextCases DEF Tick
  <2>2. /\ outcome \in Classes /\ Trips(outcome, at)
        /\ recorded' = Append(recorded, now)
        /\ recordedOf' = [recordedOf EXCEPT ![outcome] = Append(@, now)]
        /\ now' = now /\ at \in Nat /\ at <= now /\ now <= at + MaxLag
    BY <2>1, RecordsCases DEF Records
  <2>3. ASSUME NEW w \in Seq(Nat), NEW h \in Seq(Nat), NEW n \in Nat, DatedTail(w, h), InOrder(h),
               Len(Noted(w, at)) >= n
        PROVE  Within(WindowS + MaxLag, Append(h, now)) >= n
    <3> DEFINE m == Len(Noted(w, at))
               h2 == Append(h, now)
    <3>1. /\ m \in Nat /\ h2 \in Seq(Nat) /\ m <= Len(h2)
          /\ \A j \in (Len(h2) - m + 1)..Len(h2) : h2[j] > now - (WindowS + MaxLag)
      BY <2>0, <2>2, <2>3, NotedKeepsTail
    <3> HIDE DEF m, h2
    <3>2. Within(WindowS + MaxLag, h2) \in Nat /\ Within(WindowS + MaxLag, h2) >= m
      BY <2>0, <3>1, AtLeastLatest
    <3>3. Within(WindowS + MaxLag, h2) >= n
      BY <2>3, <3>1, <3>2 DEF m
    <3> QED BY <3>3 DEF h2
  <2>4. CASE Len(Noted(failures, at)) >= FailureThreshold
    <3>1. /\ failures \in Seq(Nat) /\ recorded \in Seq(Nat)
          /\ DatedTail(failures, recorded) /\ InOrder(recorded)
      BY DEF Buckets, TypeOK
    <3>2. Within(WindowS + MaxLag, Append(recorded, now)) >= FailureThreshold
      BY <2>0, <2>3, <2>4, <3>1
    <3> QED BY <2>2, <3>2 DEF Reached
  <2>5. CASE /\ outcome \in DOMAIN ClassThreshold
             /\ Len(Noted(classFailures[outcome], at)) >= ClassThreshold[outcome]
    <3>1. /\ classFailures[outcome] \in Seq(Nat) /\ recordedOf[outcome] \in Seq(Nat)
          /\ DatedTail(classFailures[outcome], recordedOf[outcome])
          /\ InOrder(recordedOf[outcome])
      BY <2>2, <2>5 DEF Buckets, TypeOK
    <3>2. Within(WindowS + MaxLag, Append(recordedOf[outcome], now)) >= ClassThreshold[outcome]
      BY <2>0, <2>3, <2>5, <3>1
    <3>3. recordedOf'[outcome] = Append(recordedOf[outcome], now)
      BY <2>2 DEF TypeOK
    <3> QED BY <2>5, <3>2, <3>3 DEF Reached
  <2> QED BY <2>2, <2>4, <2>5 DEF Trips
<1> QED BY <1>1, WindowTypeCorrect, BucketsHold, PTL DEF Spec, TripsOnlyOnThreshold
====================================================================================
