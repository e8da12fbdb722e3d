------------------------------- MODULE BudgetProofs ------------------------------
(***********************************************************************************)
(* Proofs about Budget, for any number of callers, any costs, max_retries, window  *)
(* and stall.  The argument: the deque is the dated tail of the history (Window),  *)
(* so a token that is no longer in it was handed out long enough ago.              *)
(***********************************************************************************)
EXTENDS Budget, RollingWindowProofs

\* Pruning keeps a tail of the window; what it drops has expired at the reading, and
\* the first entry it keeps has not.
LEMMA PrunedTail ==
    ASSUME TypeOK, NEW c \in Callers
    PROVE  /\ Pruned(c) \in Seq(Nat)
           /\ Len(Pruned(c)) \in Nat /\ Len(Pruned(c)) <= Len(events)
           /\ \A i \in 1..Len(Pruned(c)) :
                 Pruned(c)[i] = events[Len(events) - Len(Pruned(c)) + i]
           /\ \A i \in 1..(Len(events) - Len(Pruned(c))) : events[i] <= reading[c] - WindowS
           /\ Len(Pruned(c)) > 0 => Pruned(c)[1] > reading[c] - WindowS
<1>1. events \in Seq(Nat) /\ reading[c] - WindowS \in Int
  BY BudgetAssumption DEF TypeOK
<1> QED BY <1>1, DropExpiredTail DEF Pruned

\* A run of tokens added to a sequence.
LEMMA WithTokens ==
    ASSUME NEW s \in Seq(Nat), NEW n \in Nat, NEW at \in Nat
    PROVE  /\ s \o Tokens(n, at) \in Seq(Nat)
           /\ Len(s \o Tokens(n, at)) = Len(s) + n
           /\ \A i \in 1..(Len(s) + n) :
                 (s \o Tokens(n, at))[i] = IF i <= Len(s) THEN s[i] ELSE at
<1>1. Tokens(n, at) \in Seq(Nat) /\ Len(Tokens(n, at)) = n
  BY DEF Tokens
<1>2. \A i \in 1..n : Tokens(n, at)[i] = at
  BY DEF Tokens
<1>3. /\ s \o Tokens(n, at) \in Seq(Nat)
      /\ Len(s \o Tokens(n, at)) = Len(s) + n
      /\ \A i \in 1..(Len(s) + n) :
            (s \o Tokens(n, at))[i] = IF i <= Len(s) THEN s[i] ELSE Tokens(n, at)[i - Len(s)]
  BY <1>1, ConcatProperties
<1>4. ASSUME NEW i \in 1..(Len(s) + n), ~(i <= Len(s)) PROVE Tokens(n, at)[i - Len(s)] = at
  <2>1. Len(s) \in Nat
    BY LenProperties
  <2>2. i - Len(s) \in 1..n
    BY <1>4, <2>1
  <2> QED BY <1>2, <2>2
<1> QED BY <1>3, <1>4

\* Every variable keeps its type.
THEOREM BudgetTypeCorrect == Spec => []TypeOK
<1>1. Init => TypeOK
  BY BudgetAssumption DEF Init, TypeOK
<1>2. TypeOK /\ [Next]_vars => TypeOK'
  <2> SUFFICES ASSUME TypeOK, [Next]_vars PROVE TypeOK'
    OBVIOUS
  <2>1. CASE Tick
    BY <2>1, BudgetAssumption DEF TypeOK, Tick
  <2>2. ASSUME NEW c \in Callers, NEW k \in Costs \cup {0}, ReadClock(c, k) PROVE TypeOK'
    BY <2>2, BudgetAssumption DEF TypeOK, ReadClock
  <2>3. ASSUME NEW c \in Callers, Grant(c) PROVE TypeOK'
    <3>1. cost[c] \in Nat /\ reading[c] \in Nat /\ now \in Nat
      <4>1. (cost[c] \in Costs \/ cost[c] = 0) /\ \A k \in Costs : k \in Nat
        BY BudgetAssumption DEF TypeOK
      <4>2. reading[c] \in Nat /\ now \in Nat
        BY BudgetAssumption DEF TypeOK
      <4> QED BY <4>1, <4>2
    <3>2. events' \in Seq(Nat) /\ issued' \in Seq(Nat)
      BY <2>3, <3>1, PrunedTail, WithTokens DEF TypeOK, Grant
    <3> QED BY <2>3, <3>2 DEF TypeOK, Grant, Answered
  <2>4. ASSUME NEW c \in Callers, Refuse(c) \/ Remaining(c) PROVE TypeOK'
    <3>1. events' \in Seq(Nat)
      BY <2>4, PrunedTail DEF Refuse, Remaining
    <3>2. UNCHANGED <<now, issued>> /\ Answered(c)
      BY <2>4 DEF Refuse, Remaining
    <3> QED BY <3>1, <3>2 DEF TypeOK, Answered
  <2>5. CASE UNCHANGED vars
    BY <2>5 DEF TypeOK, vars
  <2> QED BY <2>1, <2>2, <2>3, <2>4, <2>5 DEF Next
<1> QED BY <1>1, <1>2, PTL DEF Spec

-----------------------------------------------------------------------------------
(* The inductive invariant: Window and Bounds.                                     *)

\* Between two ticks, a caller that waits read the clock no earlier than MaxStall ago.
LEMMA Waiting ==
    ASSUME TypeOK, Bounds, NEW c \in Callers, Answered(c)
    PROVE  /\ reading[c] \in Nat /\ now \in Nat /\ cost[c] \in Nat
           /\ reading[c] <= now /\ now <= reading[c] + MaxStall
<1>1. (cost[c] \in Costs \/ cost[c] = 0) /\ \A k \in Costs : k \in Nat
  BY BudgetAssumption DEF TypeOK
<1>2. reading[c] \in Nat /\ now \in Nat
  BY BudgetAssumption DEF TypeOK
<1>3. pending[c]
  BY DEF Answered
<1> QED BY <1>1, <1>2, <1>3 DEF Bounds

\* Pruning at a reading at most MaxStall old leaves the window a dated tail of the
\* history.
LEMMA PrunedWindow ==
    ASSUME TypeOK, Window, Bounds, NEW c \in Callers, Answered(c)
    PROVE  LET gone == Len(issued) - Len(Pruned(c))
           IN  /\ gone \in Nat
               /\ \A i \in 1..Len(Pruned(c)) :
                     /\ Pruned(c)[i] <= issued[gone + i]
                     /\ issued[gone + i] <= Pruned(c)[i] + MaxStall
               /\ \A j \in 1..gone : issued[j] <= now - WindowS + MaxStall
<1> DEFINE kept == Pruned(c)
           before == Len(issued) - Len(events)
           gone == Len(issued) - Len(kept)
<1>1. /\ Len(issued) \in Nat /\ Len(events) \in Nat /\ Len(kept) \in Nat
      /\ Len(kept) <= Len(events) /\ before \in Nat /\ gone \in Nat
  <2>1. Len(issued) \in Nat /\ Len(events) \in Nat
    BY LenProperties DEF TypeOK
  <2>2. Len(kept) \in Nat /\ Len(kept) <= Len(events)
    BY PrunedTail
  <2>3. before >= 0
    BY DEF Window
  <2> HIDE DEF kept
  <2> QED BY <2>1, <2>2, <2>3
<1>2. /\ reading[c] \in Nat /\ now \in Nat
      /\ reading[c] <= now /\ WindowS \in Nat /\ MaxStall \in Nat
  BY Waiting, BudgetAssumption
<1>3. ASSUME NEW i \in 1..Len(kept)
      PROVE  kept[i] <= issued[gone + i] /\ issued[gone + i] <= kept[i] + MaxStall
  <2> DEFINE k == Len(events) - Len(kept) + i
  <2>1. kept[i] = events[k]
    BY PrunedTail
  <2>2. k \in 1..Len(events) /\ before + k = gone + i
    <3> HIDE DEF kept
    <3> QED BY <1>1
  <2>3. events[k] <= issued[before + k] /\ issued[before + k] <= events[k] + MaxStall
    <3> HIDE DEF k
    <3> QED BY <2>2 DEF Window
  <2> HIDE DEF k, kept, gone, before
  <2> QED BY <2>1, <2>2, <2>3
<1>4. ASSUME NEW j \in 1..gone PROVE issued[j] <= now - WindowS + MaxStall
  <2>1. CASE j <= before
    <3>1. j \in 1..before
      <4> HIDE DEF kept
      <4> QED BY <2>1, <1>1
    <3> QED BY <3>1 DEF Window
  <2>2. CASE ~(j <= before)
    <3> DEFINE i == j - before
    <3>1. /\ i \in 1..Len(events) /\ before + i = j
          /\ i \in 1..(Len(events) - Len(kept))
      <4> HIDE DEF kept
      <4> QED BY <2>2, <1>1
    <3>2. issued[before + i] <= events[i] + MaxStall
      <4> HIDE DEF i
      <4> QED BY <3>1 DEF Window
    <3>3. events[i] <= reading[c] - WindowS
      <4> HIDE DEF i
      <4> QED BY <3>1, PrunedTail
    <3>4. events[i] \in Nat /\ issued[j] \in Nat
      <4>1. j \in 1..Len(issued)
        <5> HIDE DEF kept
        <5> QED BY <1>1
      <4>2. events \in Seq(Nat) /\ issued \in Seq(Nat)
        BY DEF TypeOK
      <4> HIDE DEF i, before, gone, kept
      <4> QED BY <3>1, <4>1, <4>2, ElementOfSeq
    <3> HIDE DEF i, before, gone, kept
    <3> QED BY <3>1, <3>2, <3>3, <3>4, <1>2, SMTT(20)
  <2> QED BY <2>1, <2>2
<1> QED BY <1>1, <1>3, <1>4

\* New tokens are dated at the reading and handed out now, at most MaxStall later.
LEMMA GrantWindow ==
    ASSUME TypeOK, Window, Bounds, NEW c \in Callers, Grant(c)
    PROVE  Window' /\ Bounds'
<1> DEFINE kept == Pruned(c)
           n == cost[c]
           gone == Len(issued) - Len(kept)
<1>1. Answered(c) /\ UNCHANGED now
  BY DEF Grant
<1>2. /\ reading[c] \in Nat /\ now \in Nat /\ n \in Nat
      /\ reading[c] <= now /\ now <= reading[c] + MaxStall
  BY <1>1, Waiting
<1>3. /\ gone \in Nat
      /\ \A i \in 1..Len(kept) :
            kept[i] <= issued[gone + i] /\ issued[gone + i] <= kept[i] + MaxStall
      /\ \A j \in 1..gone : issued[j] <= now - WindowS + MaxStall
  BY <1>1, PrunedWindow
<1>4. kept \in Seq(Nat) /\ issued \in Seq(Nat) /\ Len(kept) \in Nat /\ Len(issued) \in Nat
  BY PrunedTail, LenProperties DEF TypeOK
<1>5. /\ Len(events') = Len(kept) + n
      /\ \A i \in 1..(Len(kept) + n) :
            events'[i] = IF i <= Len(kept) THEN kept[i] ELSE reading[c]
  <2>1. events' = kept \o Tokens(n, reading[c])
    BY DEF Grant
  <2> HIDE DEF kept, n, gone
  <2> QED BY <1>2, <1>4, <2>1, WithTokens, ZenonT(30)
<1>6. /\ Len(issued') = Len(issued) + n
      /\ \A i \in 1..(Len(issued) + n) :
            issued'[i] = IF i <= Len(issued) THEN issued[i] ELSE now
  <2>1. issued' = issued \o Tokens(n, now)
    BY DEF Grant
  <2> HIDE DEF kept, n, gone
  <2>2. /\ Len(issued \o Tokens(n, now)) = Len(issued) + n
        /\ \A i \in 1..(Len(issued) + n) :
              (issued \o Tokens(n, now))[i] = IF i <= Len(issued) THEN issued[i] ELSE now
    <3>1. now \in Nat /\ n \in Nat /\ issued \in Seq(Nat)
      BY <1>2, <1>4
    <3> QED BY <3>1, WithTokens
  <2> QED BY <2>1, <2>2
<1>7. MaxStall \in Nat /\ WindowS \in Nat /\ MaxRetries \in Nat
  BY BudgetAssumption
<1>8. Len(issued') - Len(events') = gone /\ Len(issued) = gone + Len(kept)
  <2> HIDE DEF kept, n
  <2> QED BY <1>2, <1>4, <1>5, <1>6
<1>9. Len(kept) + n <= MaxRetries
  BY DEF Grant, Fits
<1> HIDE DEF kept, n, gone
<1>10. Window'
  <2>1. ASSUME NEW i \in 1..(Len(kept) + n)
        PROVE  events'[i] <= issued'[gone + i] /\ issued'[gone + i] <= events'[i] + MaxStall
    <3>1. gone + i \in 1..(Len(issued) + n) /\ (gone + i <= Len(issued) <=> i <= Len(kept))
      BY <1>2, <1>3, <1>4, <1>8
    <3>2. CASE i <= Len(kept)
      <4>1. events'[i] = kept[i] /\ issued'[gone + i] = issued[gone + i] /\ i \in 1..Len(kept)
        BY <1>4, <1>5, <1>6, <3>1, <3>2
      <4> QED BY <1>3, <4>1
    <3>3. CASE ~(i <= Len(kept))
      <4>1. events'[i] = reading[c] /\ issued'[gone + i] = now
        BY <1>5, <1>6, <3>1, <3>3
      <4> QED BY <1>2, <4>1
    <3> QED BY <3>2, <3>3
  <2>2. ASSUME NEW j \in 1..gone PROVE issued'[j] <= now' - WindowS + MaxStall
    <3>1. j \in 1..(Len(issued) + n) /\ j <= Len(issued)
      BY <1>2, <1>3, <1>4, <1>8
    <3> QED BY <1>1, <1>3, <1>6, <3>1
  <2>3. gone >= 0
    BY <1>3
  <2> QED BY <1>5, <1>8, <2>1, <2>2, <2>3 DEF Window
<1>11. Bounds'
  <2>1. Len(events') <= MaxRetries
    BY <1>5, <1>9
  <2>2. \A j \in 1..Len(issued) : issued[j] <= now
    BY DEF Bounds
  <2>3. ASSUME NEW j \in 1..(Len(issued) + n) PROVE issued'[j] <= now
    <3>1. CASE j <= Len(issued)
      BY <1>4, <1>6, <2>2, <3>1, SMTT(20)
    <3>2. CASE ~(j <= Len(issued))
      BY <1>2, <1>6, <3>2
    <3> QED BY <3>1, <3>2
  <2>4. ASSUME NEW i \in 1..(Len(issued) + n), NEW j \in 1..(Len(issued) + n), i <= j
        PROVE  issued'[i] <= issued'[j]
    <3>1. CASE j <= Len(issued)
      <4>1. i \in 1..Len(issued) /\ j \in 1..Len(issued)
        BY <1>2, <1>4, <2>4, <3>1
      <4>2. issued'[i] = issued[i] /\ issued'[j] = issued[j]
        BY <1>2, <1>4, <1>6, <4>1
      <4> QED BY <2>4, <4>1, <4>2 DEF Bounds
    <3>2. CASE ~(j <= Len(issued))
      <4>1. issued'[j] = now
        BY <1>6, <3>2
      <4> QED BY <2>3, <4>1
    <3> QED BY <3>1, <3>2
  <2>5. \A d \in Callers : pending'[d] =>
            reading'[d] <= now' /\ now' <= reading'[d] + MaxStall
    BY <1>1 DEF Answered, TypeOK, Bounds
  <2> QED BY <1>1, <1>6, <2>1, <2>3, <2>4, <2>5 DEF Bounds
<1> QED BY <1>10, <1>11

\* A refusal, and a call of remaining(), only prune.
LEMMA PruneKeeps ==
    ASSUME TypeOK, Window, Bounds, NEW c \in Callers, Refuse(c) \/ Remaining(c)
    PROVE  Window' /\ Bounds'
<1>1. Answered(c) /\ events' = Pruned(c) /\ UNCHANGED <<now, issued>>
  BY DEF Refuse, Remaining
<1>2. Window'
  <2>1. /\ Len(issued) - Len(Pruned(c)) \in Nat
        /\ \A i \in 1..Len(Pruned(c)) :
              /\ Pruned(c)[i] <= issued[Len(issued) - Len(Pruned(c)) + i]
              /\ issued[Len(issued) - Len(Pruned(c)) + i] <= Pruned(c)[i] + MaxStall
        /\ \A j \in 1..(Len(issued) - Len(Pruned(c))) : issued[j] <= now - WindowS + MaxStall
    BY <1>1, PrunedWindow
  <2>2. Len(issued) - Len(Pruned(c)) >= 0
    BY <2>1
  <2> QED BY <1>1, <2>1, <2>2 DEF Window
<1>3. Len(events') <= MaxRetries
  <2>1. Len(Pruned(c)) <= Len(events) /\ Len(Pruned(c)) \in Nat
    BY PrunedTail
  <2>2. Len(events) <= MaxRetries /\ Len(events) \in Nat /\ MaxRetries \in Nat
    BY BudgetAssumption, LenProperties DEF Bounds, TypeOK
  <2> QED BY <1>1, <2>1, <2>2
<1>4. \A d \in Callers : pending'[d] =>
            reading'[d] <= now' /\ now' <= reading'[d] + MaxStall
  BY <1>1 DEF Answered, TypeOK, Bounds
<1> QED BY <1>1, <1>2, <1>3, <1>4 DEF Bounds

\* The window stays a dated tail of the history, within its bounds.
THEOREM WindowHolds == Spec => [](Window /\ Bounds)
<1>1. Init => Window /\ Bounds
  BY BudgetAssumption DEF Init, Window, Bounds
<1>2. TypeOK /\ Window /\ Bounds /\ [Next]_vars => (Window /\ Bounds)'
  <2> SUFFICES ASSUME TypeOK, Window, Bounds, [Next]_vars PROVE Window' /\ Bounds'
    OBVIOUS
  <2>1. CASE Tick
    <3>1. /\ now \in Nat /\ now' = now + 1 /\ UNCHANGED <<events, issued, pending, reading>>
          /\ MaxStall \in Nat /\ WindowS \in Nat
      BY <2>1, BudgetAssumption DEF Tick, TypeOK
    <3>2. \A j \in 1..Len(issued) : issued[j] \in Nat
      BY ElementOfSeq DEF TypeOK
    <3>3. Len(issued) \in Nat /\ Len(events) \in Nat
      BY LenProperties DEF TypeOK
    <3>4. Window'
      <4>1. ASSUME NEW j \in 1..(Len(issued) - Len(events))
            PROVE  issued[j] <= now' - WindowS + MaxStall
        <5>1. j \in 1..Len(issued)
          BY <3>3
        <5>2. issued[j] <= now - WindowS + MaxStall
          BY <4>1 DEF Window
        <5> QED BY <3>1, <3>2, <5>1, <5>2
      <4> QED BY <3>1, <4>1 DEF Window
    <3>5. \A j \in 1..Len(issued) : issued[j] <= now'
      BY <3>1, <3>2 DEF Bounds
    <3>6. ASSUME NEW d \in Callers, pending[d]
          PROVE  reading[d] <= now' /\ now' <= reading[d] + MaxStall
      <4>1. reading[d] \in Nat /\ reading[d] <= now /\ now < reading[d] + MaxStall
        BY <2>1, <3>6 DEF Tick, Bounds, TypeOK
      <4> QED BY <3>1, <4>1
    <3> QED BY <3>1, <3>4, <3>5, <3>6 DEF Bounds
  <2>2. ASSUME NEW c \in Callers, NEW k \in Costs \cup {0}, ReadClock(c, k)
        PROVE  Window' /\ Bounds'
    <3>1. now \in Nat /\ MaxStall \in Nat
      BY BudgetAssumption DEF TypeOK
    <3>2. \A d \in Callers : pending'[d] =>
              reading'[d] <= now' /\ now' <= reading'[d] + MaxStall
      BY <2>2, <3>1 DEF ReadClock, Bounds, TypeOK
    <3>3. Window'
      BY <2>2 DEF ReadClock, Window
    <3> QED BY <2>2, <3>2, <3>3 DEF ReadClock, Bounds
  <2>3. ASSUME NEW c \in Callers, Grant(c) PROVE Window' /\ Bounds'
    BY <2>3, GrantWindow
  <2>4. ASSUME NEW c \in Callers, Refuse(c) \/ Remaining(c) PROVE Window' /\ Bounds'
    BY <2>4, PruneKeeps
  <2>5. CASE UNCHANGED vars
    BY <2>5 DEF vars, Window, Bounds
  <2> QED BY <2>1, <2>2, <2>3, <2>4, <2>5 DEF Next
<1> QED BY <1>1, <1>2, BudgetTypeCorrect, PTL DEF Spec

-----------------------------------------------------------------------------------
(* What the window is for.                                                         *)

\* No more than max_retries tokens are handed out within any span of real time
\* shorter than window_s less the longest wait for the lock.
THEOREM RollingBudgetHolds == Spec => []RollingBudget
<1>1. Init => RollingBudget
  BY BudgetAssumption DEF Init, RollingBudget
<1>2. /\ TypeOK /\ Window /\ Bounds /\ RollingBudget /\ [Next]_vars
      /\ TypeOK' /\ Window' /\ Bounds'
      => RollingBudget'
  <2> SUFFICES ASSUME TypeOK, Window, Bounds, RollingBudget, [Next]_vars,
                      TypeOK', Window', Bounds'
               PROVE  RollingBudget'
    OBVIOUS
  <2>1. CASE UNCHANGED issued
    BY <2>1 DEF RollingBudget
  <2>2. ASSUME NEW c \in Callers, Grant(c) PROVE RollingBudget'
    <3> DEFINE n == cost[c]
               gone == Len(issued') - Len(events')
    <3>1. /\ MaxRetries \in Nat /\ MaxStall \in Nat /\ WindowS \in Nat
          /\ now \in Nat /\ now' = now /\ n \in Nat
      BY <2>2, Waiting, BudgetAssumption DEF Grant
    <3>2. issued \in Seq(Nat) /\ Len(issued) \in Nat
      BY LenProperties DEF TypeOK
    <3>3. /\ Len(issued') = Len(issued) + n
          /\ \A i \in 1..(Len(issued) + n) :
                issued'[i] = IF i <= Len(issued) THEN issued[i] ELSE now
      <4>1. issued' = issued \o Tokens(n, now)
        BY <2>2 DEF Grant
      <4> HIDE DEF n, gone
      <4>2. /\ Len(issued \o Tokens(n, now)) = Len(issued) + n
            /\ \A i \in 1..(Len(issued) + n) :
                  (issued \o Tokens(n, now))[i] = IF i <= Len(issued) THEN issued[i] ELSE now
        BY <3>1, <3>2, WithTokens, ZenonT(30)
      <4> QED BY <4>1, <4>2
    <3>4. gone \in Nat /\ Len(issued') <= gone + MaxRetries
      <4>1. Len(events') \in Nat /\ Len(events') <= MaxRetries
        BY LenProperties DEF TypeOK, Bounds
      <4>2. gone >= 0
        BY DEF Window
      <4> HIDE DEF n
      <4> QED BY <3>1, <3>2, <3>3, <4>1, <4>2
    <3>5. \A j \in 1..gone : issued'[j] <= now - WindowS + MaxStall
      BY <3>1 DEF Window
    <3> HIDE DEF n, gone
    <3>6. ASSUME NEW j \in 1..Len(issued'), j + MaxRetries <= Len(issued')
          PROVE  issued'[j + MaxRetries] - issued'[j] >= WindowS - MaxStall
      <4>1. /\ j \in Nat /\ j >= 1
            /\ j \in 1..(Len(issued) + n) /\ j + MaxRetries \in 1..(Len(issued) + n)
        BY <3>1, <3>2, <3>3, <3>6
      <4>2. CASE j + MaxRetries <= Len(issued)
        <5>1. j \in 1..Len(issued) /\ j <= Len(issued)
          BY <3>1, <3>2, <4>1, <4>2
        <5>2. issued'[j] = issued[j] /\ issued'[j + MaxRetries] = issued[j + MaxRetries]
          BY <3>3, <4>1, <4>2, <5>1
        <5> QED BY <4>2, <5>1, <5>2 DEF RollingBudget
      <4>3. CASE ~(j + MaxRetries <= Len(issued))
        <5>1. issued'[j + MaxRetries] = now
          BY <3>3, <4>1, <4>3
        <5>2. j \in 1..gone
          BY <3>1, <3>4, <3>6, <4>1
        <5>3. issued'[j] <= now - WindowS + MaxStall
          BY <3>5, <5>2
        <5>4. issued'[j] \in Nat
          BY <3>6, ElementOfSeq DEF TypeOK
        <5> QED BY <3>1, <5>1, <5>3, <5>4
      <4> QED BY <4>2, <4>3
    <3> QED BY <3>6 DEF RollingBudget
  <2> QED BY <2>1, <2>2 DEF Next, Tick, ReadClock, Refuse, Remaining, vars
<1> QED BY <1>1, <1>2, BudgetTypeCorrect, WindowHolds, PTL DEF Spec

\* A refused token would have been one too many, counting those handed out in the
\* last window_s plus the longest wait for the lock.
THEOREM RefusesOnlyWhenSpentHolds == Spec => RefusesOnlyWhenSpent
<1> DEFINE Spent(c) ==
        \/ cost[c] > MaxRetries
        \/ /\ Len(issued) > MaxRetries - cost[c]
           /\ issued[Len(issued) - (MaxRetries - cost[c])] > now - WindowS - MaxStall
<1>1. TypeOK /\ Window /\ Bounds /\ [Next]_vars => \A c \in Callers : Refuses(c) => Spent(c)
  <2> SUFFICES ASSUME TypeOK, Window, Bounds, [Next]_vars, NEW c \in Callers, Refuses(c)
               PROVE  Spent(c)
    OBVIOUS
  <2>1. Refuse(c)
    <3>1. pending[c] /\ ~pending'[c] /\ cost[c] # 0 /\ issued' = issued
      BY DEF Refuses
    <3>2. ~Tick /\ ~UNCHANGED vars
      BY <3>1 DEF Tick, vars
    <3>3. \A d \in Callers, k \in Costs \cup {0} : ~ReadClock(d, k)
      BY <3>1 DEF ReadClock, TypeOK
    <3>4. ASSUME NEW d \in Callers, Answered(d) PROVE d = c
      BY <3>1, <3>4 DEF Answered, TypeOK
    <3>5. ASSUME NEW d \in Callers, Grant(d) PROVE FALSE
      <4>1. d = c /\ now \in Nat /\ cost[c] \in Nat
        BY <3>4, <3>5, Waiting DEF Grant
      <4>2. issued' = issued \o Tokens(cost[c], now) /\ issued \in Seq(Nat)
        BY <3>5, <4>1 DEF Grant, TypeOK
      <4>3. Len(issued') = Len(issued) + cost[c] /\ Len(issued) \in Nat
        BY <4>1, <4>2, WithTokens, LenProperties
      <4> QED BY <3>1, <4>1, <4>3
    <3>6. ASSUME NEW d \in Callers, Remaining(d) PROVE FALSE
      BY <3>1, <3>4, <3>6 DEF Remaining
    <3>7. ASSUME NEW d \in Callers, Refuse(d) PROVE d = c
      BY <3>4, <3>7 DEF Refuse
    <3> QED BY <3>2, <3>3, <3>5, <3>6, <3>7 DEF Next
  <2>2. Answered(c)
    BY <2>1 DEF Refuse
  <2> DEFINE kept == Pruned(c)
             gone == Len(issued) - Len(kept)
             k == Len(issued) - (MaxRetries - cost[c])
  <2>3. /\ reading[c] \in Nat /\ now \in Nat /\ cost[c] \in Nat
        /\ now <= reading[c] + MaxStall
        /\ MaxRetries \in Nat /\ WindowS \in Nat /\ MaxStall \in Nat
    BY <2>2, Waiting, BudgetAssumption
  <2>4. /\ Len(kept) \in Nat /\ gone \in Nat
        /\ \A i \in 1..Len(kept) : kept[i] <= issued[gone + i]
    BY <2>2, PrunedWindow, PrunedTail
  <2>5. Len(kept) > 0 => kept[1] > reading[c] - WindowS
    BY PrunedTail
  <2>6. Len(kept) + cost[c] > MaxRetries
    <3>1. ~Fits(c)
      BY <2>1 DEF Refuse
    <3>2. ~(Len(kept) + cost[c] <= MaxRetries)
      BY <3>1 DEF Fits
    <3> HIDE DEF kept
    <3> QED BY <2>3, <2>4, <3>2
  <2>7. issued \in Seq(Nat) /\ Len(issued) \in Nat /\ kept \in Seq(Nat)
    BY PrunedTail, LenProperties DEF TypeOK
  <2>8. CASE cost[c] <= MaxRetries
    <3> HIDE DEF kept
    <3>1. 1 \in 1..Len(kept) /\ gone + 1 \in 1..Len(issued) /\ k \in 1..Len(issued)
          /\ gone + 1 <= k /\ Len(issued) > MaxRetries - cost[c]
      <4>1. Len(kept) >= 1 /\ Len(issued) = gone + Len(kept)
        BY <2>3, <2>4, <2>6, <2>7, <2>8
      <4>2. Len(issued) > MaxRetries - cost[c] /\ k >= gone + 1 /\ k <= Len(issued) /\ k \in Int
        <5>1. /\ gone \in Nat /\ Len(kept) \in Nat /\ cost[c] \in Nat /\ MaxRetries \in Nat
              /\ Len(kept) + cost[c] > MaxRetries /\ cost[c] <= MaxRetries
          BY <2>3, <2>4, <2>6, <2>8
        <5> HIDE DEF gone
        <5> QED BY <4>1, <5>1
      <4> HIDE DEF k
      <4> QED BY <2>4, <2>7, <4>1, <4>2
    <3>2. kept[1] > reading[c] - WindowS /\ kept[1] <= issued[gone + 1] /\ kept[1] \in Nat
      BY <2>4, <2>5, <2>7, <3>1, ElementOfSeq
    <3> HIDE DEF gone, k
    <3>3. issued[gone + 1] <= issued[k]
      BY <3>1 DEF Bounds
    <3>4. issued[gone + 1] \in Nat /\ issued[k] \in Nat
      BY <2>7, <3>1, ElementOfSeq
    <3>5. issued[k] > now - WindowS - MaxStall
      BY <2>3, <3>2, <3>3, <3>4
    <3> QED BY <3>1, <3>5 DEF k
  <2> QED BY <2>3, <2>8
<1>2. TypeOK /\ Window /\ Bounds /\ [Next]_vars =>
        [\A c \in Callers : Refuses(c) => Spent(c)]_vars
  BY <1>1
<1> QED BY <1>2, BudgetTypeCorrect, WindowHolds, PTL DEF Spec, RefusesOnlyWhenSpent
====================================================================================
