--------------------------- MODULE RollingWindowProofs ---------------------------
(* What DropExpired returns, for every sequence of instants.                       *)
EXTENDS RollingWindow, NaturalsInduction, WellFoundedInduction, SequenceTheorems, TLAPS

\* A nonempty set of positions has a first one, which is what Min chooses.
LEMMA FirstPosition ==
    ASSUME NEW S, S \subseteq Nat, S # {}
    PROVE  Min(S) \in S /\ \A y \in S : Min(S) <= y
<1> DEFINE R == {ss \in Nat \X Nat : ss[1] < ss[2]}
<1>0. IsWellFoundedOn(R, Nat)
  BY NatLessThanWellFounded DEF OpToRel
<1> HIDE DEF R
<1>1. PICK x \in S : \A y \in S : ~ (<<y, x>> \in R)
  BY <1>0, WFMin, Zenon
<1>2. \A y \in S : x <= y
  <2> TAKE y \in S
  <2>1. ~ (<<y, x>> \in R)
    BY <1>1
  <2>2. x \in Nat /\ y \in Nat
    OBVIOUS
  <2>3. ~ (y < x)
    BY <2>1, <2>2 DEF R
  <2> QED BY <2>2, <2>3
<1> QED
  BY <1>2 DEF Min

\* Either every entry has expired and nothing is left, or what is left is the
\* sequence from its first entry that has not.
LEMMA DropExpiredCases ==
    ASSUME NEW bucket \in Seq(Int), NEW cutoff \in Int
    PROVE  \/ /\ DropExpired(bucket, cutoff) = <<>>
              /\ \A i \in 1..Len(bucket) : bucket[i] <= cutoff
           \/ \E k \in 1..Len(bucket) :
                 /\ DropExpired(bucket, cutoff) = SubSeq(bucket, k, Len(bucket))
                 /\ bucket[k] > cutoff
                 /\ \A i \in 1..(k - 1) : bucket[i] <= cutoff
<1> DEFINE live == {i \in 1..Len(bucket) : bucket[i] > cutoff}
           kept == IF live # {} THEN Min(live) ELSE 0
<1>0. SelectInSeq(bucket, LAMBDA t : t > cutoff) = kept
  BY DEF SelectInSeq
<1>1. DropExpired(bucket, cutoff) = IF kept = 0 THEN <<>> ELSE SubSeq(bucket, kept, Len(bucket))
  BY <1>0 DEF DropExpired
<1>2. \A i \in 1..Len(bucket) : bucket[i] \in Int
  OBVIOUS
<1>3. CASE live = {}
  <2>1. DropExpired(bucket, cutoff) = <<>>
    BY <1>1, <1>3
  <2>2. \A i \in 1..Len(bucket) : ~(bucket[i] > cutoff)
    BY <1>3
  <2>3. \A i \in 1..Len(bucket) : bucket[i] <= cutoff
    BY <1>2, <2>2
  <2> QED BY <2>1, <2>3
<1>4. CASE live # {}
  <2>1. kept \in live /\ \A y \in live : kept <= y
    <3> live \subseteq Nat
      BY LenProperties
    <3> HIDE DEF live
    <3> QED BY <1>4, FirstPosition
  <2>2. kept \in 1..Len(bucket) /\ bucket[kept] > cutoff
    BY <2>1
  <2>3. \A i \in 1..(kept - 1) : bucket[i] <= cutoff
    <3> TAKE i \in 1..(kept - 1)
    <3>1. i \in 1..Len(bucket) /\ i < kept
      <4> HIDE DEF kept, live
      <4> QED BY <2>2, LenProperties
    <3>2. i \notin live
      <4> HIDE DEF kept, live
      <4>1. kept \in Nat /\ i \in Nat
        BY <2>2, <3>1
      <4> QED BY <3>1, <2>1, <4>1
    <3> QED BY <3>1, <3>2, <1>2
  <2>4. kept # 0
    BY <2>2
  <2> HIDE DEF kept
  <2> QED BY <1>1, <2>2, <2>3, <2>4
<1> QED BY <1>3, <1>4

\* What is left is again a sequence of instants.
LEMMA DropExpiredType ==
    ASSUME NEW bucket \in Seq(Nat), NEW cutoff \in Int
    PROVE  DropExpired(bucket, cutoff) \in Seq(Nat)
<1>1. bucket \in Seq(Int)
  BY SeqMonotonic
<1>2. CASE DropExpired(bucket, cutoff) = <<>>
  BY <1>2
<1>3. ASSUME NEW k \in 1..Len(bucket),
             DropExpired(bucket, cutoff) = SubSeq(bucket, k, Len(bucket))
      PROVE  DropExpired(bucket, cutoff) \in Seq(Nat)
  BY <1>3, SubSeqProperties, LenProperties
<1> QED BY <1>1, <1>2, <1>3, DropExpiredCases

\* Pruning keeps a tail of the sequence; what it drops has expired, and the first entry
\* it keeps has not.
LEMMA DropExpiredTail ==
    ASSUME NEW bucket \in Seq(Nat), NEW cutoff \in Int
    PROVE  LET kept == DropExpired(bucket, cutoff)
               gone == Len(bucket) - Len(kept)
           IN  /\ kept \in Seq(Nat) /\ Len(kept) \in Nat /\ Len(kept) <= Len(bucket)
               /\ \A i \in 1..Len(kept) : kept[i] = bucket[gone + i]
               /\ \A i \in 1..gone : bucket[i] <= cutoff
               /\ Len(kept) > 0 => kept[1] > cutoff
<1> DEFINE kept == DropExpired(bucket, cutoff)
<1>1. bucket \in Seq(Int) /\ Len(bucket) \in Nat
  BY SeqMonotonic
<1>2. kept \in Seq(Nat)
  BY DropExpiredType
<1>3. CASE kept = <<>> /\ \A i \in 1..Len(bucket) : bucket[i] <= cutoff
  BY <1>1, <1>2, <1>3
<1>4. CASE \E k \in 1..Len(bucket) :
              /\ kept = SubSeq(bucket, k, Len(bucket))
              /\ bucket[k] > cutoff
              /\ \A i \in 1..(k - 1) : bucket[i] <= cutoff
  <2>1. PICK k \in 1..Len(bucket) :
              /\ kept = SubSeq(bucket, k, Len(bucket))
              /\ bucket[k] > cutoff
              /\ \A i \in 1..(k - 1) : bucket[i] <= cutoff
    BY <1>4
  <2>2. k \in Int /\ k >= 1 /\ k <= Len(bucket)
    BY <1>1
  <2>3. /\ Len(kept) = Len(bucket) - k + 1
        /\ \A i \in 1..(Len(bucket) - k + 1) : kept[i] = bucket[k + i - 1]
    BY <1>1, <2>1, <2>2, SubSeqProperties
  <2> HIDE DEF kept
  <2>4. /\ Len(bucket) - Len(kept) = k - 1 /\ Len(kept) \in Nat /\ Len(kept) <= Len(bucket)
        /\ 1 \in 1..(Len(bucket) - k + 1)
    BY <1>1, <2>2, <2>3
  <2>5. \A i \in 1..Len(kept) : kept[i] = bucket[(k - 1) + i]
    <3> TAKE i \in 1..Len(kept)
    <3>1. i \in 1..(Len(bucket) - k + 1) /\ k + i - 1 = (k - 1) + i
      BY <1>1, <2>2, <2>3
    <3> QED BY <2>3, <3>1
  <2>6. kept[1] = bucket[k]
    BY <1>1, <2>2, <2>3, <2>4
  <2> QED BY <1>2, <2>1, <2>4, <2>5, <2>6 DEF kept
<1> QED BY <1>1, <1>3, <1>4, DropExpiredCases
==================================================================================
