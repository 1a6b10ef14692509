------------------------- MODULE ActiveSession_proofs -------------------------
(***************************************************************************)
(* What ActiveSession keeps, for every setup, driver, policy and bound.     *)
(*                                                                         *)
(* The model maps a session to the session a method leaves, and an action   *)
(* composes such operators; the proof follows it. Good(x, H) says of any    *)
(* session x, also of one in the middle of an action, what the class keeps: *)
(* types, whose answer the lock waits for, where every accepted input is,   *)
(* the shape of the turn, its limit, and that a settled session is quiet.   *)
(* H is the hand: entries of a queue taken off it whose turn has not come,  *)
(* and retirements that have not begun. They count as places of inputs and  *)
(* as answers to the lock, so that a queue may be drained one entry after   *)
(* the other: each entry leaves the hand when its operator has put what it  *)
(* bears elsewhere. Base leaves out what an operator may break for a while, *)
(* Core what is broken between the loss of a process and the end of its     *)
(* work.                                                                    *)
(*                                                                         *)
(* SessionInv says the session is Good with an empty hand between two turns *)
(* of the event loop. Each operator has a lemma from Good or Base to Good   *)
(* and each action one that it leaves After; the theorems are at the end.   *)
(***************************************************************************)
EXTENDS ActiveSession, SequenceTheorems, FiniteSetTheorems, WellFoundedInduction, TLAPS

-----------------------------------------------------------------------------
(* Queues. *)

LEMMA SetOf ==
  ASSUME NEW S, NEW s \in Seq(S)
  PROVE  /\ ToSet(s) \subseteq S /\ (s = <<>> <=> ToSet(s) = {})
         /\ \A T : ToSet(s) \subseteq T => s \in Seq(T)
<1>1. \A n \in DOMAIN s : n \in 1 .. Len(s) /\ s[n] \in S
  BY LenProperties
<1>2. ToSet(s) \subseteq S
  BY <1>1 DEF ToSet
<1>3. ASSUME s = <<>> PROVE ToSet(s) = {}
  BY <1>3 DEF ToSet
<1>4. ASSUME s # <<>> PROVE ToSet(s) # {}
  <2>1. Len(s) \in Nat /\ Len(s) # 0 /\ DOMAIN s = 1 .. Len(s)
    BY <1>4, LenProperties, EmptySeq
  <2>2. 1 \in DOMAIN s
    BY <2>1
  <2> QED BY <2>2 DEF ToSet
<1>5. ASSUME NEW T, ToSet(s) \subseteq T PROVE s \in Seq(T)
  <2>1. \A n \in DOMAIN s : s[n] \in T
    BY <1>5 DEF ToSet
  <2>2. DOMAIN s = 1 .. Len(s) /\ Len(s) \in Nat /\ s = [n \in 1 .. Len(s) |-> s[n]]
    BY LenProperties
  <2>3. s \in [1 .. Len(s) -> T]
    BY <2>1, <2>2
  <2> QED BY <2>2, <2>3, SeqDef
<1> QED BY <1>2, <1>3, <1>4, <1>5

LEMMA SetOfNone == ToSet(<<>>) = {}
BY DEF ToSet

LEMMA InSetOf ==
  ASSUME NEW S, NEW s \in Seq(S), NEW v
  PROVE  v \in ToSet(s) <=> \E n \in 1 .. Len(s) : v = s[n]
BY LenProperties DEF ToSet

LEMMA SetOfAppend ==
  ASSUME NEW S, NEW s \in Seq(S), NEW e \in S
  PROVE  Append(s, e) \in Seq(S) /\ Append(s, e) # <<>> /\ ToSet(Append(s, e)) = ToSet(s) \union {e}
<1>1. /\ Append(s, e) \in Seq(S) /\ Len(Append(s, e)) = Len(s) + 1 /\ Len(s) \in Nat /\ Append(s, e) # <<>>
      /\ \A i \in 1 .. Len(s) : Append(s, e)[i] = s[i]
      /\ Append(s, e)[Len(s) + 1] = e
  BY AppendProperties, LenProperties
<1> DEFINE longer == Append(s, e)
<1> HIDE DEF longer
<1>2. /\ longer \in Seq(S) /\ Len(longer) = Len(s) + 1
      /\ \A i \in 1 .. Len(s) : longer[i] = s[i]
      /\ longer[Len(s) + 1] = e
  BY <1>1 DEF longer
<1>3. \A v : v \in ToSet(longer) <=> \E n \in 1 .. Len(s) + 1 : v = longer[n]
  BY <1>2, InSetOf
<1>4. \A v : v \in ToSet(s) <=> \E n \in 1 .. Len(s) : v = s[n]
  BY InSetOf
<1>5. \A n \in 1 .. Len(s) + 1 : n \in 1 .. Len(s) \/ n = Len(s) + 1
  BY <1>1
<1>6. Len(s) + 1 \in 1 .. Len(s) + 1 /\ \A n \in 1 .. Len(s) : n \in 1 .. Len(s) + 1
  BY <1>1
<1>7. \A v : v \in ToSet(longer) <=> v \in ToSet(s) \/ v = e
  BY <1>2, <1>3, <1>4, <1>5, <1>6
<1> QED BY <1>1, <1>7 DEF longer

LEMMA SetOfConcat ==
  ASSUME NEW S, NEW s \in Seq(S), NEW t \in Seq(S)
  PROVE  s \o t \in Seq(S) /\ ToSet(s \o t) = ToSet(s) \union ToSet(t)
<1> DEFINE joined == s \o t
<1>1. /\ joined \in Seq(S) /\ Len(joined) = Len(s) + Len(t)
      /\ \A i \in 1 .. Len(s) + Len(t) : joined[i] = IF i <= Len(s) THEN s[i] ELSE t[i - Len(s)]
  BY ConcatProperties
<1>2. Len(s) \in Nat /\ Len(t) \in Nat
  BY LenProperties
<1> HIDE DEF joined
<1>3. \A v : v \in ToSet(joined) <=> \E n \in 1 .. Len(s) + Len(t) : v = joined[n]
  BY <1>1, InSetOf
<1>4. \A v : v \in ToSet(s) <=> \E n \in 1 .. Len(s) : v = s[n]
  BY InSetOf
<1>5. \A v : v \in ToSet(t) <=> \E n \in 1 .. Len(t) : v = t[n]
  BY InSetOf
<1>6. ASSUME NEW v \in ToSet(joined) PROVE v \in ToSet(s) \union ToSet(t)
  <2>1. PICK n \in 1 .. Len(s) + Len(t) : v = joined[n]
    BY <1>3, <1>6
  <2>2. CASE n <= Len(s)
    <3>1. n \in 1 .. Len(s) /\ v = s[n]
      BY <1>1, <1>2, <2>1, <2>2
    <3> QED BY <1>4, <3>1
  <2>3. CASE ~(n <= Len(s))
    <3>1. n - Len(s) \in 1 .. Len(t) /\ v = t[n - Len(s)]
      BY <1>1, <1>2, <2>1, <2>3
    <3> QED BY <1>5, <3>1
  <2> QED BY <2>2, <2>3
<1>7. ASSUME NEW v \in ToSet(s) PROVE v \in ToSet(joined)
  <2>1. PICK n \in 1 .. Len(s) : v = s[n]
    BY <1>4, <1>7
  <2>2. n \in 1 .. Len(s) + Len(t) /\ v = joined[n]
    BY <1>1, <1>2, <2>1
  <2> QED BY <1>3, <2>2
<1>8. ASSUME NEW v \in ToSet(t) PROVE v \in ToSet(joined)
  <2>1. PICK n \in 1 .. Len(t) : v = t[n]
    BY <1>5, <1>8
  <2>2. n + Len(s) \in 1 .. Len(s) + Len(t) /\ ~(n + Len(s) <= Len(s)) /\ (n + Len(s)) - Len(s) = n
    BY <1>2
  <2>3. v = joined[n + Len(s)]
    BY <1>1, <2>1, <2>2
  <2> QED BY <1>3, <2>2, <2>3
<1>9. ToSet(joined) = ToSet(s) \union ToSet(t)
  BY <1>6, <1>7, <1>8
<1> QED BY <1>1, <1>9 DEF joined

LEMMA SetOfTail ==
  ASSUME NEW S, NEW s \in Seq(S), s # <<>>
  PROVE  Head(s) \in S /\ Tail(s) \in Seq(S) /\ ToSet(s) = {Head(s)} \union ToSet(Tail(s))
<1> DEFINE rest == Tail(s)
<1>1. /\ Head(s) \in S /\ rest \in Seq(S) /\ Len(rest) = Len(s) - 1
      /\ \A i \in 1 .. Len(rest) : rest[i] = s[i + 1]
  BY HeadTailProperties
<1>2. Len(s) \in Nat /\ Len(s) > 0 /\ Head(s) = s[1]
  BY LenProperties, EmptySeq
<1> HIDE DEF rest
<1>3. \A v : v \in ToSet(rest) <=> \E n \in 1 .. Len(s) - 1 : v = rest[n]
  BY <1>1, InSetOf
<1>4. \A v : v \in ToSet(s) <=> \E n \in 1 .. Len(s) : v = s[n]
  BY InSetOf
<1>5. ASSUME NEW v \in ToSet(s) PROVE v \in {Head(s)} \union ToSet(rest)
  <2>1. PICK n \in 1 .. Len(s) : v = s[n]
    BY <1>4, <1>5
  <2>2. CASE n = 1
    BY <1>2, <2>1, <2>2
  <2>3. CASE n # 1
    <3>1. n - 1 \in 1 .. Len(s) - 1 /\ (n - 1) + 1 = n
      BY <1>2, <2>3
    <3>2. v = rest[n - 1]
      BY <1>1, <2>1, <3>1
    <3> QED BY <1>3, <3>1, <3>2
  <2> QED BY <2>2, <2>3
<1>6. ASSUME NEW v \in ToSet(rest) PROVE v \in ToSet(s)
  <2>1. PICK n \in 1 .. Len(s) - 1 : v = rest[n]
    BY <1>3, <1>6
  <2>2. n + 1 \in 1 .. Len(s) /\ v = s[n + 1]
    BY <1>1, <1>2, <2>1
  <2> QED BY <1>4, <2>2
<1>7. Head(s) \in ToSet(s)
  <2>1. 1 \in 1 .. Len(s)
    BY <1>2
  <2> QED BY <1>2, <1>4, <2>1
<1>8. ToSet(s) = {Head(s)} \union ToSet(rest)
  BY <1>5, <1>6, <1>7
<1> QED BY <1>1, <1>8 DEF rest

LEMMA SetOfOne ==
  ASSUME NEW e
  PROVE  /\ <<e>> # <<>> /\ ToSet(<<e>>) = {e} /\ Len(<<e>>) = 1 /\ <<e>>[1] = e
         /\ \A S : e \in S => <<e>> \in Seq(S)
<1>1. Len(<<e>>) = 1 /\ <<e>>[1] = e /\ <<e>> # <<>> /\ DOMAIN <<e>> = {1}
  OBVIOUS
<1>2. ToSet(<<e>>) = {e}
  BY <1>1 DEF ToSet
<1> QED BY <1>1, <1>2

\* A queue and what is left of it.
LEMMA SetOfPart ==
  ASSUME NEW S, NEW s \in Seq(S), NEW k \in Nat, k <= Len(s)
  PROVE  /\ SubSeq(s, 1, k) \in Seq(S) /\ SubSeq(s, k + 1, Len(s)) \in Seq(S)
         /\ ToSet(s) = ToSet(SubSeq(s, 1, k)) \union ToSet(SubSeq(s, k + 1, Len(s)))
<1>1. Len(s) \in Nat
  BY LenProperties
<1>2. SubSeq(s, 1, k) \in Seq(S) /\ SubSeq(s, k + 1, Len(s)) \in Seq(S)
  <2>1. 1 \in Int /\ k \in Int /\ k + 1 \in Int /\ Len(s) \in Int
    BY <1>1
  <2>2. \A i \in 1 .. Len(s) : s[i] \in S
    BY LenProperties
  <2>3. (\A i \in 1 .. k : s[i] \in S) /\ (\A i \in k + 1 .. Len(s) : s[i] \in S)
    BY <1>1, <2>2
  <2> QED BY <2>1, <2>3, SubSeqProperties
<1>3. CASE k = 0 \/ k = Len(s)
  <2>1. SubSeq(s, 1, Len(s)) = s
    BY SubSeqFull
  <2>2. ASSUME k = 0 PROVE SubSeq(s, 1, k) = <<>> /\ SubSeq(s, k + 1, Len(s)) = s
    <3>1. 1 \in Int /\ k \in Int /\ k < 1 /\ k + 1 = 1
      BY <2>2
    <3> QED BY <2>1, <3>1, SubSeqEmpty
  <2>3. ASSUME k = Len(s) PROVE SubSeq(s, 1, k) = s /\ SubSeq(s, k + 1, Len(s)) = <<>>
    <3>1. k + 1 \in Int /\ Len(s) \in Int /\ Len(s) < k + 1
      BY <1>1, <2>3
    <3> QED BY <2>1, <2>3, <3>1, SubSeqEmpty
  <2> QED BY <1>2, <1>3, <2>2, <2>3, SetOfNone
<1>4. CASE k # 0 /\ k # Len(s)
  <2>1. 1 \in 1 .. Len(s) + 1 /\ k \in 1 - 1 .. Len(s) /\ Len(s) \in k .. Len(s)
    BY <1>1
  <2>2. SubSeq(s, 1, k) \o SubSeq(s, k + 1, Len(s)) = SubSeq(s, 1, Len(s))
    BY <2>1, ConcatAdjacentSubSeq
  <2>3. SubSeq(s, 1, Len(s)) = s
    BY SubSeqFull
  <2>4. ToSet(SubSeq(s, 1, k) \o SubSeq(s, k + 1, Len(s))) = ToSet(SubSeq(s, 1, k)) \union ToSet(SubSeq(s, k + 1, Len(s)))
    BY <1>2, SetOfConcat
  <2> QED BY <1>2, <2>2, <2>3, <2>4
<1> QED BY <1>3, <1>4

\* A set of numbers that is not empty has a least one.
LEMMA LeastOf ==
  ASSUME NEW S \in SUBSET Nat, S # {}
  PROVE  \E i \in S : \A j \in S : i <= j
<1>1. PICK i \in S : \A j \in S : <<j, i>> \notin OpToRel(<, Nat)
  BY NatLessThanWellFounded, WFMin
<1>2. ASSUME NEW j \in S PROVE i <= j
  <2>1. <<j, i>> \in Nat \X Nat /\ <<j, i>>[1] = j /\ <<j, i>>[2] = i
    OBVIOUS
  <2>2. j < i => <<j, i>> \in OpToRel(<, Nat)
    BY <2>1 DEF OpToRel
  <2>3. i \in Nat /\ j \in Nat
    OBVIOUS
  <2>4. ~(j < i)
    BY <1>1, <2>2
  <2> QED BY <2>3, <2>4
<1> QED BY <1>2

\* The places of a queue that are kept, and how many there are up to a place.
Kept(queue, I) == {n \in DOMAIN queue : queue[n] \in I}
Rank(queue, I, n) == Cardinality({m \in Kept(queue, I) : m <= n})
KeptAt(queue, I, k) == CHOOSE n \in Kept(queue, I) : Rank(queue, I, n) = k

LEMMA Ranks ==
  ASSUME NEW S, NEW q \in Seq(S), NEW I
  PROVE  /\ Kept(q, I) \subseteq 1 .. Len(q) /\ Len(q) \in Nat
         /\ Cardinality(Kept(q, I)) \in Nat
         /\ Rank(q, I, 0) = 0 /\ Rank(q, I, Len(q)) = Cardinality(Kept(q, I))
         /\ \A i \in Nat : Rank(q, I, i) \in 0 .. Cardinality(Kept(q, I))
         /\ \A i \in Nat : Rank(q, I, i + 1) = IF i + 1 \in Kept(q, I) THEN Rank(q, I, i) + 1 ELSE Rank(q, I, i)
         /\ \A i \in Nat, j \in Kept(q, I) : i < j => Rank(q, I, i) < Rank(q, I, j)
<1> DEFINE kept == Kept(q, I)
           Upto(i) == {j \in kept : j <= i}
<1>1. kept \subseteq 1 .. Len(q) /\ Len(q) \in Nat
  BY LenProperties DEF Kept
<1>0. \A j \in kept : j \in Nat /\ j > 0
  BY <1>1
<1>2. IsFiniteSet(1 .. Len(q)) /\ Cardinality(1 .. Len(q)) = Len(q)
  <2>1. 1 \in Int /\ Len(q) \in Int /\ Len(q) \in Nat
    BY <1>1
  <2> QED BY <2>1, FS_Interval
<1>3. IsFiniteSet(kept) /\ Cardinality(kept) \in Nat
  BY <1>1, <1>2, FS_Subset, FS_CardinalityType
<1>4. \A i : Rank(q, I, i) = Cardinality(Upto(i))
  BY DEF Rank
<1> HIDE DEF kept
<1>5. \A i : IsFiniteSet(Upto(i)) /\ Cardinality(Upto(i)) \in Nat /\ Cardinality(Upto(i)) <= Cardinality(kept)
  <2> SUFFICES ASSUME NEW i
               PROVE  IsFiniteSet(Upto(i)) /\ Cardinality(Upto(i)) \in Nat /\ Cardinality(Upto(i)) <= Cardinality(kept)
    OBVIOUS
  <2>1. Upto(i) \in SUBSET kept
    OBVIOUS
  <2> HIDE DEF Upto
  <2> QED BY <1>3, <2>1, FS_Subset, FS_CardinalityType
<1>6. Rank(q, I, 0) = 0
  <2>1. \A j \in kept : ~(j <= 0)
    BY <1>0
  <2>2. Upto(0) = {}
    BY <2>1
  <2> QED BY <1>4, <2>2, FS_EmptySet
<1>7. Rank(q, I, Len(q)) = Cardinality(kept)
  <2>2. \A j \in kept : j <= Len(q)
    BY <1>1
  <2>1. Upto(Len(q)) = kept
    BY <2>2
  <2> QED BY <1>4, <2>1
<1>8. ASSUME NEW i \in Nat
      PROVE  Rank(q, I, i + 1) = IF i + 1 \in kept THEN Rank(q, I, i) + 1 ELSE Rank(q, I, i)
  <2>1. CASE i + 1 \in kept
    <3>1. Upto(i + 1) = Upto(i) \cup {i + 1} /\ i + 1 \notin Upto(i)
      BY <1>0, <2>1
    <3>2. Cardinality(Upto(i) \cup {i + 1}) = Cardinality(Upto(i)) + 1
      <4> HIDE DEF Upto
      <4> QED BY <1>5, <3>1, FS_AddElement
    <3> QED BY <1>4, <2>1, <3>1, <3>2
  <2>2. CASE i + 1 \notin kept
    <3>1. Upto(i + 1) = Upto(i)
      BY <1>0, <2>2
    <3> QED BY <1>4, <2>2, <3>1
  <2> QED BY <2>1, <2>2
<1>9. ASSUME NEW i \in Nat, NEW j \in Nat, i <= j PROVE Rank(q, I, i) <= Rank(q, I, j)
  <2>1. Upto(i) \in SUBSET Upto(j)
    BY <1>0, <1>9
  <2>2. Cardinality(Upto(i)) <= Cardinality(Upto(j))
    <3> HIDE DEF Upto
    <3> QED BY <1>5, <2>1, FS_Subset
  <2> QED BY <1>4, <2>2
<1>10. ASSUME NEW i \in Nat, NEW j \in kept, i < j PROVE Rank(q, I, i) < Rank(q, I, j)
  <2>1. j - 1 \in Nat /\ i <= j - 1 /\ (j - 1) + 1 = j
    BY <1>0, <1>10
  <2>2. Rank(q, I, i) <= Rank(q, I, j - 1)
    BY <1>9, <2>1
  <2>3. Rank(q, I, (j - 1) + 1) = Rank(q, I, j - 1) + 1
    BY <1>8, <2>1
  <2>4. Rank(q, I, i) \in Nat /\ Rank(q, I, j - 1) \in Nat
    BY <1>4, <1>5
  <2> QED BY <2>1, <2>2, <2>3, <2>4
<1>11. ASSUME NEW i \in Nat PROVE Rank(q, I, i) \in 0 .. Cardinality(kept)
  <2>1. Cardinality(Upto(i)) \in Nat /\ Cardinality(Upto(i)) <= Cardinality(kept) /\ Rank(q, I, i) = Cardinality(Upto(i))
    BY <1>4, <1>5
  <2> HIDE DEF Upto
  <2> QED BY <1>3, <2>1
<1> QED
  BY <1>1, <1>3, <1>6, <1>7, <1>8, <1>10, <1>11 DEF kept

LEMMA KeptFound ==
  ASSUME NEW S, NEW q \in Seq(S), NEW I
  PROVE  /\ \A n \in 1 .. Cardinality(Kept(q, I)) : KeptAt(q, I, n) \in Kept(q, I)
         /\ \A i \in Kept(q, I) : \E n \in 1 .. Cardinality(Kept(q, I)) : KeptAt(q, I, n) = i
<1>1. ASSUME NEW n \in 1 .. Cardinality(Kept(q, I)) PROVE \E i \in Kept(q, I) : Rank(q, I, i) = n
  <2> DEFINE T == {i \in Nat : Rank(q, I, i) >= n}
  <2>1. T # {} /\ T \in SUBSET Nat
    <3>1. Len(q) \in T
      BY Ranks
    <3> QED BY <3>1
  <2>2. PICK i \in T : \A j \in T : i <= j
    <3> HIDE DEF T
    <3> QED BY <2>1, LeastOf
  <2>3. i # 0
    BY <2>2, Ranks
  <2>4. i - 1 \in Nat /\ ~(Rank(q, I, i - 1) >= n) /\ Rank(q, I, i) >= n
    BY <2>2, <2>3
  <2>5. Rank(q, I, i - 1) \in Nat /\ n \in Nat
    BY <2>4, Ranks
  <2>6. Rank(q, I, (i - 1) + 1) = IF (i - 1) + 1 \in Kept(q, I) THEN Rank(q, I, i - 1) + 1 ELSE Rank(q, I, i - 1)
    BY <2>4, Ranks
  <2>7. (i - 1) + 1 = i
    BY <2>2
  <2> QED BY <2>4, <2>5, <2>6, <2>7
<1>2. ASSUME NEW n \in 1 .. Cardinality(Kept(q, I))
      PROVE  KeptAt(q, I, n) \in Kept(q, I) /\ Rank(q, I, KeptAt(q, I, n)) = n
  BY <1>1 DEF KeptAt
<1>3. ASSUME NEW i \in Kept(q, I), NEW j \in Kept(q, I), Rank(q, I, i) = Rank(q, I, j) PROVE i = j
  <2>0. Kept(q, I) \subseteq 1 .. Len(q) /\ Len(q) \in Nat
    BY Ranks
  <2>1. i \in Nat /\ j \in Nat
    BY <2>0
  <2>4. Rank(q, I, i) \in Nat
    BY <2>1, Ranks
  <2>2. i < j => Rank(q, I, i) < Rank(q, I, j)
    BY <2>1, Ranks
  <2>3. j < i => Rank(q, I, j) < Rank(q, I, i)
    BY <2>1, Ranks
  <2> QED BY <1>3, <2>1, <2>2, <2>3, <2>4
<1>4. ASSUME NEW i \in Kept(q, I)
      PROVE  \E n \in 1 .. Cardinality(Kept(q, I)) : KeptAt(q, I, n) = i
  <2>1. i \in 1 .. Len(q) /\ Len(q) \in Nat
    BY Ranks
  <2>2. Rank(q, I, 0) < Rank(q, I, i) /\ Rank(q, I, i) \in 0 .. Cardinality(Kept(q, I)) /\ Rank(q, I, 0) = 0
    BY <2>1, Ranks
  <2>3. Rank(q, I, i) \in 1 .. Cardinality(Kept(q, I))
    BY <2>2, Ranks
  <2> QED BY <1>2, <1>3, <2>3
<1> QED BY <1>2, <1>4

\* A queue loses the entries that are not asked for, and no other.
LEMMA OnlySound ==
  ASSUME NEW S, NEW q \in Seq(S), NEW I
  PROVE  Only(q, I) \in Seq(S) /\ ToSet(Only(q, I)) = ToSet(q) \intersect I
<1> DEFINE size == Cardinality(Kept(q, I))
           less == Only(q, I)
<1>1. less = [n \in 1 .. size |-> q[KeptAt(q, I, n)]]
  BY DEF Only, Kept, Rank, KeptAt
<1>2. size \in Nat
  BY Ranks
<1>3. \A n \in 1 .. size : KeptAt(q, I, n) \in DOMAIN q /\ q[KeptAt(q, I, n)] \in I
  BY KeptFound DEF Kept
<1>4. \A i \in DOMAIN q : q[i] \in S
  OBVIOUS
<1>5. \A i \in DOMAIN q : q[i] \in I => \E n \in 1 .. size : KeptAt(q, I, n) = i
  <2> SUFFICES ASSUME NEW i \in DOMAIN q, q[i] \in I PROVE \E n \in 1 .. size : KeptAt(q, I, n) = i
    OBVIOUS
  <2>1. i \in Kept(q, I)
    BY DEF Kept
  <2> QED BY <2>1, KeptFound
<1> HIDE DEF size, less
<1>6. \A n \in 1 .. size : q[KeptAt(q, I, n)] \in S
  BY <1>3, <1>4
<1>7. less \in Seq(S)
  BY <1>1, <1>2, <1>6
<1>8. DOMAIN less = 1 .. size
  BY <1>1
<1>9. \A v : v \in ToSet(less) <=> \E n \in 1 .. size : v = q[KeptAt(q, I, n)]
  BY <1>1, <1>8 DEF ToSet
<1>10. \A v : v \in ToSet(q) <=> \E n \in DOMAIN q : v = q[n]
  BY DEF ToSet
<1>11. \A v : v \in ToSet(less) => v \in ToSet(q) /\ v \in I
  BY <1>3, <1>9, <1>10
<1>12. \A v : v \in ToSet(q) /\ v \in I => v \in ToSet(less)
  BY <1>5, <1>9, <1>10
<1>13. ToSet(less) = ToSet(q) \intersect I
  BY <1>11, <1>12
<1> QED BY <1>7, <1>13 DEF less

-----------------------------------------------------------------------------
(* Sessions. *)

LEMMA ToldApart == None \notin Input /\ "call" \notin Input /\ None # "call"
BY ActiveSessionAssumption DEF Input

Fields == {"setup", "status", "phase", "settled", "turn", "turns", "input", "why", "delivery", "sub", "untold",
           "proc", "waiting", "closing", "outbox", "held", "front", "pending", "config", "deferred", "timers",
           "grace", "roster", "news", "results", "handoffs", "lock", "evict", "down", "given", "request", "sent",
           "tells", "restarts"}
Deliveries == {"queue", "steer", "interrupt"}
Inputs == {"none", "accepted", "started", "completed", "rejected", "interrupted"}
Reasons == {"none", "config_change", "user_interrupt", "host_request", "evicted", "shutdown", "crashed", "restart", "idle",
            "stalled", "limit", "user_stop"}
Subs == {"none", "running", "idle", "failed", "stopped"}

\* The entries of the queues: writes, and retirements; only one that carries inputs over has some.
Sends(I) == [kind : {"write"}, input : I, delivery : Deliveries]
Ends(I) ==
  {r \in [kind : {"retire"}, why : Reasons, carry : Seq(I), complete : BOOLEAN,
          then : {"none", "carry", "close", "return"}] : r.carry # <<>> => r.then = "carry"}
Plain(I) == {r \in Ends(I) : r.carry = <<>>}

Known(x) == {i \in Input : x.input[i] # "none"}

\* A session of the setup that is looked at; y differs from x in the fields C only.
IsSession(x) == x = [f \in Fields |-> x[f]] /\ x.setup = session.setup
Keeps(x, y, C) == IsSession(y) /\ \A f \in Fields : f \in C \/ y[f] = x[f]

InputsTyped(x) == x.input \in [Input -> Inputs] /\ x.delivery \in [Input -> Deliveries]
SubsTyped(x) == x.sub \in [Native \union Delegated -> Subs] /\ (x.roster # None => x.roster \subseteq Native)
TurnTyped(x) ==
  /\ x.turn = [id |-> x.turn.id, inputs |-> x.turn.inputs]
  /\ x.turns \in Nat /\ x.turn.id \in Nat /\ x.turn.id <= x.turns /\ x.turn.inputs \subseteq Known(x)
  /\ x.phase \in {"idle", "turn", "background"} /\ x.timers \subseteq Timer /\ x.settled \in BOOLEAN
  /\ x.grace # NoGrace => x.grace.turn > 0
HeldTyped(x) ==
  /\ x.held \in Seq(Known(x)) /\ x.front \in Seq(Known(x)) /\ x.given \in Seq(Known(x))
  /\ x.pending.inputs \in Seq(Known(x)) /\ x.request \subseteq Known(x)
QueuesTyped(x) ==
  /\ x.waiting \in Seq(Sends(Known(x)) \union Plain(Known(x)))
  /\ x.closing \in Seq(Ends(Known(x))) /\ x.outbox \in Seq(Sends(Known(x)))
HandTyped(x, H) == H \subseteq Sends(Known(x)) \union Ends(Known(x))
ProcTyped(x) ==
  /\ x.proc \in {"none", "opening", "up", "closing"} /\ x.status \in {"open", "closed"}
  /\ x.closing # <<>> <=> x.proc = "closing"
  /\ x.waiting # <<>> => x.proc = "opening"
  /\ x.request # {} => x.proc = "up"
  /\ x.outbox # <<>> => x.proc # "none"

\* The entries there are, with those in hand.
Entries(x, H) == ToSet(x.waiting) \union ToSet(x.closing) \union ToSet(x.outbox) \union H
Writes(S, i) == \E w \in S : w.kind = "write" /\ w.input = i
Carries(S, i) == \E r \in S : r.kind = "retire" /\ i \in ToSet(r.carry)
Unlocks(S) == \E r \in S : r.kind = "retire" /\ r.then \in {"close", "return"}

\* Whoever has the lock is answered by something that is under way.
LockKept(x, H) ==
  /\ x.lock \in Input \union {None, "call"}
  /\ x.lock \in Input => x.lock \in x.request \/ Writes(Entries(x, H), x.lock)
  /\ x.lock = "call" => Unlocks(Entries(x, H))

\* Nothing goes on in a closed session.
ClosedRests(x) ==
  x.status = "closed" =>
    /\ x.lock = None /\ x.closing = <<>> /\ x.timers = {} /\ x.grace = NoGrace /\ x.request = {}
    /\ \A w \in ToSet(x.waiting) \union ToSet(x.outbox) : w.kind = "write" /\ ~Waiting(x, w.input)

\* What a turn or a provider other than Claude has of the accepted inputs, it was asked for.
Asked(x) ==
  \A i \in Input : Waiting(x, i) /\ (i \in x.turn.inputs \/ (Driver # "claude" /\ i \in ToSet(x.given))) => i \in x.request

Placed(x, H, i) ==
  \/ i \in ToSet(x.held) \/ i \in ToSet(x.front) \/ i \in ToSet(x.given) \/ i \in x.request
  \/ Writes(Entries(x, H), i) \/ Carries(Entries(x, H), i)
NoneLost(x, H) == \A i \in Input : Waiting(x, i) => Placed(x, H, i)

TurnShape(x) ==
  /\ TurnOpen(x) <=> x.phase = "turn"
  /\ TurnOpen(x) => x.proc \in {"up", "closing"} /\ x.turn.id > 0
Limited(x) == TurnOpen(x) /\ x.proc = "up" => "turnInactivity" \in x.timers
Quiet(x) == x.settled => Live(x) = {}

\* Core holds also of a session whose process is gone and whose work is not ended
\* yet; Base of every session an operator leaves.
Core(x, H) ==
  /\ IsSession(x) /\ InputsTyped(x) /\ SubsTyped(x) /\ TurnTyped(x) /\ HeldTyped(x) /\ QueuesTyped(x)
  /\ HandTyped(x, H) /\ ProcTyped(x) /\ LockKept(x, H) /\ ClosedRests(x)
Base(x, H) == Core(x, H) /\ Asked(x) /\ NoneLost(x, H)
Good(x, H) == Base(x, H) /\ TurnShape(x) /\ Limited(x) /\ Quiet(x)

\* What holds of the session between two turns of the event loop: nothing is left in hand or to be
\* written, and a driver that closes at once has closed.
After(y) == Good(y, {}) /\ y.outbox = <<>> /\ (~SlowClose => y.closing = <<>>)
SessionInv == session.setup \in Setup /\ After(session)

-----------------------------------------------------------------------------
(* What a change of some fields leaves as it was. *)

LEMMA FrameTyped ==
  ASSUME NEW x, NEW y, NEW C, Keeps(x, y, C)
  PROVE  /\ IsSession(y)
         /\ "input" \notin C => Known(y) = Known(x)
         /\ "input" \notin C /\ "delivery" \notin C /\ InputsTyped(x) => InputsTyped(y)
         /\ "sub" \notin C /\ "roster" \notin C /\ SubsTyped(x) => SubsTyped(y)
<1>1. IsSession(y) /\ \A f \in Fields : f \in C \/ y[f] = x[f]
  BY DEF Keeps
<1>2. "input" \notin C => y.input = x.input
  BY <1>1 DEF Fields
<1>3. "delivery" \notin C => y.delivery = x.delivery
  BY <1>1 DEF Fields
<1>4. "sub" \notin C => y.sub = x.sub
  BY <1>1 DEF Fields
<1>5. "roster" \notin C => y.roster = x.roster
  BY <1>1 DEF Fields
<1> QED BY <1>1, <1>2, <1>3, <1>4, <1>5 DEF Known, InputsTyped, SubsTyped

LEMMA FrameTurn ==
  ASSUME NEW x, NEW y, NEW C, Keeps(x, y, C), Known(y) = Known(x), TurnTyped(x),
         {"turn", "turns", "phase", "timers", "settled", "grace"} \intersect C = {}
  PROVE  TurnTyped(y)
<1>1. /\ y.turn = x.turn /\ y.turns = x.turns /\ y.phase = x.phase /\ y.timers = x.timers
      /\ y.settled = x.settled /\ y.grace = x.grace
  BY DEF Keeps, Fields
<1> QED BY <1>1 DEF TurnTyped

LEMMA FrameHeld ==
  ASSUME NEW x, NEW y, NEW C, Keeps(x, y, C), Known(y) = Known(x), HeldTyped(x),
         {"held", "front", "given", "pending", "request"} \intersect C = {}
  PROVE  HeldTyped(y)
<1>1. y.held = x.held /\ y.front = x.front /\ y.given = x.given /\ y.pending = x.pending /\ y.request = x.request
  BY DEF Keeps, Fields
<1> QED BY <1>1 DEF HeldTyped

LEMMA FrameQueues ==
  ASSUME NEW x, NEW y, NEW C, Keeps(x, y, C), {"waiting", "closing", "outbox"} \intersect C = {}
  PROVE  /\ Known(y) = Known(x) /\ QueuesTyped(x) => QueuesTyped(y)
         /\ \A H : Entries(y, H) = Entries(x, H)
<1>1. y.waiting = x.waiting /\ y.closing = x.closing /\ y.outbox = x.outbox
  BY DEF Keeps, Fields
<1>2. Known(y) = Known(x) /\ QueuesTyped(x) => QueuesTyped(y)
  BY <1>1 DEF QueuesTyped
<1>3. \A H : Entries(y, H) = Entries(x, H)
  BY <1>1 DEF Entries
<1> QED BY <1>2, <1>3

LEMMA FrameProc ==
  ASSUME NEW x, NEW y, NEW C, Keeps(x, y, C), ProcTyped(x),
         {"proc", "status", "waiting", "closing", "outbox", "request"} \intersect C = {}
  PROVE  ProcTyped(y)
<1>1. /\ y.proc = x.proc /\ y.status = x.status /\ y.waiting = x.waiting /\ y.closing = x.closing
      /\ y.outbox = x.outbox /\ y.request = x.request
  BY DEF Keeps, Fields
<1> QED BY <1>1 DEF ProcTyped

LEMMA FrameLock ==
  ASSUME NEW x, NEW y, NEW C, NEW H, Keeps(x, y, C), LockKept(x, H),
         {"lock", "request", "waiting", "closing", "outbox"} \intersect C = {}
  PROVE  LockKept(y, H)
<1>1. y.lock = x.lock /\ y.request = x.request
  BY DEF Keeps, Fields
<1>2. Entries(y, H) = Entries(x, H)
  BY FrameQueues
<1> QED BY <1>1, <1>2 DEF LockKept

LEMMA FrameClosed ==
  ASSUME NEW x, NEW y, NEW C, Keeps(x, y, C), ClosedRests(x), \A i : Waiting(y, i) => Waiting(x, i),
         {"status", "lock", "closing", "timers", "grace", "request", "waiting", "outbox"} \intersect C = {}
  PROVE  ClosedRests(y)
<1>1. /\ y.status = x.status /\ y.lock = x.lock /\ y.closing = x.closing /\ y.timers = x.timers
      /\ y.grace = x.grace /\ y.request = x.request /\ y.waiting = x.waiting /\ y.outbox = x.outbox
  BY DEF Keeps, Fields
<1> QED BY <1>1 DEF ClosedRests

LEMMA FrameAsked ==
  ASSUME NEW x, NEW y, NEW C, Keeps(x, y, C), Asked(x), \A i : Waiting(y, i) => Waiting(x, i),
         {"turn", "given", "request"} \intersect C = {}
  PROVE  Asked(y)
<1>1. y.turn = x.turn /\ y.given = x.given /\ y.request = x.request
  BY DEF Keeps, Fields
<1> QED BY <1>1 DEF Asked

LEMMA FrameLost ==
  ASSUME NEW x, NEW y, NEW C, NEW H, Keeps(x, y, C), NoneLost(x, H), \A i : Waiting(y, i) => Waiting(x, i),
         {"held", "front", "given", "request", "waiting", "closing", "outbox"} \intersect C = {}
  PROVE  NoneLost(y, H)
<1>1. y.held = x.held /\ y.front = x.front /\ y.given = x.given /\ y.request = x.request
  BY DEF Keeps, Fields
<1>2. Entries(y, H) = Entries(x, H)
  BY FrameQueues
<1> QED BY <1>1, <1>2 DEF NoneLost, Placed

LEMMA FrameShape ==
  ASSUME NEW x, NEW y, NEW C, Keeps(x, y, C)
  PROVE  /\ {"turn", "phase", "proc"} \intersect C = {} /\ TurnShape(x) => TurnShape(y)
         /\ {"turn", "proc", "timers"} \intersect C = {} /\ Limited(x) => Limited(y)
         /\ {"settled", "sub", "roster"} \intersect C = {} /\ Quiet(x) => Quiet(y)
<1>1. ASSUME {"turn", "phase", "proc"} \intersect C = {}, TurnShape(x) PROVE TurnShape(y)
  <2>1. y.turn = x.turn /\ y.phase = x.phase /\ y.proc = x.proc
    BY <1>1 DEF Keeps, Fields
  <2> QED BY <1>1, <2>1 DEF TurnShape, TurnOpen
<1>2. ASSUME {"turn", "proc", "timers"} \intersect C = {}, Limited(x) PROVE Limited(y)
  <2>1. y.turn = x.turn /\ y.timers = x.timers /\ y.proc = x.proc
    BY <1>2 DEF Keeps, Fields
  <2> QED BY <1>2, <2>1 DEF Limited, TurnOpen
<1>3. ASSUME {"settled", "sub", "roster"} \intersect C = {}, Quiet(x) PROVE Quiet(y)
  <2>1. y.settled = x.settled /\ y.sub = x.sub /\ y.roster = x.roster
    BY <1>3 DEF Keeps, Fields
  <2> QED BY <1>3, <2>1 DEF Quiet, Live, Running
<1> QED BY <1>1, <1>2, <1>3

-----------------------------------------------------------------------------
(* The operators on one session: what they change. *)

Loose == {"why", "untold", "config", "deferred", "news", "results", "handoffs", "evict", "down", "sent", "tells",
          "restarts"}

\* What nothing is said about may change.
LEMMA LooseKeeps ==
  ASSUME NEW x, NEW y, NEW H, Keeps(x, y, Loose)
  PROVE  /\ Known(y) = Known(x) /\ \A i : Waiting(y, i) <=> Waiting(x, i)
         /\ Core(x, H) => Core(y, H)
         /\ Base(x, H) => Base(y, H)
         /\ TurnShape(x) => TurnShape(y)
         /\ Limited(x) => Limited(y)
         /\ Quiet(x) => Quiet(y)
<1>1. y.input = x.input
  BY DEF Keeps, Fields, Loose
<1>2. Known(y) = Known(x) /\ \A i : Waiting(y, i) <=> Waiting(x, i)
  BY <1>1 DEF Known, Waiting
<1>3. IsSession(y) /\ (InputsTyped(x) => InputsTyped(y)) /\ (SubsTyped(x) => SubsTyped(y))
  BY FrameTyped DEF Loose
<1>4. TurnTyped(x) => TurnTyped(y)
  BY <1>2, FrameTurn DEF Loose
<1>5. HeldTyped(x) => HeldTyped(y)
  BY <1>2, FrameHeld DEF Loose
<1>6. QueuesTyped(x) => QueuesTyped(y)
  BY <1>2, FrameQueues DEF Loose
<1>7. ProcTyped(x) => ProcTyped(y)
  BY FrameProc DEF Loose
<1>8. LockKept(x, H) => LockKept(y, H)
  BY FrameLock DEF Loose
<1>9. ClosedRests(x) => ClosedRests(y)
  BY <1>2, FrameClosed DEF Loose
<1>10. Asked(x) => Asked(y)
  BY <1>2, FrameAsked DEF Loose
<1>11. NoneLost(x, H) => NoneLost(y, H)
  BY <1>2, FrameLost DEF Loose
<1>12. HandTyped(x, H) => HandTyped(y, H)
  BY <1>2 DEF HandTyped
<1>13. Core(x, H) => Core(y, H)
  BY <1>3, <1>4, <1>5, <1>6, <1>7, <1>8, <1>9, <1>12 DEF Core
<1>14. (TurnShape(x) => TurnShape(y)) /\ (Limited(x) => Limited(y)) /\ (Quiet(x) => Quiet(y))
  BY FrameShape DEF Loose
<1> QED BY <1>2, <1>10, <1>11, <1>13, <1>14 DEF Base

\* What is in hand may be more.
LEMMA HandGrows ==
  ASSUME NEW x, NEW H, NEW G, H \subseteq G, HandTyped(x, G)
  PROVE  (Core(x, H) => Core(x, G)) /\ (Base(x, H) => Base(x, G)) /\ (Good(x, H) => Good(x, G))
<1>1. Entries(x, H) \subseteq Entries(x, G)
  BY DEF Entries
<1>2. LockKept(x, H) => LockKept(x, G)
  BY <1>1 DEF LockKept, Writes, Unlocks
<1>3. NoneLost(x, H) => NoneLost(x, G)
  BY <1>1 DEF NoneLost, Placed, Writes, Carries
<1> QED BY <1>2, <1>3 DEF Core, Base, Good

\* An end in hand that answers no call and carries nothing that waits is let go.
LEMMA HandDrops ==
  ASSUME NEW x, NEW H, NEW r, r.kind = "retire", r.then \notin {"close", "return"},
         \A i \in ToSet(r.carry) : i \in Input => ~Waiting(x, i) \/ Placed(x, H, i)
  PROVE  /\ Core(x, H \union {r}) => Core(x, H)
         /\ Base(x, H \union {r}) => Base(x, H)
         /\ Good(x, H \union {r}) => Good(x, H)
<1>1. Entries(x, H \union {r}) = Entries(x, H) \union {r}
  BY DEF Entries
<1>2. LockKept(x, H \union {r}) => LockKept(x, H)
  BY <1>1 DEF LockKept, Writes, Unlocks
<1>3. NoneLost(x, H \union {r}) => NoneLost(x, H)
  BY <1>1 DEF NoneLost, Placed, Writes, Carries
<1>4. HandTyped(x, H \union {r}) => HandTyped(x, H)
  BY DEF HandTyped
<1> QED BY <1>2, <1>3, <1>4 DEF Core, Base, Good

LEMMA CancelDoes ==
  ASSUME NEW x, IsSession(x), NEW T
  PROVE  Keeps(x, Cancel(x, T), {"timers"}) /\ Cancel(x, T).timers = x.timers \ T
BY DEF Keeps, Cancel, IsSession, Fields

LEMMA ArmDoes ==
  ASSUME NEW x, IsSession(x), NEW T
  PROVE  Keeps(x, Arm(x, T), {"timers"}) /\ Arm(x, T).timers = x.timers \union T
BY DEF Keeps, Arm, IsSession, Fields

LEMMA CancelAllDoes ==
  ASSUME NEW x, IsSession(x)
  PROVE  Keeps(x, CancelAll(x), {"timers", "grace"}) /\ CancelAll(x).timers = {} /\ CancelAll(x).grace = NoGrace
BY DEF Keeps, CancelAll, IsSession, Fields

LEMMA UnlockDoes ==
  ASSUME NEW x, IsSession(x), NEW I
  PROVE  Keeps(x, Unlock(x, I), {"lock"}) /\ Unlock(x, I).lock = IF x.lock \in I THEN None ELSE x.lock
BY DEF Keeps, Unlock, IsSession, Fields

LEMMA SetInputsDoes ==
  ASSUME NEW x, IsSession(x), NEW I, NEW state
  PROVE  /\ Keeps(x, SetInputs(x, I, state), {"input"})
         /\ SetInputs(x, I, state).input = [i \in Input |-> IF i \in I THEN state ELSE x.input[i]]
BY DEF Keeps, SetInputs, IsSession, Fields

LEMMA InterruptDoes ==
  ASSUME NEW x, IsSession(x), NEW I, NEW reason
  PROVE  /\ Keeps(x, Interrupt(x, I, reason), {"input", "why", "untold"})
         /\ Interrupt(x, I, reason).input = [i \in Input |-> IF i \in I THEN "interrupted" ELSE x.input[i]]
<1> DEFINE y == SetInputs(x, I, "interrupted")
           z == Interrupt(x, I, reason)
<1>1. Keeps(x, y, {"input"}) /\ y.input = [i \in Input |-> IF i \in I THEN "interrupted" ELSE x.input[i]]
  BY SetInputsDoes
<1>2. z = [y EXCEPT !.why = [i \in Input |-> IF i \in I THEN reason ELSE @[i]], !.untold = @ \union I]
  BY DEF Interrupt
<1> HIDE DEF y, z
<1>3. Keeps(y, z, {"why", "untold"})
  BY <1>1, <1>2 DEF Keeps, IsSession, Fields
<1>4. z.input = y.input
  BY <1>3 DEF Keeps, Fields
<1>5. Keeps(x, z, {"input", "why", "untold"})
  BY <1>1, <1>3 DEF Keeps, Fields
<1> QED BY <1>1, <1>4, <1>5 DEF z

LEMMA ForgetDoes ==
  ASSUME NEW x, IsSession(x), NEW I, HeldTyped(x)
  PROVE  /\ Keeps(x, ForgetPendingInterrupt(x, I), {"pending"})
         /\ ForgetPendingInterrupt(x, I).pending.inputs \in Seq(Known(x))
<1> DEFINE left == Only(x.pending.inputs, Input \ I)
           y == ForgetPendingInterrupt(x, I)
<1>1. left \in Seq(Known(x))
  BY OnlySound DEF HeldTyped
<1>2. NoPending.inputs \in Seq(Known(x))
  BY DEF NoPending
<1>3. y = [x EXCEPT !.pending = IF left = <<>> THEN NoPending ELSE [turn |-> x.pending.turn, inputs |-> left]]
  BY DEF ForgetPendingInterrupt
<1> HIDE DEF left, y
<1>4. Keeps(x, y, {"pending"}) /\ y.pending = IF left = <<>> THEN NoPending ELSE [turn |-> x.pending.turn, inputs |-> left]
  BY <1>3 DEF Keeps, IsSession, Fields
<1> QED BY <1>1, <1>2, <1>4 DEF y

LEMMA FailWriteDoes ==
  ASSUME NEW x, IsSession(x), NEW I, HeldTyped(x), InputsTyped(x)
  PROVE  /\ Keeps(x, FailWrite(x, I), {"input", "why", "untold", "pending", "lock"})
         /\ FailWrite(x, I).input = [i \in Input |-> IF i \in I /\ Waiting(x, i) THEN "interrupted" ELSE x.input[i]]
         /\ FailWrite(x, I).pending.inputs \in Seq(Known(x))
         /\ FailWrite(x, I).lock = IF x.lock \in I THEN None ELSE x.lock
<1> DEFINE now == {i \in I : Waiting(x, i)}
           y == Interrupt(x, now, "delivery_failed")
           z == ForgetPendingInterrupt(y, I)
           u == Unlock(z, I)
<1>1. Keeps(x, y, {"input", "why", "untold"}) /\ y.input = [i \in Input |-> IF i \in now THEN "interrupted" ELSE x.input[i]]
  BY InterruptDoes
<1>2. FailWrite(x, I) = u
  BY DEF FailWrite
<1>3. IsSession(y) /\ y.held = x.held /\ y.front = x.front /\ y.given = x.given /\ y.pending = x.pending /\ y.request = x.request
      /\ y.lock = x.lock
  BY <1>1 DEF Keeps, Fields
<1>4. y.input = [i \in Input |-> IF i \in I /\ Waiting(x, i) THEN "interrupted" ELSE x.input[i]]
  BY <1>1
<1> HIDE DEF y
<1>5. Known(y) = Known(x)
  BY <1>4 DEF Known, Waiting, InputsTyped
<1>6. HeldTyped(y)
  BY <1>3, <1>5 DEF HeldTyped
<1>7. Keeps(y, z, {"pending"}) /\ z.pending.inputs \in Seq(Known(x))
  BY <1>3, <1>5, <1>6, ForgetDoes
<1> HIDE DEF z
<1>8. Keeps(z, u, {"lock"}) /\ u.lock = IF z.lock \in I THEN None ELSE z.lock
  BY <1>7, UnlockDoes DEF Keeps
<1> HIDE DEF u
<1>9. z.lock = x.lock /\ z.input = y.input
  BY <1>3, <1>7 DEF Keeps, Fields
<1>10. u.input = z.input /\ u.pending = z.pending
  BY <1>8 DEF Keeps, Fields
<1>11. Keeps(x, u, {"input", "why", "untold", "pending", "lock"})
  BY <1>1, <1>7, <1>8 DEF Keeps, Fields
<1> QED BY <1>2, <1>4, <1>7, <1>8, <1>9, <1>10, <1>11

\* A failed write lets go of the entries whose inputs it fails.
LEMMA FailWriteKeeps ==
  ASSUME NEW x, NEW I, I \subseteq Input, NEW H, NEW W,
         \A w \in W : w.kind = "write" /\ w.input \in I, Core(x, H \union W)
  PROVE  /\ Keeps(x, FailWrite(x, I), {"input", "why", "untold", "pending", "lock"})
         /\ Known(FailWrite(x, I)) = Known(x)
         /\ \A i \in Input : Waiting(FailWrite(x, I), i) => Waiting(x, i) /\ i \notin I
         /\ FailWrite(x, I).lock \in {x.lock, None}
         /\ Core(FailWrite(x, I), H)
         /\ Base(x, H \union W) => Base(FailWrite(x, I), H)
         /\ TurnShape(x) => TurnShape(FailWrite(x, I))
         /\ Limited(x) => Limited(FailWrite(x, I))
         /\ Quiet(x) => Quiet(FailWrite(x, I))
<1> DEFINE y == FailWrite(x, I)
           C == {"input", "why", "untold", "pending", "lock"}
<1>1. /\ Keeps(x, y, C)
      /\ y.input = [i \in Input |-> IF i \in I /\ Waiting(x, i) THEN "interrupted" ELSE x.input[i]]
      /\ y.pending.inputs \in Seq(Known(x)) /\ y.lock = IF x.lock \in I THEN None ELSE x.lock
  BY FailWriteDoes DEF Core
<1> HIDE DEF y
<1>2. Known(y) = Known(x) /\ \A i \in Input : Waiting(y, i) => Waiting(x, i) /\ i \notin I
  BY <1>1 DEF Core, InputsTyped, Known, Waiting
<1>3. InputsTyped(y)
  <2>1. y.delivery = x.delivery
    BY <1>1 DEF Keeps, Fields
  <2> QED BY <1>1, <2>1 DEF Core, InputsTyped, Inputs
<1>4. SubsTyped(y)
  BY <1>1, FrameTyped DEF Core
<1>5. TurnTyped(y)
  BY <1>1, <1>2, FrameTurn DEF Core
<1>6. HeldTyped(y)
  <2>1. y.held = x.held /\ y.front = x.front /\ y.given = x.given /\ y.request = x.request
    BY <1>1 DEF Keeps, Fields
  <2> QED BY <1>1, <1>2, <2>1 DEF Core, HeldTyped
<1>7. QueuesTyped(y) /\ \A G : Entries(y, G) = Entries(x, G)
  BY <1>1, <1>2, FrameQueues DEF Core
<1>8. HandTyped(y, H)
  BY <1>2 DEF Core, HandTyped
<1>9. ProcTyped(y)
  BY <1>1, FrameProc DEF Core
<1>10. LockKept(y, H)
  <2>1. y.request = x.request
    BY <1>1 DEF Keeps, Fields
  <2>2. Entries(x, H \union W) = Entries(x, H) \union W
    BY DEF Entries
  <2>3. LockKept(x, H \union W)
    BY DEF Core
  <2>4. ASSUME y.lock \in Input PROVE y.lock \in y.request \/ Writes(Entries(y, H), y.lock)
    <3>1. CASE y.lock = x.lock /\ x.lock \notin I
      BY <1>7, <2>1, <2>2, <2>3, <2>4, <3>1 DEF LockKept, Writes
    <3>2. CASE y.lock = None /\ x.lock \in I
      BY <2>3, <2>4, <3>2, ToldApart
    <3> QED BY <1>1, <3>1, <3>2
  <2>5. ASSUME y.lock = "call" PROVE Unlocks(Entries(y, H))
    <3>1. CASE y.lock = x.lock /\ x.lock \notin I
      BY <1>7, <2>2, <2>3, <2>5, <3>1 DEF LockKept, Unlocks
    <3>2. CASE y.lock = None /\ x.lock \in I
      BY <2>5, <3>2, ToldApart
    <3> QED BY <1>1, <3>1, <3>2
  <2> QED BY <1>1, <2>3, <2>4, <2>5 DEF LockKept
<1>11. ClosedRests(y)
  <2>1. /\ y.status = x.status /\ y.closing = x.closing /\ y.timers = x.timers
        /\ y.grace = x.grace /\ y.request = x.request /\ y.waiting = x.waiting /\ y.outbox = x.outbox
    BY <1>1 DEF Keeps, Fields
  <2>2. \A i : Waiting(x, i) \/ ~Waiting(y, i) \/ i \notin Input
    BY <1>2
  <2>3. ASSUME NEW w \in ToSet(x.waiting) \union ToSet(x.outbox), w.kind = "write" PROVE w.input \in Input
    <3>1. ToSet(x.waiting) \subseteq Sends(Known(x)) \union Plain(Known(x)) /\ ToSet(x.outbox) \subseteq Sends(Known(x))
      BY SetOf DEF Core, QueuesTyped
    <3> QED BY <2>3, <3>1 DEF Sends, Plain, Ends, Known
  <2> QED BY <1>1, <2>1, <2>2, <2>3 DEF Core, ClosedRests
<1>12. Core(y, H)
  BY <1>1, <1>3, <1>4, <1>5, <1>6, <1>7, <1>8, <1>9, <1>10, <1>11 DEF Core, Keeps
<1>13. ASSUME Base(x, H \union W) PROVE Asked(y) /\ NoneLost(y, H)
  <2>1. y.turn = x.turn /\ y.given = x.given /\ y.request = x.request /\ y.held = x.held /\ y.front = x.front
    BY <1>1 DEF Keeps, Fields
  <2>2. Asked(y)
    BY <1>2, <1>13, <2>1 DEF Base, Asked
  <2>3. Entries(x, H \union W) = Entries(x, H) \union W
    BY DEF Entries
  <2>4. Entries(y, H) = Entries(x, H)
    BY <1>7
  <2>5. NoneLost(x, H \union W)
    BY <1>13 DEF Base
  <2>6. ASSUME NEW i \in Input, Waiting(y, i) PROVE Placed(y, H, i)
    <3>1. i \notin I /\ Placed(x, H \union W, i)
      BY <1>2, <2>5, <2>6 DEF NoneLost
    <3>2. ~Writes(W, i) /\ ~Carries(W, i)
      BY <3>1 DEF Writes, Carries
    <3> QED BY <2>1, <2>3, <2>4, <3>1, <3>2 DEF Placed, Writes, Carries
  <2> QED BY <2>2, <2>6 DEF NoneLost
<1>14. (TurnShape(x) => TurnShape(y)) /\ (Limited(x) => Limited(y)) /\ (Quiet(x) => Quiet(y))
  BY <1>1, FrameShape
<1> QED BY <1>1, <1>2, <1>12, <1>13, <1>14 DEF y, Base

-----------------------------------------------------------------------------
(* Writes. *)

\* An end in hand that bears some inputs: they are taken from where they were.
Bearer(s) == [kind |-> "retire", why |-> "none", carry |-> s, complete |-> FALSE, then |-> "carry"]

LEMMA BearerTyped ==
  ASSUME NEW I, NEW s \in Seq(I)
  PROVE  Bearer(s) \in Ends(I) /\ Bearer(s).kind = "retire" /\ Bearer(s).then = "carry" /\ Bearer(s).carry = s
BY DEF Bearer, Ends, Reasons

LEMMA Bears ==
  ASSUME NEW x, NEW H, NEW s \in Seq(Known(x)), HandTyped(x, H)
  PROVE  HandTyped(x, H \union {Bearer(s)})
BY BearerTyped DEF HandTyped

LEMMA WriteAllDoes ==
  ASSUME NEW x, IsSession(x), NEW I, NEW inputs \in Seq(I), NEW d \in Deliveries, x.outbox \in Seq(Sends(I))
  PROVE  /\ Keeps(x, WriteAll(x, inputs, d), {"outbox", "proc"})
         /\ WriteAll(x, inputs, d).outbox \in Seq(Sends(I))
         /\ ToSet(x.outbox) \subseteq ToSet(WriteAll(x, inputs, d).outbox)
         /\ \A w \in ToSet(WriteAll(x, inputs, d).outbox) : w \in ToSet(x.outbox) \/ (w.kind = "write" /\ w.input \in ToSet(inputs))
         /\ \A i \in ToSet(inputs) : Writes(ToSet(WriteAll(x, inputs, d).outbox), i)
         /\ WriteAll(x, inputs, d).proc = IF x.proc # "none" THEN x.proc ELSE IF SlowOpen THEN "opening" ELSE "up"
<1> DEFINE y == WriteAll(x, inputs, d)
           more == [n \in 1 .. Len(inputs) |-> [kind |-> "write", input |-> inputs[n], delivery |-> d]]
<1>1. y = [x EXCEPT !.outbox = @ \o more, !.proc = IF @ # "none" THEN @ ELSE IF SlowOpen THEN "opening" ELSE "up"]
  BY DEF WriteAll
<1>2. Len(inputs) \in Nat /\ \A n \in 1 .. Len(inputs) : inputs[n] \in I
  BY LenProperties
<1>3. \A n \in 1 .. Len(inputs) : more[n] \in Sends(I) /\ more[n].kind = "write" /\ more[n].input = inputs[n]
  BY <1>2 DEF Sends
<1>4. more \in Seq(Sends(I))
  BY <1>2, <1>3
<1>5. DOMAIN more = 1 .. Len(inputs)
  OBVIOUS
<1> HIDE DEF y, more
<1>6. Keeps(x, y, {"outbox", "proc"})
  BY <1>1 DEF Keeps, IsSession, Fields
<1>7. y.outbox = x.outbox \o more /\ y.proc = IF x.proc # "none" THEN x.proc ELSE IF SlowOpen THEN "opening" ELSE "up"
  BY <1>1 DEF IsSession, Fields
<1>8. y.outbox \in Seq(Sends(I)) /\ ToSet(y.outbox) = ToSet(x.outbox) \union ToSet(more)
  BY <1>4, <1>7, SetOfConcat
<1>9. \A w \in ToSet(more) : w.kind = "write" /\ w.input \in ToSet(inputs)
  <2>1. \A n \in 1 .. Len(inputs) : inputs[n] \in ToSet(inputs)
    BY LenProperties DEF ToSet
  <2> QED BY <1>3, <1>5, <2>1 DEF ToSet
<1>10. ASSUME NEW i \in ToSet(inputs) PROVE Writes(ToSet(y.outbox), i)
  <2>1. PICK n \in 1 .. Len(inputs) : i = inputs[n]
    BY <1>10, InSetOf
  <2>2. more[n] \in ToSet(more)
    BY <1>5 DEF ToSet
  <2> QED BY <1>3, <1>8, <2>1, <2>2 DEF Writes
<1> QED BY <1>6, <1>7, <1>8, <1>9, <1>10 DEF y

\* A write that begins takes over what the entry r of the hand carries.
LEMMA WriteAllKeeps ==
  ASSUME NEW x, NEW H, NEW r, r.kind = "retire", r.then \notin {"close", "return"}, Base(x, H \union {r}),
         NEW inputs \in Seq(Known(x)), NEW d \in Deliveries, x.status = "open", ToSet(r.carry) \subseteq ToSet(inputs),
         inputs # <<>>
  PROVE  /\ Keeps(x, WriteAll(x, inputs, d), {"outbox", "proc"})
         /\ Base(WriteAll(x, inputs, d), H)
         /\ WriteAll(x, inputs, d).proc # "none"
         /\ x.proc # "none" => WriteAll(x, inputs, d).proc = x.proc
         /\ TurnShape(x) => TurnShape(WriteAll(x, inputs, d))
         /\ TurnShape(x) /\ Limited(x) => Limited(WriteAll(x, inputs, d))
         /\ Quiet(x) => Quiet(WriteAll(x, inputs, d))
         /\ \A w \in ToSet(WriteAll(x, inputs, d).outbox) : w \in ToSet(x.outbox) \/ (w.kind = "write" /\ w.input \in ToSet(inputs))
<1> DEFINE y == WriteAll(x, inputs, d)
           C == {"outbox", "proc"}
<1>0. Core(x, H \union {r}) /\ IsSession(x) /\ x.outbox \in Seq(Sends(Known(x)))
  BY DEF Base, Core, QueuesTyped
<1>1. /\ Keeps(x, y, C) /\ y.outbox \in Seq(Sends(Known(x))) /\ ToSet(x.outbox) \subseteq ToSet(y.outbox)
      /\ \A w \in ToSet(y.outbox) : w \in ToSet(x.outbox) \/ (w.kind = "write" /\ w.input \in ToSet(inputs))
      /\ \A i \in ToSet(inputs) : Writes(ToSet(y.outbox), i)
      /\ y.proc = IF x.proc # "none" THEN x.proc ELSE IF SlowOpen THEN "opening" ELSE "up"
  <2>1. inputs \in Seq(Known(x)) /\ d \in Deliveries
    OBVIOUS
  <2>2. Keeps(x, y, C)
    BY <1>0, <2>1, WriteAllDoes
  <2>3. y.outbox \in Seq(Sends(Known(x)))
    BY <1>0, <2>1, WriteAllDoes
  <2>4. ToSet(x.outbox) \subseteq ToSet(y.outbox)
    BY <1>0, <2>1, WriteAllDoes
  <2>5. \A w \in ToSet(y.outbox) : w \in ToSet(x.outbox) \/ (w.kind = "write" /\ w.input \in ToSet(inputs))
    BY <1>0, <2>1, WriteAllDoes
  <2>6. \A i \in ToSet(inputs) : Writes(ToSet(y.outbox), i)
    BY <1>0, <2>1, WriteAllDoes
  <2>7. y.proc = IF x.proc # "none" THEN x.proc ELSE IF SlowOpen THEN "opening" ELSE "up"
    BY <1>0, <2>1, WriteAllDoes
  <2> QED BY <2>2, <2>3, <2>4, <2>5, <2>6, <2>7
<1> HIDE DEF y
<1>2. y.input = x.input /\ Known(y) = Known(x) /\ \A i : Waiting(y, i) <=> Waiting(x, i)
  BY <1>1 DEF Keeps, Fields, Known, Waiting
<1>3. InputsTyped(y) /\ SubsTyped(y)
  <2>1. InputsTyped(x) /\ SubsTyped(x)
    BY <1>0 DEF Core
  <2>2. Keeps(x, y, C)
    BY <1>1
  <2> QED BY <2>1, <2>2, FrameTyped
<1>4. TurnTyped(y)
  BY <1>0, <1>1, <1>2, FrameTurn DEF Core
<1>5. HeldTyped(y)
  BY <1>0, <1>1, <1>2, FrameHeld DEF Core
<1>6. /\ y.waiting = x.waiting /\ y.closing = x.closing /\ y.status = x.status /\ y.request = x.request
      /\ y.lock = x.lock /\ y.turn = x.turn /\ y.phase = x.phase /\ y.timers = x.timers
  BY <1>1 DEF Keeps, Fields
<1>7. QueuesTyped(y)
  BY <1>0, <1>1, <1>2, <1>6 DEF Core, QueuesTyped
<1>8. HandTyped(y, H)
  BY <1>0, <1>2 DEF Core, HandTyped
<1>9. ProcTyped(y) /\ y.proc # "none"
  BY <1>0, <1>1, <1>6 DEF Core, ProcTyped
<1>10. LockKept(y, H)
  <2>1. /\ Entries(x, H \union {r}) = Entries(x, H) \union {r} /\ Entries(x, H) \subseteq Entries(y, H)
    BY <1>1, <1>6 DEF Entries
  <2> QED BY <1>0, <1>6, <2>1 DEF Core, LockKept, Writes, Unlocks
<1>11. ClosedRests(y)
  BY <1>6 DEF ClosedRests
<1>12. Asked(y)
  BY <1>1, <1>2, FrameAsked DEF Base
<1>13. NoneLost(y, H)
  <2>1. Entries(x, H \union {r}) = Entries(x, H) \union {r} /\ Entries(x, H) \subseteq Entries(y, H)
    BY <1>1, <1>6 DEF Entries
  <2>2. y.held = x.held /\ y.front = x.front /\ y.given = x.given
    BY <1>1 DEF Keeps, Fields
  <2>3. ASSUME NEW i \in Input, Waiting(y, i) PROVE Placed(y, H, i)
    <3>1. Placed(x, H \union {r}, i)
      BY <1>2, <2>3 DEF Base, NoneLost
    <3>2. CASE i \in ToSet(r.carry)
      <4>1. Writes(ToSet(y.outbox), i)
        BY <1>1, <3>2
      <4> QED BY <4>1 DEF Placed, Writes, Entries
    <3>3. CASE i \notin ToSet(r.carry)
      BY <1>6, <2>1, <2>2, <3>1, <3>3 DEF Placed, Writes, Carries
    <3> QED BY <3>2, <3>3
  <2> QED BY <2>3 DEF NoneLost
<1>14. Base(y, H)
  BY <1>1, <1>3, <1>4, <1>5, <1>7, <1>8, <1>9, <1>10, <1>11, <1>12, <1>13 DEF Base, Core, Keeps
<1>15. TurnShape(x) => TurnShape(y) /\ (Limited(x) => Limited(y))
  <2>1. x.proc # "none" => y.proc = x.proc
    BY <1>1
  <2> QED BY <1>6, <2>1 DEF TurnShape, Limited, TurnOpen
<1>16. Quiet(x) => Quiet(y)
  BY <1>1, FrameShape
<1> QED BY <1>1, <1>9, <1>14, <1>15, <1>16 DEF y

-----------------------------------------------------------------------------
(* Retirements. *)

\* Inputs change place, in the session or between it and the hand.
LEMMA MovesKeep ==
  ASSUME NEW x, NEW y, NEW H, NEW G, Keeps(x, y, {"held", "front", "pending"}), Base(x, H), HeldTyped(y),
         NoneLost(y, G), LockKept(x, G), HandTyped(x, G)
  PROVE  /\ Base(y, G) /\ Known(y) = Known(x)
         /\ TurnShape(x) => TurnShape(y)
         /\ Limited(x) => Limited(y)
         /\ Quiet(x) => Quiet(y)
<1>0. Core(x, H)
  BY DEF Base
<1>1. y.input = x.input /\ Known(y) = Known(x) /\ \A i : Waiting(y, i) <=> Waiting(x, i)
  BY DEF Keeps, Fields, Known, Waiting
<1>2. IsSession(y) /\ InputsTyped(y) /\ SubsTyped(y)
  BY <1>0, FrameTyped DEF Core
<1>3. TurnTyped(y)
  BY <1>0, <1>1, FrameTurn DEF Core
<1>4. QueuesTyped(y)
  BY <1>0, <1>1, FrameQueues DEF Core
<1>5. ProcTyped(y)
  BY <1>0, FrameProc DEF Core
<1>6. LockKept(y, G)
  BY FrameLock
<1>7. ClosedRests(y)
  BY <1>0, <1>1, FrameClosed DEF Core
<1>8. Asked(y)
  BY <1>1, FrameAsked DEF Base
<1>9. HandTyped(y, G)
  BY <1>1 DEF HandTyped
<1>10. (TurnShape(x) => TurnShape(y)) /\ (Limited(x) => Limited(y)) /\ (Quiet(x) => Quiet(y))
  BY FrameShape
<1> QED BY <1>1, <1>2, <1>3, <1>4, <1>5, <1>6, <1>7, <1>8, <1>9, <1>10 DEF Base, Core

\* Nothing is under way with a process.
Ended(x) == x.turn = NoTurn /\ x.closing = <<>> /\ x.waiting = <<>> /\ x.request = {}

\* The caller of a retirement that is in hand may go on: it answers for nothing that waits once
\* the session is closed.
MayReturn(x, r) ==
  /\ r.then = "close" => \A w \in ToSet(x.outbox) : ~Waiting(x, w.input)
  /\ x.status = "closed" => \A i \in ToSet(r.carry) : ~Waiting(x, i)

Returned(x, y, r) ==
  /\ Keeps(x, y, {"outbox", "proc", "held", "timers", "grace", "status", "lock"})
  /\ Ended(y) /\ (y.status = "open" <=> x.status = "open" /\ r.then # "close")
  /\ \A w \in ToSet(y.outbox) : w \in ToSet(x.outbox) \/ (w.kind = "write" /\ w.input \in ToSet(r.carry))

LEMMA AfterRetireCarries ==
  ASSUME NEW x, NEW H, NEW r \in Ends(Known(x)), Good(x, H \union {r}), Ended(x),
         r.then = "carry", x.status = "open", r.carry # <<>>
  PROVE  Good(AfterRetire(x, r), H) /\ Returned(x, AfterRetire(x, r), r)
<1> DEFINE y == AfterRetire(x, r)
<1>1. r.kind = "retire" /\ r.carry \in Seq(Known(x))
  BY DEF Ends
<1>2. y = IF NativeQueue THEN WriteAll(x, r.carry, "queue")
          ELSE Write([x EXCEPT !.held = @ \o Tail(r.carry)], Head(r.carry), "queue")
  BY DEF AfterRetire
<1>3. Base(x, H \union {r}) /\ TurnShape(x) /\ Limited(x) /\ Quiet(x) /\ "queue" \in Deliveries
  BY DEF Good, Deliveries
<1> HIDE DEF y
<1>4. CASE NativeQueue
  <2>1. y = WriteAll(x, r.carry, "queue")
    BY <1>2, <1>4
  <2>2. Keeps(x, y, {"outbox", "proc"}) /\ Base(y, H)
    BY <1>1, <1>3, <2>1, WriteAllKeeps
  <2>3. TurnShape(y) /\ Limited(y) /\ Quiet(y)
    BY <1>1, <1>3, <2>1, WriteAllKeeps
  <2>4. \A w \in ToSet(y.outbox) : w \in ToSet(x.outbox) \/ (w.kind = "write" /\ w.input \in ToSet(r.carry))
    BY <1>1, <1>3, <2>1, WriteAllKeeps
  <2>5. y.turn = x.turn /\ y.closing = x.closing /\ y.waiting = x.waiting /\ y.request = x.request /\ y.status = x.status
    BY <2>2 DEF Keeps, Fields
  <2>6. Keeps(x, y, {"outbox", "proc", "held", "timers", "grace", "status", "lock"})
    BY <2>2 DEF Keeps
  <2> QED BY <2>2, <2>3, <2>4, <2>5, <2>6 DEF Good, Returned, Ended, y
<1>5. CASE ~NativeQueue
  <2> DEFINE z == [x EXCEPT !.held = @ \o Tail(r.carry)]
             i == Head(r.carry)
             b == Bearer(<<i>>)
             G == H \union {b}
  <2>1. y = WriteAll(z, <<i>>, "queue")
    BY <1>2, <1>5 DEF Write
  <2>2. IsSession(x) /\ HeldTyped(x) /\ HandTyped(x, H) /\ LockKept(x, H \union {r})
    BY <1>3 DEF Base, Core, HandTyped
  <2>3. Keeps(x, z, {"held"}) /\ z.held = x.held \o Tail(r.carry)
    BY <2>2 DEF Keeps, IsSession, Fields
  <2> HIDE DEF z
  <2>4. i \in Known(x) /\ Tail(r.carry) \in Seq(Known(x)) /\ ToSet(r.carry) = {i} \union ToSet(Tail(r.carry))
    BY <1>1, SetOfTail
  <2> HIDE DEF i
  <2>5. z.held \in Seq(Known(x)) /\ ToSet(z.held) = ToSet(x.held) \union ToSet(Tail(r.carry))
    <3>1. x.held \in Seq(Known(x))
      BY <2>2 DEF HeldTyped
    <3> DEFINE rest == Tail(r.carry)
    <3>2. rest \in Seq(Known(x)) /\ z.held = x.held \o rest
      BY <2>3, <2>4
    <3> HIDE DEF rest
    <3>3. x.held \o rest \in Seq(Known(x)) /\ ToSet(x.held \o rest) = ToSet(x.held) \union ToSet(rest)
      BY <3>1, <3>2, SetOfConcat
    <3> QED BY <3>2, <3>3 DEF rest
  <2>6. /\ z.front = x.front /\ z.given = x.given /\ z.pending = x.pending /\ z.request = x.request /\ z.input = x.input
        /\ z.outbox = x.outbox /\ z.proc = x.proc /\ z.status = x.status
    BY <2>3 DEF Keeps, Fields
  <2>7. Known(z) = Known(x) /\ HeldTyped(z)
    BY <2>2, <2>5, <2>6 DEF Known, HeldTyped
  <2>8. <<i>> \in Seq(Known(x)) /\ ToSet(<<i>>) = {i} /\ <<i>> # <<>>
    BY <2>4, SetOfOne
  <2>9. b.kind = "retire" /\ b.then = "carry" /\ b.carry = <<i>> /\ HandTyped(x, G)
    BY <2>2, <2>8, BearerTyped, Bears
  <2> HIDE DEF b
  <2>10. LockKept(x, G)
    <3>1. Entries(x, H \union {r}) = Entries(x, H) \union {r} /\ Entries(x, G) = Entries(x, H) \union {b}
      BY DEF Entries
    <3> QED BY <1>1, <2>2, <3>1 DEF LockKept, Writes, Unlocks
  <2>11. NoneLost(z, G)
    <3>1. Entries(x, H \union {r}) = Entries(x, H) \union {r} /\ Entries(z, G) = Entries(x, H) \union {b}
      <4>1. z.waiting = x.waiting /\ z.closing = x.closing /\ z.outbox = x.outbox
        BY <2>3 DEF Keeps, Fields
      <4> QED BY <4>1 DEF Entries
    <3>2. ASSUME NEW j \in Input, Waiting(z, j) PROVE Placed(z, G, j)
      <4>1. Placed(x, H \union {r}, j)
        BY <1>3, <2>6, <3>2 DEF Base, NoneLost, Waiting
      <4>2. CASE j \in ToSet(r.carry)
        <5>1. CASE j = i
          BY <2>8, <2>9, <3>1, <5>1 DEF Placed, Carries
        <5>2. CASE j \in ToSet(Tail(r.carry))
          BY <2>5, <5>2 DEF Placed
        <5> QED BY <2>4, <4>2, <5>1, <5>2
      <4>3. CASE j \notin ToSet(r.carry)
        BY <1>1, <2>5, <2>6, <3>1, <4>1, <4>3 DEF Placed, Writes, Carries
      <4> QED BY <4>2, <4>3
    <3> QED BY <3>2 DEF NoneLost
  <2>12. Keeps(x, z, {"held", "front", "pending"})
    BY <2>3 DEF Keeps
  <2>13. Base(z, G) /\ TurnShape(z) /\ Limited(z) /\ Quiet(z)
    <3> HIDE DEF G
    <3> QED BY <1>3, <2>7, <2>9, <2>10, <2>11, <2>12, MovesKeep
  <2>14. <<i>> \in Seq(Known(z)) /\ ToSet(b.carry) \subseteq ToSet(<<i>>) /\ z.status = "open"
    BY <2>6, <2>7, <2>8, <2>9
  <2>15. Keeps(z, y, {"outbox", "proc"}) /\ Base(y, H)
    BY <1>3, <2>1, <2>8, <2>9, <2>13, <2>14, WriteAllKeeps
  <2>16. TurnShape(y) /\ Limited(y) /\ Quiet(y)
    BY <1>3, <2>1, <2>8, <2>9, <2>13, <2>14, WriteAllKeeps
  <2>17. \A w \in ToSet(y.outbox) : w \in ToSet(z.outbox) \/ (w.kind = "write" /\ w.input \in ToSet(<<i>>))
    BY <1>3, <2>1, <2>8, <2>9, <2>13, <2>14, WriteAllKeeps
  <2>18. Keeps(x, y, {"outbox", "proc", "held", "timers", "grace", "status", "lock"})
    BY <2>3, <2>15 DEF Keeps
  <2>19. y.turn = x.turn /\ y.closing = x.closing /\ y.waiting = x.waiting /\ y.request = x.request /\ y.status = x.status
    BY <2>3, <2>15 DEF Keeps, Fields
  <2>20. \A w \in ToSet(y.outbox) : w \in ToSet(x.outbox) \/ (w.kind = "write" /\ w.input \in ToSet(r.carry))
    BY <2>4, <2>6, <2>8, <2>17
  <2> QED BY <2>15, <2>16, <2>18, <2>19, <2>20 DEF Good, Returned, Ended, y
<1> QED BY <1>4, <1>5

LEMMA AfterRetireReturns ==
  ASSUME NEW x, NEW H, NEW r \in Ends(Known(x)), Good(x, H \union {r}), Ended(x), MayReturn(x, r),
         r.then \in {"close", "return"}
  PROVE  Good(AfterRetire(x, r), H) /\ Returned(x, AfterRetire(x, r), r)
<1> DEFINE y == AfterRetire(x, r)
           z == CancelAll(x)
           C == {"timers", "grace", "status", "lock"}
<1>1. r.kind = "retire" /\ r.carry = <<>> /\ ToSet(r.carry) = {}
  BY SetOfNone DEF Ends
<1>2. y = IF r.then = "close" THEN [z EXCEPT !.status = "closed", !.lock = None] ELSE [x EXCEPT !.lock = None]
  BY DEF AfterRetire
<1>3. Core(x, H \union {r}) /\ IsSession(x)
  BY DEF Good, Base, Core
<1>4. Keeps(x, z, {"timers", "grace"}) /\ z.timers = {} /\ z.grace = NoGrace
  BY <1>3, CancelAllDoes
<1> HIDE DEF y, z
<1>5. IsSession(z)
  BY <1>4 DEF Keeps
<1>6. /\ Keeps(x, y, C) /\ y.lock = None
      /\ IF r.then = "close" THEN y.status = "closed" /\ y.timers = {} /\ y.grace = NoGrace
         ELSE y.status = x.status /\ y.timers = x.timers /\ y.grace = x.grace
  <2>1. CASE r.then = "close"
    <3>1. y = [z EXCEPT !.status = "closed", !.lock = None]
      BY <1>2, <2>1
    <3>2. /\ Keeps(z, y, {"status", "lock"}) /\ y.status = "closed" /\ y.lock = None /\ y.timers = z.timers
          /\ y.grace = z.grace
      BY <1>5, <3>1 DEF Keeps, IsSession, Fields
    <3>3. Keeps(x, y, C)
      BY <1>4, <3>2 DEF Keeps
    <3> QED BY <1>4, <2>1, <3>2, <3>3
  <2>2. CASE r.then # "close"
    <3>1. y = [x EXCEPT !.lock = None]
      BY <1>2, <2>2
    <3>2. Keeps(x, y, {"lock"}) /\ y.lock = None /\ y.status = x.status /\ y.timers = x.timers /\ y.grace = x.grace
      BY <1>3, <3>1 DEF Keeps, IsSession, Fields
    <3>3. Keeps(x, y, C)
      BY <3>2 DEF Keeps
    <3> QED BY <2>2, <3>2, <3>3
  <2> QED BY <2>1, <2>2
<1>7. /\ y.input = x.input /\ y.turn = x.turn /\ y.turns = x.turns /\ y.phase = x.phase /\ y.settled = x.settled
      /\ y.proc = x.proc /\ y.waiting = x.waiting /\ y.closing = x.closing /\ y.outbox = x.outbox /\ y.request = x.request
  BY <1>6 DEF Keeps, Fields
<1>8. Known(y) = Known(x) /\ \A i : Waiting(y, i) <=> Waiting(x, i)
  BY <1>7 DEF Known, Waiting
<1>9. InputsTyped(y) /\ SubsTyped(y)
  BY <1>3, <1>6, FrameTyped DEF Core
<1>10. TurnTyped(y)
  <2>1. TurnTyped(x)
    BY <1>3 DEF Core
  <2>2. y.timers \subseteq Timer /\ (y.grace # NoGrace => y.grace.turn > 0)
    BY <1>6, <2>1 DEF TurnTyped
  <2> QED BY <1>7, <1>8, <2>1, <2>2 DEF TurnTyped
<1>11. HeldTyped(y)
  BY <1>3, <1>6, <1>8, FrameHeld DEF Core
<1>12. QueuesTyped(y) /\ \A G : Entries(y, G) = Entries(x, G)
  BY <1>3, <1>6, <1>8, FrameQueues DEF Core
<1>13. HandTyped(y, H)
  BY <1>3, <1>8 DEF Core, HandTyped
<1>14. ProcTyped(y)
  BY <1>3, <1>6, <1>7 DEF Core, ProcTyped
<1>15. LockKept(y, H)
  BY <1>6, ToldApart DEF LockKept
<1>16. ClosedRests(y)
  <2>1. CASE r.then = "close"
    <3>1. ToSet(x.waiting) = {} /\ y.closing = <<>> /\ y.request = {}
      BY <1>7, SetOfNone DEF Ended
    <3>2. ToSet(x.outbox) \subseteq Sends(Known(x))
      BY <1>3, SetOf DEF Core, QueuesTyped
    <3>3. \A w \in ToSet(y.outbox) : w.kind = "write" /\ ~Waiting(y, w.input)
      BY <1>7, <1>8, <2>1, <3>2 DEF MayReturn, Sends
    <3>4. y.timers = {} /\ y.grace = NoGrace
      BY <1>6, <2>1
    <3> QED BY <1>6, <1>7, <3>1, <3>3, <3>4 DEF ClosedRests
  <2>2. CASE r.then # "close"
    BY <1>3, <1>6, <1>7, <1>8, <2>2 DEF Core, ClosedRests
  <2> QED BY <2>1, <2>2
<1>17. Asked(y)
  BY <1>6, <1>8, FrameAsked DEF Good, Base
<1>18. NoneLost(y, H)
  <2>1. NoneLost(x, H)
    <3>1. Entries(x, H \union {r}) = Entries(x, H) \union {r} /\ NoneLost(x, H \union {r})
      BY DEF Entries, Good, Base
    <3> QED BY <1>1, <3>1 DEF NoneLost, Placed, Writes, Carries
  <2> QED BY <1>6, <1>8, <2>1, FrameLost
<1>19. TurnShape(y) /\ Quiet(y)
  BY <1>6, FrameShape DEF Good
<1>20. Limited(y)
  BY <1>7 DEF Limited, TurnOpen, Ended
<1>21. Good(y, H)
  BY <1>6, <1>9, <1>10, <1>11, <1>12, <1>13, <1>14, <1>15, <1>16, <1>17, <1>18, <1>19, <1>20 DEF Good, Base, Core, Keeps
<1>22. Keeps(x, y, {"outbox", "proc", "held", "timers", "grace", "status", "lock"})
  BY <1>6 DEF Keeps
<1>23. y.status = "open" <=> x.status = "open" /\ r.then # "close"
  BY <1>6
<1> QED BY <1>7, <1>21, <1>22, <1>23 DEF Returned, Ended, y

LEMMA AfterRetireKeeps ==
  ASSUME NEW x, NEW H, NEW r \in Ends(Known(x)), Good(x, H \union {r}), Ended(x), MayReturn(x, r)
  PROVE  Good(AfterRetire(x, r), H) /\ Returned(x, AfterRetire(x, r), r)
<1>1. r.kind = "retire" /\ r.then \in {"none", "carry", "close", "return"} /\ (r.carry # <<>> => r.then = "carry")
      /\ r.carry \in Seq(Known(x))
  BY DEF Ends
<1>2. CASE r.then = "carry" /\ x.status = "open" /\ r.carry # <<>>
  BY <1>2, AfterRetireCarries
<1>3. CASE r.then \in {"close", "return"}
  BY <1>3, AfterRetireReturns
<1>4. CASE r.then \notin {"close", "return"} /\ ~(r.then = "carry" /\ x.status = "open" /\ r.carry # <<>>)
  <2>1. AfterRetire(x, r) = x
    BY <1>4 DEF AfterRetire
  <2>2. x.status \in {"open", "closed"} /\ IsSession(x)
    BY DEF Good, Base, Core, ProcTyped
  <2>3. \A i \in ToSet(r.carry) : ~Waiting(x, i)
    <3>1. CASE r.carry = <<>>
      BY <3>1, SetOfNone
    <3>2. CASE r.carry # <<>>
      BY <1>1, <1>4, <2>2, <3>2 DEF MayReturn
    <3> QED BY <3>1, <3>2
  <2>4. Good(x, H)
    BY <1>1, <1>4, <2>3, HandDrops
  <2>5. Returned(x, x, r)
    BY <1>4, <2>2 DEF Returned, Keeps
  <2> QED BY <2>1, <2>4, <2>5
<1> QED BY <1>1, <1>2, <1>3, <1>4

\* What a process that closes leaves unanswered, as writes in hand.
Calls(I) == {[kind |-> "write", input |-> i, delivery |-> "queue"] : i \in I}

LEMMA CallsTyped ==
  ASSUME NEW I
  PROVE  /\ Calls(I) \subseteq Sends(I) /\ \A w \in Calls(I) : w.kind = "write" /\ w.input \in I
         /\ \A i \in I : Writes(Calls(I), i)
<1>1. Calls(I) \subseteq Sends(I) /\ \A w \in Calls(I) : w.kind = "write" /\ w.input \in I
  BY DEF Calls, Sends, Deliveries
<1>2. ASSUME NEW i \in I PROVE Writes(Calls(I), i)
  <2> DEFINE w == [kind |-> "write", input |-> i, delivery |-> "queue"]
  <2>1. w \in Calls(I) /\ w.kind = "write" /\ w.input = i
    BY DEF Calls
  <2> HIDE DEF w
  <2> QED BY <2>1 DEF Writes
<1> QED BY <1>1, <1>2

BeganClose(x, y) ==
  /\ Keeps(x, y, {"proc", "closing", "request", "input", "why", "untold", "pending", "lock"})
  /\ y.proc = "closing" /\ Known(y) = Known(x) /\ \A i \in Input : Waiting(y, i) => Waiting(x, i)

LEMMA BeginCloseKeeps ==
  ASSUME NEW x, NEW H, NEW r \in Ends(Known(x)), Base(x, H \union {r}), TurnShape(x), Quiet(x),
         x.status = "open", x.proc \in {"up", "closing"}
  PROVE  Good(BeginClose(x, r), H) /\ BeganClose(x, BeginClose(x, r))
<1> DEFINE I == x.request
           z == [x EXCEPT !.proc = "closing", !.closing = Append(@, r), !.request = {}]
           y == FailWrite(z, I)
           C == {"proc", "closing", "request"}
           D == {"input", "why", "untold", "pending", "lock"}
           W == Calls(I)
<1>1. BeginClose(x, r) = y
  BY DEF BeginClose
<1>2. r.kind = "retire" /\ Core(x, H \union {r}) /\ IsSession(x) /\ x.closing \in Seq(Ends(Known(x))) /\ I \subseteq Known(x)
  BY DEF Ends, Base, Core, QueuesTyped, HeldTyped
<1>3. Keeps(x, z, C) /\ z.proc = "closing" /\ z.closing = Append(x.closing, r) /\ z.request = {}
  BY <1>2 DEF Keeps, IsSession, Fields
<1> HIDE DEF z, I
<1>4. z.closing \in Seq(Ends(Known(x))) /\ z.closing # <<>> /\ ToSet(z.closing) = ToSet(x.closing) \union {r}
  BY <1>2, <1>3, SetOfAppend
<1>5. /\ z.input = x.input /\ z.waiting = x.waiting /\ z.outbox = x.outbox /\ z.status = x.status /\ z.lock = x.lock
      /\ z.held = x.held /\ z.front = x.front /\ z.given = x.given /\ z.pending = x.pending /\ z.turn = x.turn
      /\ z.phase = x.phase
  BY <1>3 DEF Keeps, Fields
<1>6. Known(z) = Known(x) /\ \A i : Waiting(z, i) <=> Waiting(x, i)
  BY <1>5 DEF Known, Waiting
<1>7. W \subseteq Sends(I) /\ (\A w \in W : w.kind = "write" /\ w.input \in I) /\ \A i \in I : Writes(W, i)
  BY CallsTyped
<1> HIDE DEF W
<1>8. Core(z, H \union W)
  <2>1. InputsTyped(z) /\ SubsTyped(z)
    BY <1>2, <1>3, FrameTyped DEF Core
  <2>2. TurnTyped(z)
    BY <1>2, <1>3, <1>6, FrameTurn DEF Core
  <2>3. HeldTyped(z)
    BY <1>2, <1>3, <1>5, <1>6 DEF Core, HeldTyped
  <2>4. QueuesTyped(z)
    BY <1>2, <1>4, <1>5, <1>6 DEF Core, QueuesTyped
  <2>5. HandTyped(z, H \union W)
    <3>1. HandTyped(x, H)
      BY <1>2 DEF Core, HandTyped
    <3>2. W \subseteq Sends(Known(x))
      BY <1>2, <1>7 DEF Sends
    <3> QED BY <1>6, <3>1, <3>2 DEF HandTyped
  <2>6. ProcTyped(z)
    BY <1>2, <1>3, <1>4, <1>5 DEF Core, ProcTyped
  <2>7. LockKept(z, H \union W)
    <3>1. Entries(x, H \union {r}) \subseteq Entries(z, H \union W) /\ W \subseteq Entries(z, H \union W)
      BY <1>4, <1>5 DEF Entries
    <3>2. LockKept(x, H \union {r})
      BY <1>2 DEF Core
    <3>3. ASSUME z.lock \in Input PROVE Writes(Entries(z, H \union W), z.lock)
      <4>1. CASE x.lock \in x.request
        BY <1>5, <1>7, <3>1, <4>1 DEF Writes, I
      <4>2. CASE Writes(Entries(x, H \union {r}), x.lock)
        BY <1>5, <3>1, <4>2 DEF Writes
      <4> QED BY <1>5, <3>2, <3>3, <4>1, <4>2 DEF LockKept
    <3>4. ASSUME z.lock = "call" PROVE Unlocks(Entries(z, H \union W))
      BY <1>5, <3>1, <3>2, <3>4 DEF LockKept, Unlocks
    <3> QED BY <1>5, <3>2, <3>3, <3>4 DEF LockKept
  <2>8. ClosedRests(z)
    BY <1>5 DEF ClosedRests
  <2> QED BY <1>3, <2>1, <2>2, <2>3, <2>4, <2>5, <2>6, <2>7, <2>8 DEF Core, Keeps
<1>9. I \subseteq Input
  BY <1>2 DEF Known
<1>10. /\ Keeps(z, y, D) /\ Known(y) = Known(z)
       /\ \A i \in Input : Waiting(y, i) => Waiting(z, i) /\ i \notin I
  BY <1>7, <1>8, <1>9, FailWriteKeeps
<1>11. Core(y, H) /\ (TurnShape(z) => TurnShape(y)) /\ (Quiet(z) => Quiet(y))
  BY <1>7, <1>8, <1>9, FailWriteKeeps
<1> HIDE DEF y
<1>12. TurnShape(z) /\ Quiet(z)
  <2>1. TurnShape(z)
    BY <1>3, <1>5 DEF TurnShape, TurnOpen
  <2>2. Quiet(z)
    BY <1>3, FrameShape
  <2> QED BY <2>1, <2>2
<1>13. /\ y.turn = x.turn /\ y.given = x.given /\ y.held = x.held /\ y.front = x.front /\ y.proc = "closing"
       /\ y.waiting = x.waiting /\ y.outbox = x.outbox /\ y.closing = z.closing
  BY <1>3, <1>5, <1>10 DEF Keeps, Fields
<1>14. Asked(y)
  BY <1>6, <1>10, <1>13 DEF Base, Asked, I
<1>15. NoneLost(y, H)
  <2>1. Entries(y, H) = Entries(x, H \union {r})
    BY <1>4, <1>13 DEF Entries
  <2>2. ASSUME NEW i \in Input, Waiting(y, i) PROVE Placed(y, H, i)
    <3>1. Placed(x, H \union {r}, i) /\ i \notin x.request
      BY <1>6, <1>10, <2>2 DEF Base, NoneLost, I
    <3> QED BY <1>13, <2>1, <3>1 DEF Placed
  <2> QED BY <2>2 DEF NoneLost
<1>16. Limited(y)
  BY <1>13 DEF Limited
<1>17. Good(y, H)
  BY <1>11, <1>12, <1>14, <1>15, <1>16 DEF Good, Base
<1>18. BeganClose(x, y)
  <2>1. Keeps(x, y, {"proc", "closing", "request", "input", "why", "untold", "pending", "lock"})
    BY <1>3, <1>10 DEF Keeps
  <2> QED BY <1>6, <1>10, <1>13, <2>1 DEF BeganClose
<1> QED BY <1>1, <1>17, <1>18

\* Cancelling what is armed.
LEMMA CancelAllKeeps ==
  ASSUME NEW x, NEW H, Base(x, H)
  PROVE  /\ Keeps(x, CancelAll(x), {"timers", "grace"}) /\ Base(CancelAll(x), H) /\ Known(CancelAll(x)) = Known(x)
         /\ TurnShape(x) => TurnShape(CancelAll(x))
         /\ Quiet(x) => Quiet(CancelAll(x))
<1> DEFINE y == CancelAll(x)
           C == {"timers", "grace"}
<1>1. Core(x, H) /\ IsSession(x)
  BY DEF Base, Core
<1>2. Keeps(x, y, C) /\ y.timers = {} /\ y.grace = NoGrace
  BY <1>1, CancelAllDoes
<1> HIDE DEF y
<1>3. /\ y.input = x.input /\ y.turn = x.turn /\ y.turns = x.turns /\ y.phase = x.phase /\ y.settled = x.settled
      /\ y.status = x.status /\ y.lock = x.lock /\ y.closing = x.closing /\ y.request = x.request
      /\ y.waiting = x.waiting /\ y.outbox = x.outbox
  BY <1>2 DEF Keeps, Fields
<1>4. Known(y) = Known(x) /\ \A i : Waiting(y, i) <=> Waiting(x, i)
  BY <1>3 DEF Known, Waiting
<1>5. IsSession(y) /\ InputsTyped(y) /\ SubsTyped(y)
  BY <1>1, <1>2, FrameTyped DEF Core
<1>6. TurnTyped(y)
  BY <1>1, <1>2, <1>3, <1>4 DEF Core, TurnTyped
<1>7. HeldTyped(y)
  BY <1>1, <1>2, <1>4, FrameHeld DEF Core
<1>8. QueuesTyped(y)
  BY <1>1, <1>2, <1>4, FrameQueues DEF Core
<1>9. HandTyped(y, H)
  BY <1>1, <1>4 DEF Core, HandTyped
<1>10. ProcTyped(y)
  BY <1>1, <1>2, FrameProc DEF Core
<1>11. LockKept(y, H)
  BY <1>1, <1>2, FrameLock DEF Core
<1>12. ClosedRests(y)
  BY <1>1, <1>2, <1>3, <1>4 DEF Core, ClosedRests
<1>13. Asked(y) /\ NoneLost(y, H)
  BY <1>2, <1>4, FrameAsked, FrameLost DEF Base
<1>14. (TurnShape(x) => TurnShape(y)) /\ (Quiet(x) => Quiet(y))
  BY <1>2, FrameShape
<1> QED BY <1>2, <1>4, <1>5, <1>6, <1>7, <1>8, <1>9, <1>10, <1>11, <1>12, <1>13, <1>14 DEF Base, Core, y

LEMMA RetireKeeps ==
  ASSUME NEW x, NEW H, NEW r \in Ends(Known(x)), Base(x, H \union {r}), TurnShape(x), Quiet(x),
         x.status = "open", r.carry # <<>> => x.proc \in {"up", "closing"}
  PROVE  Good(Retire(x, r), H) /\ (r.then # "close" => Retire(x, r).status = "open")
<1> DEFINE y == CancelAll(x)
<1>1. Keeps(x, y, {"timers", "grace"}) /\ Base(y, H \union {r}) /\ Known(y) = Known(x) /\ TurnShape(y) /\ Quiet(y)
  BY CancelAllKeeps
<1>2. Retire(x, r) = CASE x.proc = "none" -> AfterRetire(y, r)
                      [] x.proc = "opening" -> [y EXCEPT !.waiting = Append(@, r)]
                      [] OTHER -> BeginClose(y, r)
  BY DEF Retire
<1> HIDE DEF y
<1>3. y.proc = x.proc /\ y.status = "open" /\ y.turn = x.turn
  BY <1>1 DEF Keeps, Fields
<1>4. ProcTyped(y) /\ IsSession(y) /\ QueuesTyped(y) /\ ClosedRests(y)
  BY <1>1 DEF Base, Core
<1>5. CASE x.proc = "none"
  <2>1. Retire(x, r) = AfterRetire(y, r)
    BY <1>2, <1>5
  <2>2. y.turn = NoTurn
    BY <1>1, <1>3, <1>5 DEF TurnShape, TurnOpen
  <2>3. Ended(y) /\ y.outbox = <<>>
    BY <1>3, <1>4, <1>5, <2>2 DEF Ended, ProcTyped
  <2>4. Limited(y)
    BY <2>2 DEF Limited, TurnOpen
  <2>5. MayReturn(y, r)
    BY <1>3, <2>3, SetOfNone DEF MayReturn
  <2>6. Good(y, H \union {r}) /\ r \in Ends(Known(y))
    BY <1>1, <2>4 DEF Good
  <2>7. Good(AfterRetire(y, r), H) /\ Returned(y, AfterRetire(y, r), r)
    BY <2>3, <2>5, <2>6, AfterRetireKeeps
  <2> QED BY <1>3, <2>1, <2>7 DEF Returned
<1>6. CASE x.proc = "opening"
  <2> DEFINE z == [y EXCEPT !.waiting = Append(@, r)]
             S == Sends(Known(x)) \union Plain(Known(x))
  <2>1. Retire(x, r) = z
    BY <1>2, <1>6
  <2>2. Keeps(y, z, {"waiting"}) /\ z.waiting = Append(y.waiting, r)
    BY <1>4 DEF Keeps, IsSession, Fields
  <2> HIDE DEF z
  <2>3. r.kind = "retire" /\ r \in S
    BY <1>6 DEF Ends, Plain
  <2>4. y.waiting \in Seq(S)
    BY <1>1, <1>4 DEF QueuesTyped
  <2> HIDE DEF S
  <2>5. z.waiting \in Seq(S) /\ z.waiting # <<>> /\ ToSet(z.waiting) = ToSet(y.waiting) \union {r}
    BY <2>2, <2>3, <2>4, SetOfAppend
  <2>6. /\ z.input = y.input /\ z.closing = y.closing /\ z.outbox = y.outbox /\ z.status = y.status /\ z.lock = y.lock
        /\ z.request = y.request /\ z.proc = y.proc /\ z.held = y.held /\ z.front = y.front /\ z.given = y.given
    BY <2>2 DEF Keeps, Fields
  <2>7. Known(z) = Known(y) /\ \A i : Waiting(z, i) <=> Waiting(y, i)
    BY <2>6 DEF Known, Waiting
  <2>8. Entries(z, H) = Entries(y, H \union {r})
    BY <2>5, <2>6 DEF Entries
  <2>9. InputsTyped(z) /\ SubsTyped(z) /\ IsSession(z)
    BY <1>1, <2>2, FrameTyped DEF Base, Core
  <2>10. TurnTyped(z)
    BY <1>1, <2>2, <2>7, FrameTurn DEF Base, Core
  <2>11. HeldTyped(z)
    BY <1>1, <2>2, <2>7, FrameHeld DEF Base, Core
  <2>12. QueuesTyped(z)
    BY <1>1, <1>4, <2>5, <2>6, <2>7 DEF QueuesTyped, S
  <2>13. HandTyped(z, H)
    BY <1>1, <2>7 DEF Base, Core, HandTyped
  <2>14. ProcTyped(z)
    BY <1>3, <1>4, <1>6, <2>5, <2>6 DEF ProcTyped
  <2>15. LockKept(z, H)
    BY <1>1, <2>6, <2>8 DEF Base, Core, LockKept
  <2>16. ClosedRests(z)
    BY <1>3, <2>6 DEF ClosedRests
  <2>17. Asked(z)
    BY <1>1, <2>2, <2>7, FrameAsked DEF Base
  <2>18. NoneLost(z, H)
    BY <1>1, <2>6, <2>7, <2>8 DEF Base, NoneLost, Placed
  <2>19. TurnShape(z) /\ Quiet(z)
    BY <1>1, <2>2, FrameShape
  <2>20. Limited(z)
    BY <1>3, <1>6, <2>6 DEF Limited
  <2> QED BY <1>3, <2>1, <2>6, <2>9, <2>10, <2>11, <2>12, <2>13, <2>14, <2>15, <2>16, <2>17, <2>18, <2>19, <2>20 DEF Good, Base, Core
<1>7. CASE x.proc \notin {"none", "opening"}
  <2>1. Retire(x, r) = BeginClose(y, r)
    BY <1>2, <1>7
  <2>2. y.proc \in {"up", "closing"} /\ r \in Ends(Known(y))
    BY <1>1, <1>3, <1>4, <1>7 DEF ProcTyped
  <2>3. Good(BeginClose(y, r), H) /\ BeganClose(y, BeginClose(y, r))
    BY <1>1, <1>3, <2>2, BeginCloseKeeps
  <2>4. BeginClose(y, r).status = y.status
    BY <2>3 DEF BeganClose, Keeps, Fields
  <2> QED BY <1>3, <2>1, <2>3, <2>4
<1> QED BY <1>5, <1>6, <1>7

\* What the end of the work of a process leaves: no turn, and of the accepted inputs those that
\* are carried over.
WorkEnded(x, y, r) ==
  /\ Keeps(x, y, {"input", "why", "untold", "turn", "sub", "held", "front", "pending", "roster", "phase", "settled"})
  /\ y.turn = NoTurn /\ y.phase # "turn" /\ Known(y) = Known(x)
  /\ \A i \in Input : Waiting(y, i) => Waiting(x, i) /\ i \in ToSet(r.carry)

LEMMA EndRunningWorkDoes ==
  ASSUME NEW x, IsSession(x), InputsTyped(x), SubsTyped(x), NEW r
  PROVE  /\ WorkEnded(x, EndRunningWork(x, r), r) /\ InputsTyped(EndRunningWork(x, r)) /\ SubsTyped(EndRunningWork(x, r))
         /\ EndRunningWork(x, r).held = <<>> /\ EndRunningWork(x, r).front = <<>>
         /\ EndRunningWork(x, r).pending.inputs = <<>> /\ EndRunningWork(x, r).phase \in {"idle", "background"}
         /\ x.settled \in BOOLEAN => EndRunningWork(x, r).settled \in BOOLEAN
         /\ Quiet(x) => Quiet(EndRunningWork(x, r))
<1> DEFINE keep == ToSet(r.carry)
           done == IF r.complete THEN {i \in Input \ keep : x.input[i] = "started"} ELSE {}
           lost == {i \in Input \ (keep \union done) : x.input[i] \in {"accepted", "started"}}
           cut == Running(x, Native)
           stays == Running(x, Delegated) # {}
           u == SetInputs(x, done, "completed")
           v == Interrupt(u, lost, r.why)
           y == EndRunningWork(x, r)
<1>1. y = [v EXCEPT
             !.turn = NoTurn,
             !.sub = [n \in Native \union Delegated |-> IF n \in cut THEN "stopped" ELSE @[n]],
             !.untold = @ \union cut,
             !.held = <<>>, !.front = <<>>, !.pending = NoPending, !.roster = None,
             !.phase = IF stays THEN "background" ELSE "idle",
             !.settled = @ \/ ~stays]
  BY DEF EndRunningWork
<1>2. Keeps(x, u, {"input"}) /\ u.input = [i \in Input |-> IF i \in done THEN "completed" ELSE x.input[i]]
  BY SetInputsDoes
<1>3. done \subseteq {i \in Input : x.input[i] = "started"}
  OBVIOUS
<1>4. lost \subseteq Input /\ \A i \in Input : x.input[i] = "accepted" => i \in lost \/ i \in keep
  OBVIOUS
<1>5. \A i \in lost : x.input[i] # "none"
  OBVIOUS
<1> HIDE DEF u, done
<1>6. Keeps(u, v, {"input", "why", "untold"}) /\ v.input = [i \in Input |-> IF i \in lost THEN "interrupted" ELSE u.input[i]]
  BY <1>2, InterruptDoes DEF Keeps
<1> HIDE DEF v, lost, y
<1>7. Keeps(x, v, {"input", "why", "untold"})
  BY <1>2, <1>6 DEF Keeps
<1>8. v.sub = x.sub /\ v.settled = x.settled /\ v.delivery = x.delivery
  BY <1>7 DEF Keeps, Fields
<1> HIDE DEF cut, stays
<1>9. /\ Keeps(v, y, {"turn", "sub", "untold", "held", "front", "pending", "roster", "phase", "settled"})
      /\ y.turn = NoTurn /\ y.held = <<>> /\ y.front = <<>> /\ y.pending = NoPending /\ y.roster = None
      /\ y.phase = (IF stays THEN "background" ELSE "idle")
      /\ y.sub = [n \in Native \union Delegated |-> IF n \in cut THEN "stopped" ELSE x.sub[n]]
      /\ y.settled = (x.settled \/ ~stays)
  <2> DEFINE tree == [n \in Native \union Delegated |-> IF n \in cut THEN "stopped" ELSE v.sub[n]]
             told == v.untold \union cut
             ph == IF stays THEN "background" ELSE "idle"
             calm == v.settled \/ ~stays
  <2>1. IsSession(v)
    BY <1>6 DEF Keeps
  <2>2. y = [v EXCEPT !.turn = NoTurn, !.sub = tree, !.untold = told, !.held = <<>>, !.front = <<>>,
                      !.pending = NoPending, !.roster = None, !.phase = ph, !.settled = calm]
    BY <1>1
  <2>3. tree = [n \in Native \union Delegated |-> IF n \in cut THEN "stopped" ELSE x.sub[n]] /\ calm = (x.settled \/ ~stays)
    BY <1>8
  <2>4. ph = IF stays THEN "background" ELSE "idle"
    OBVIOUS
  <2> HIDE DEF tree, told, ph, calm
  <2>5. Keeps(v, y, {"turn", "sub", "untold", "held", "front", "pending", "roster", "phase", "settled"})
    <3>1. v = [f \in Fields |-> v[f]] /\ v.setup = session.setup
      BY <2>1 DEF IsSession
    <3>3. ASSUME NEW f \in Fields,
                 f \notin {"turn", "sub", "untold", "held", "front", "pending", "roster", "phase", "settled"}
          PROVE  y[f] = v[f]
      BY <2>2, <3>1, <3>3
    <3>4. y = [f \in Fields |-> y[f]]
      BY <2>2, <3>1, Zenon
    <3>5. y.setup = session.setup
      BY <3>1, <3>3 DEF Fields
    <3> QED BY <3>3, <3>4, <3>5 DEF Keeps, IsSession
  <2>6. y.turn = NoTurn /\ y.held = <<>> /\ y.front = <<>> /\ y.pending = NoPending /\ y.roster = None
    BY <2>1, <2>2 DEF IsSession, Fields
  <2>7. y.phase = ph /\ y.sub = tree /\ y.settled = calm
    BY <2>1, <2>2 DEF IsSession, Fields
  <2> QED BY <2>3, <2>4, <2>5, <2>6, <2>7
<1>10. Keeps(x, y, {"input", "why", "untold", "turn", "sub", "held", "front", "pending", "roster", "phase", "settled"})
  BY <1>7, <1>9 DEF Keeps
<1>11. y.input = v.input /\ y.delivery = x.delivery
  BY <1>8, <1>9 DEF Keeps, Fields
<1>12. \A i \in Input : y.input[i] = IF i \in lost THEN "interrupted" ELSE IF i \in done THEN "completed" ELSE x.input[i]
  BY <1>2, <1>6, <1>11
<1>13. InputsTyped(y)
  <2>1. x.input \in [Input -> Inputs] /\ x.delivery \in [Input -> Deliveries]
    BY DEF InputsTyped
  <2>2. v.input \in [Input -> Inputs]
    BY <1>2, <1>6, <2>1 DEF Inputs
  <2> QED BY <1>11, <2>1, <2>2 DEF InputsTyped
<1>14. Known(y) = Known(x) /\ \A i \in Input : Waiting(y, i) => Waiting(x, i) /\ i \in keep
  <2>1. \A i \in Input : y.input[i] # "none" <=> x.input[i] # "none"
    BY <1>3, <1>5, <1>12
  <2>2. \A i \in Input : Waiting(y, i) => Waiting(x, i) /\ i \in keep
    BY <1>4, <1>12 DEF Waiting
  <2> QED BY <2>1, <2>2 DEF Known
<1>15. SubsTyped(y)
  BY <1>9 DEF SubsTyped, Subs
<1>16. Quiet(x) => Quiet(y)
  <2>1. Live(y) = Running(y, Native \union Delegated)
    BY <1>9 DEF Live
  <2>2. CASE stays
    <3>1. Live(x) # {}
      BY <2>2 DEF Live, Running, stays
    <3> QED BY <1>9, <2>2, <3>1 DEF Quiet
  <2>3. CASE ~stays
    <3>1. Running(y, Native \union Delegated) = {}
      BY <1>9, <2>3 DEF Running, stays, cut
    <3> QED BY <2>1, <3>1 DEF Quiet
  <2> QED BY <2>2, <2>3
<1>17. y.pending.inputs = <<>>
  BY <1>9 DEF NoPending
<1>18. y.phase \in {"idle", "background"} /\ (x.settled \in BOOLEAN => y.settled \in BOOLEAN)
  BY <1>9
<1>19. WorkEnded(x, y, r)
  BY <1>9, <1>10, <1>14, <1>18 DEF WorkEnded
<1> QED BY <1>9, <1>13, <1>15, <1>16, <1>17, <1>18, <1>19 DEF y

LEMMA EndRunningWorkKeeps ==
  ASSUME NEW x, NEW H, Core(x, H), NEW r
  PROVE  /\ WorkEnded(x, EndRunningWork(x, r), r) /\ Core(EndRunningWork(x, r), H)
         /\ Quiet(x) => Quiet(EndRunningWork(x, r))
<1> DEFINE y == EndRunningWork(x, r)
           C == {"input", "why", "untold", "turn", "sub", "held", "front", "pending", "roster", "phase", "settled"}
<1>1. IsSession(x) /\ InputsTyped(x) /\ SubsTyped(x) /\ x.settled \in BOOLEAN
  BY DEF Core, TurnTyped
<1>2. WorkEnded(x, y, r) /\ InputsTyped(y) /\ SubsTyped(y)
  BY <1>1, EndRunningWorkDoes
<1>3. /\ y.held = <<>> /\ y.front = <<>> /\ y.pending.inputs = <<>> /\ y.phase \in {"idle", "background"} /\ y.settled \in BOOLEAN
      /\ (Quiet(x) => Quiet(y))
  BY <1>1, EndRunningWorkDoes
<1> HIDE DEF y
<1>4. Keeps(x, y, C) /\ Known(y) = Known(x) /\ y.turn = NoTurn /\ \A i \in Input : Waiting(y, i) => Waiting(x, i)
  BY <1>2 DEF WorkEnded
<1>5. y.turns = x.turns /\ y.timers = x.timers /\ y.grace = x.grace /\ y.given = x.given /\ y.request = x.request
  BY <1>4 DEF Keeps, Fields
<1>6. TurnTyped(y)
  BY <1>3, <1>4, <1>5 DEF Core, TurnTyped, NoTurn
<1>7. HeldTyped(y)
  BY <1>3, <1>4, <1>5 DEF Core, HeldTyped
<1>8. QueuesTyped(y)
  BY <1>4, FrameQueues DEF Core
<1>9. HandTyped(y, H)
  BY <1>4 DEF Core, HandTyped
<1>10. ProcTyped(y)
  BY <1>4, FrameProc DEF Core
<1>11. LockKept(y, H)
  BY <1>4, FrameLock DEF Core
<1>12. ClosedRests(y)
  <2>1. /\ y.status = x.status /\ y.closing = x.closing /\ y.timers = x.timers /\ y.lock = x.lock
        /\ y.grace = x.grace /\ y.request = x.request /\ y.waiting = x.waiting /\ y.outbox = x.outbox
    BY <1>4 DEF Keeps, Fields
  <2>2. ASSUME NEW w \in ToSet(x.waiting) \union ToSet(x.outbox), w.kind = "write" PROVE w.input \in Input
    <3>1. ToSet(x.waiting) \subseteq Sends(Known(x)) \union Plain(Known(x)) /\ ToSet(x.outbox) \subseteq Sends(Known(x))
      BY SetOf DEF Core, QueuesTyped
    <3> QED BY <2>2, <3>1 DEF Sends, Plain, Ends, Known
  <2> QED BY <1>4, <2>1, <2>2 DEF Core, ClosedRests
<1>13. IsSession(y)
  BY <1>4 DEF Keeps
<1> QED BY <1>2, <1>3, <1>6, <1>7, <1>8, <1>9, <1>10, <1>11, <1>12, <1>13 DEF Core, y

-----------------------------------------------------------------------------
(* Turns and sends. *)

\* Fewer inputs wait, and so nothing new goes on in a closed session.
LEMMA ClosedFewer ==
  ASSUME NEW x, NEW y, NEW C, Keeps(x, y, C), ClosedRests(x), QueuesTyped(x),
         \A i \in Input : Waiting(y, i) => Waiting(x, i),
         {"status", "lock", "closing", "timers", "grace", "request", "waiting", "outbox"} \intersect C = {}
  PROVE  ClosedRests(y)
<1>1. /\ y.status = x.status /\ y.lock = x.lock /\ y.closing = x.closing /\ y.timers = x.timers
      /\ y.grace = x.grace /\ y.request = x.request /\ y.waiting = x.waiting /\ y.outbox = x.outbox
  BY DEF Keeps, Fields
<1>2. ASSUME NEW w \in ToSet(x.waiting) \union ToSet(x.outbox), w.kind = "write" PROVE w.input \in Input
  <2>1. ToSet(x.waiting) \subseteq Sends(Known(x)) \union Plain(Known(x)) /\ ToSet(x.outbox) \subseteq Sends(Known(x))
    BY SetOf DEF QueuesTyped
  <2> QED BY <1>2, <2>1 DEF Sends, Plain, Ends, Known
<1> QED BY <1>1, <1>2 DEF ClosedRests

\* Inputs change place, also to the process and with the lock.
LEMMA PlacesKeep ==
  ASSUME NEW x, NEW y, NEW H, NEW G, Keeps(x, y, {"held", "front", "pending", "given", "request", "lock"} \union Loose),
         Core(x, H), HeldTyped(y), y.request # {} => y.proc = "up", LockKept(y, G), HandTyped(x, G), ClosedRests(y)
  PROVE  /\ Core(y, G) /\ Known(y) = Known(x) /\ \A i : Waiting(y, i) <=> Waiting(x, i)
         /\ TurnShape(x) => TurnShape(y)
         /\ Limited(x) => Limited(y)
         /\ Quiet(x) => Quiet(y)
<1>1. y.input = x.input /\ Known(y) = Known(x) /\ \A i : Waiting(y, i) <=> Waiting(x, i)
  BY DEF Keeps, Fields, Known, Waiting, Loose
<1>2. IsSession(y) /\ InputsTyped(y) /\ SubsTyped(y)
  BY FrameTyped DEF Core, Loose
<1>3. TurnTyped(y)
  BY <1>1, FrameTurn DEF Core, Loose
<1>4. QueuesTyped(y)
  BY <1>1, FrameQueues DEF Core, Loose
<1>5. ProcTyped(y)
  <2>1. /\ y.proc = x.proc /\ y.status = x.status /\ y.waiting = x.waiting /\ y.closing = x.closing /\ y.outbox = x.outbox
    BY DEF Keeps, Fields, Loose
  <2> QED BY <2>1 DEF Core, ProcTyped
<1>6. HandTyped(y, G)
  BY <1>1 DEF HandTyped
<1>7. (TurnShape(x) => TurnShape(y)) /\ (Limited(x) => Limited(y)) /\ (Quiet(x) => Quiet(y))
  BY FrameShape DEF Loose
<1> QED BY <1>1, <1>2, <1>3, <1>4, <1>5, <1>6, <1>7 DEF Core

\* A write in hand whose input is accounted for is let go with the lock of its call.
LEMMA UnlockDrops ==
  ASSUME NEW x, NEW H, NEW w, w.kind = "write", Base(x, H \union {w}), ~Waiting(x, w.input) \/ Placed(x, H, w.input)
  PROVE  /\ Keeps(x, Unlock(x, {w.input}), {"lock"}) /\ Base(Unlock(x, {w.input}), H)
         /\ Known(Unlock(x, {w.input})) = Known(x) /\ \A i : Waiting(Unlock(x, {w.input}), i) <=> Waiting(x, i)
         /\ TurnShape(x) => TurnShape(Unlock(x, {w.input}))
         /\ Limited(x) => Limited(Unlock(x, {w.input}))
         /\ Quiet(x) => Quiet(Unlock(x, {w.input}))
<1> DEFINE y == Unlock(x, {w.input})
           C == {"held", "front", "pending", "given", "request", "lock"} \union Loose
<1>0. Core(x, H \union {w}) /\ IsSession(x)
  BY DEF Base, Core
<1>1. Keeps(x, y, {"lock"}) /\ y.lock = IF x.lock \in {w.input} THEN None ELSE x.lock
  BY <1>0, UnlockDoes
<1> HIDE DEF y
<1>2. Keeps(x, y, C)
  BY <1>1 DEF Keeps
<1>3. /\ y.held = x.held /\ y.front = x.front /\ y.given = x.given /\ y.pending = x.pending /\ y.request = x.request
      /\ y.input = x.input /\ y.proc = x.proc /\ y.status = x.status
      /\ y.waiting = x.waiting /\ y.closing = x.closing /\ y.outbox = x.outbox
  BY <1>1 DEF Keeps, Fields
<1>4. HeldTyped(y)
  BY <1>0, <1>3 DEF Core, HeldTyped, Known
<1>5. LockKept(y, H)
  <2>1. Entries(y, H) = Entries(x, H) /\ Entries(x, H \union {w}) = Entries(x, H) \union {w}
    BY <1>3 DEF Entries
  <2>2. LockKept(x, H \union {w})
    BY <1>0 DEF Core
  <2>3. CASE y.lock = None
    BY <2>3, ToldApart DEF LockKept
  <2>4. CASE y.lock = x.lock /\ x.lock # w.input
    BY <1>3, <2>1, <2>2, <2>4 DEF LockKept, Writes, Unlocks
  <2> QED BY <1>1, <2>3, <2>4
<1>6. ClosedRests(y)
  <2>1. y.lock \in {x.lock, None} /\ y.timers = x.timers /\ y.grace = x.grace
    BY <1>1 DEF Keeps, Fields
  <2> QED BY <1>0, <1>3, <2>1 DEF Core, ClosedRests, Waiting
<1>7. HandTyped(x, H) /\ (y.request # {} => y.proc = "up")
  BY <1>0, <1>3 DEF Core, HandTyped, ProcTyped
<1>8. /\ Core(y, H) /\ Known(y) = Known(x) /\ (\A i : Waiting(y, i) <=> Waiting(x, i))
      /\ (TurnShape(x) => TurnShape(y)) /\ (Limited(x) => Limited(y)) /\ (Quiet(x) => Quiet(y))
  BY <1>0, <1>2, <1>4, <1>5, <1>6, <1>7, PlacesKeep
<1>9. Asked(y)
  BY <1>1, <1>8, FrameAsked DEF Base
<1>10. NoneLost(y, H)
  <2>1. Entries(y, H) = Entries(x, H) /\ Entries(x, H \union {w}) = Entries(x, H) \union {w}
    BY <1>3 DEF Entries
  <2>2. ASSUME NEW i \in Input, Waiting(y, i) PROVE Placed(y, H, i)
    <3>1. Placed(x, H \union {w}, i) /\ Waiting(x, i)
      BY <1>8, <2>2 DEF Base, NoneLost
    <3>2. Placed(x, H, i)
      <4>1. CASE i = w.input
        BY <3>1, <4>1
      <4>2. CASE i # w.input
        BY <2>1, <3>1, <4>2 DEF Placed, Writes, Carries
      <4> QED BY <4>1, <4>2
    <3> QED BY <1>3, <2>1, <3>2 DEF Placed
  <2> QED BY <2>2 DEF NoneLost
<1> QED BY <1>1, <1>8, <1>9, <1>10 DEF Base, y

LEMMA StartInputDoes ==
  ASSUME NEW x, IsSession(x), NEW I
  PROVE  /\ Keeps(x, StartInput(x, I), {"input", "turn"})
         /\ StartInput(x, I).input = [i \in Input |-> IF i \in I /\ Waiting(x, i) THEN "started" ELSE x.input[i]]
         /\ StartInput(x, I).turn = IF TurnOpen(x) THEN [id |-> x.turn.id, inputs |-> x.turn.inputs \union {i \in I : Waiting(x, i)}]
                                    ELSE x.turn
<1> DEFINE now == {i \in I : Waiting(x, i)}
           t == IF TurnOpen(x) THEN [id |-> x.turn.id, inputs |-> x.turn.inputs \union now] ELSE x.turn
           u == SetInputs(x, now, "started")
           y == StartInput(x, I)
<1>1. Keeps(x, u, {"input"}) /\ u.input = [i \in Input |-> IF i \in now THEN "started" ELSE x.input[i]]
  BY SetInputsDoes
<1>2. y = [u EXCEPT !.turn = t]
  BY DEF StartInput
<1>3. \A i \in Input : i \in now <=> i \in I /\ Waiting(x, i)
  OBVIOUS
<1> HIDE DEF u, t, y
<1>4. Keeps(u, y, {"turn"}) /\ y.turn = t /\ y.input = u.input
  BY <1>1, <1>2 DEF Keeps, IsSession, Fields
<1>5. Keeps(x, y, {"input", "turn"})
  BY <1>1, <1>4 DEF Keeps
<1>6. y.input = [i \in Input |-> IF i \in I /\ Waiting(x, i) THEN "started" ELSE x.input[i]]
  BY <1>1, <1>3, <1>4
<1> QED BY <1>4, <1>5, <1>6 DEF t, y

Started(x, y, I) ==
  /\ Keeps(x, y, {"input", "turn"}) /\ Known(y) = Known(x)
  /\ \A i \in Input : Waiting(y, i) => Waiting(x, i) /\ i \notin I
  /\ TurnOpen(y) <=> TurnOpen(x)

LEMMA StartInputKeeps ==
  ASSUME NEW x, NEW H, NEW I, Base(x, H), TurnShape(x), I \subseteq Input
  PROVE  /\ Base(StartInput(x, I), H) /\ TurnShape(StartInput(x, I)) /\ Started(x, StartInput(x, I), I)
         /\ Limited(x) => Limited(StartInput(x, I))
         /\ Quiet(x) => Quiet(StartInput(x, I))
<1> DEFINE y == StartInput(x, I)
           now == {i \in I : Waiting(x, i)}
           C == {"input", "turn"}
<1>0. Core(x, H) /\ IsSession(x)
  BY DEF Base, Core
<1>1. /\ Keeps(x, y, C)
      /\ y.input = [i \in Input |-> IF i \in I /\ Waiting(x, i) THEN "started" ELSE x.input[i]]
      /\ y.turn = IF TurnOpen(x) THEN [id |-> x.turn.id, inputs |-> x.turn.inputs \union now] ELSE x.turn
  BY <1>0, StartInputDoes
<1> HIDE DEF y
<1>2. Known(y) = Known(x) /\ \A i \in Input : Waiting(y, i) => Waiting(x, i) /\ i \notin I
  BY <1>0, <1>1 DEF Core, InputsTyped, Known, Waiting
<1>3. InputsTyped(y)
  <2>1. y.delivery = x.delivery
    BY <1>1 DEF Keeps, Fields
  <2> QED BY <1>0, <1>1, <2>1 DEF Core, InputsTyped, Inputs
<1>4. SubsTyped(y)
  BY <1>0, <1>1, FrameTyped DEF Core
<1>5. /\ y.turns = x.turns /\ y.phase = x.phase /\ y.timers = x.timers /\ y.settled = x.settled /\ y.grace = x.grace
      /\ y.proc = x.proc /\ y.given = x.given /\ y.request = x.request
  BY <1>1 DEF Keeps, Fields
<1>6. TurnTyped(y) /\ (TurnOpen(y) <=> TurnOpen(x)) /\ y.turn.id = x.turn.id
  <2>1. TurnTyped(x)
    BY <1>0 DEF Core
  <2>2. CASE TurnOpen(x)
    <3>1. y.turn = [id |-> x.turn.id, inputs |-> x.turn.inputs \union now] /\ x.turn.id > 0
      BY <1>1, <2>2 DEF TurnShape
    <3>2. y.turn.id = x.turn.id /\ y.turn.inputs = x.turn.inputs \union now
      BY <3>1
    <3>3. now \subseteq Known(x)
      BY DEF Known, Waiting
    <3>4. y.turn # NoTurn
      <4>1. NoTurn.id = 0
        BY DEF NoTurn
      <4> QED BY <3>1, <3>2, <4>1
    <3>5. y.turn = [id |-> y.turn.id, inputs |-> y.turn.inputs]
      BY <3>1, <3>2
    <3>6. y.turn.inputs \subseteq Known(y)
      BY <1>2, <2>1, <3>2, <3>3 DEF TurnTyped
    <3>7. TurnTyped(y)
      BY <1>5, <2>1, <3>2, <3>5, <3>6 DEF TurnTyped
    <3> QED BY <2>2, <3>2, <3>4, <3>7 DEF TurnOpen
  <2>3. CASE ~TurnOpen(x)
    <3>1. y.turn = x.turn
      BY <1>1, <2>3
    <3> QED BY <1>2, <1>5, <2>1, <3>1 DEF TurnTyped, TurnOpen
  <2> QED BY <2>2, <2>3
<1>7. HeldTyped(y)
  BY <1>0, <1>1, <1>2, FrameHeld DEF Core
<1>8. QueuesTyped(y)
  BY <1>0, <1>1, <1>2, FrameQueues DEF Core
<1>9. HandTyped(y, H)
  BY <1>0, <1>2 DEF Core, HandTyped
<1>10. ProcTyped(y)
  BY <1>0, <1>1, FrameProc DEF Core
<1>11. LockKept(y, H)
  BY <1>0, <1>1, FrameLock DEF Core
<1>12. ClosedRests(y)
  BY <1>0, <1>1, <1>2, ClosedFewer DEF Core
<1>13. Asked(y)
  <2>1. \A i \in Input : Waiting(y, i) /\ i \in y.turn.inputs => i \in x.turn.inputs
    <3>1. CASE TurnOpen(x)
      BY <1>1, <1>2, <3>1
    <3>2. CASE ~TurnOpen(x)
      BY <1>1, <3>2
    <3> QED BY <3>1, <3>2
  <2> QED BY <1>2, <1>5, <2>1 DEF Base, Asked
<1>14. NoneLost(y, H)
  <2>1. \A i \in Input : Waiting(y, i) => Waiting(x, i)
    BY <1>2
  <2>2. /\ y.held = x.held /\ y.front = x.front /\ Entries(y, H) = Entries(x, H)
    <3>1. y.held = x.held /\ y.front = x.front
      BY <1>1 DEF Keeps, Fields
    <3>2. Entries(y, H) = Entries(x, H)
      BY <1>1, FrameQueues
    <3> QED BY <3>1, <3>2
  <2> QED BY <1>5, <2>1, <2>2 DEF Base, NoneLost, Placed
<1>15. TurnShape(y)
  BY <1>5, <1>6 DEF TurnShape
<1>16. Limited(x) => Limited(y)
  BY <1>5, <1>6 DEF Limited
<1>17. Quiet(x) => Quiet(y)
  BY <1>1, FrameShape
<1>18. IsSession(y)
  BY <1>1 DEF Keeps
<1>19. Base(y, H)
  BY <1>3, <1>4, <1>6, <1>7, <1>8, <1>9, <1>10, <1>11, <1>12, <1>13, <1>14, <1>18 DEF Base, Core
<1>20. Started(x, y, I)
  BY <1>1, <1>2, <1>6 DEF Started
<1> QED BY <1>15, <1>16, <1>17, <1>19, <1>20 DEF y

TurnBegan(x, y) ==
  /\ Keeps(x, y, {"timers", "turn", "turns", "phase", "handoffs", "news", "pending"})
  /\ Known(y) = Known(x) /\ \A i : Waiting(y, i) <=> Waiting(x, i)

LEMMA StartTurnKeeps ==
  ASSUME NEW x, NEW H, NEW I, Base(x, H), I \subseteq Known(x), \A i \in I : Waiting(x, i) => i \in x.request,
         x.proc \in {"up", "closing"}, x.status = "open"
  PROVE  /\ Base(StartTurn(x, I), H) /\ TurnShape(StartTurn(x, I)) /\ Limited(StartTurn(x, I))
         /\ TurnBegan(x, StartTurn(x, I))
         /\ Quiet(x) => Quiet(StartTurn(x, I))
<1> DEFINE byUser == I # {} /\ ~(I \subseteq System)
           u == Cancel(x, {"idle", "stall"})
           v == Arm(u, {"turnInactivity"})
           t == [id |-> x.turns + 1, inputs |-> I]
           n == x.turns + 1
           h == IF byUser THEN 0 ELSE x.handoffs
           p == IF ToSet(x.pending.inputs) \intersect I # {} THEN NoPending ELSE x.pending
           y == StartTurn(x, I)
           C == {"timers", "turn", "turns", "phase", "handoffs", "news", "pending"}
<1>0. Core(x, H) /\ IsSession(x)
  BY DEF Base, Core
<1>1. Keeps(x, u, {"timers"}) /\ u.timers = x.timers \ {"idle", "stall"}
  BY <1>0, CancelDoes
<1> HIDE DEF u
<1>2. Keeps(u, v, {"timers"}) /\ v.timers = u.timers \union {"turnInactivity"}
  BY <1>1, ArmDoes DEF Keeps
<1> HIDE DEF v
<1>3. Keeps(x, v, {"timers"}) /\ v.turns = x.turns /\ v.handoffs = x.handoffs /\ v.pending = x.pending
  BY <1>1, <1>2 DEF Keeps, Fields
<1>4. y = [v EXCEPT !.turn = t, !.turns = n, !.phase = "turn", !.handoffs = h, !.news = {}, !.pending = p]
  <2>1. y = [v EXCEPT
         !.turn = [id |-> x.turns + 1, inputs |-> I], !.turns = @ + 1, !.phase = "turn",
         !.handoffs = IF byUser THEN 0 ELSE @, !.news = {},
         !.pending = IF ToSet(@.inputs) \intersect I # {} THEN NoPending ELSE @]
    BY DEF StartTurn, u, v
  <2> QED BY <1>3, <2>1
<1>5. p \in {NoPending, x.pending} /\ n = x.turns + 1 /\ t.id = x.turns + 1 /\ t.inputs = I /\ t = [id |-> t.id, inputs |-> t.inputs]
  OBVIOUS
<1> HIDE DEF t, n, h, p, y
<1>6. Keeps(v, y, C) /\ y.turn = t /\ y.turns = n /\ y.phase = "turn" /\ y.pending = p /\ y.timers = v.timers
  <2>1. v = [f \in Fields |-> v[f]] /\ v.setup = session.setup
    BY <1>2 DEF Keeps, IsSession
  <2>2. ASSUME NEW f \in Fields, f \notin {"turn", "turns", "phase", "handoffs", "news", "pending"} PROVE y[f] = v[f]
    BY <1>4, <2>1, <2>2
  <2>3. y = [f \in Fields |-> y[f]]
    BY <1>4, <2>1, Zenon
  <2>4. y.setup = session.setup
    BY <2>1, <2>2 DEF Fields
  <2>5. Keeps(v, y, {"turn", "turns", "phase", "handoffs", "news", "pending"})
    BY <2>2, <2>3, <2>4 DEF Keeps, IsSession
  <2>6. y.turn = t /\ y.turns = n /\ y.phase = "turn" /\ y.pending = p
    BY <1>4, <2>1 DEF Fields
  <2>7. y.timers = v.timers
    BY <2>5 DEF Keeps, Fields
  <2> QED BY <2>5, <2>6, <2>7 DEF Keeps
<1>7. Keeps(x, y, C)
  BY <1>3, <1>6 DEF Keeps
<1>8. /\ y.input = x.input /\ y.settled = x.settled /\ y.grace = x.grace /\ y.held = x.held /\ y.front = x.front
      /\ y.given = x.given /\ y.request = x.request /\ y.proc = x.proc /\ y.status = x.status
  BY <1>7 DEF Keeps, Fields
<1>9. Known(y) = Known(x) /\ \A i : Waiting(y, i) <=> Waiting(x, i)
  BY <1>8 DEF Known, Waiting
<1>10. IsSession(y) /\ InputsTyped(y) /\ SubsTyped(y)
  BY <1>0, <1>7, FrameTyped DEF Core
<1>11. TurnTyped(y) /\ y.turn.id > 0
  <2>1. TurnTyped(x)
    BY <1>0 DEF Core
  <2>2. y.timers \subseteq Timer
    BY <1>1, <1>2, <1>6, <2>1 DEF TurnTyped, Timer
  <2>3. y.turns \in Nat /\ y.turn.id \in Nat /\ y.turn.id <= y.turns /\ y.turn.id > 0
    BY <1>5, <1>6, <2>1 DEF TurnTyped
  <2> QED BY <1>5, <1>6, <1>8, <1>9, <2>1, <2>2, <2>3 DEF TurnTyped
<1>12. HeldTyped(y)
  <2>1. HeldTyped(x)
    BY <1>0 DEF Core
  <2>2. y.pending.inputs \in Seq(Known(x))
    <3>1. NoPending.inputs \in Seq(Known(x))
      BY DEF NoPending
    <3> QED BY <1>5, <1>6, <2>1, <3>1 DEF HeldTyped
  <2> QED BY <1>8, <1>9, <2>1, <2>2 DEF HeldTyped
<1>13. QueuesTyped(y)
  BY <1>0, <1>7, <1>9, FrameQueues DEF Core
<1>14. HandTyped(y, H)
  BY <1>0, <1>9 DEF Core, HandTyped
<1>15. ProcTyped(y)
  BY <1>0, <1>7, FrameProc DEF Core
<1>16. LockKept(y, H)
  BY <1>0, <1>7, FrameLock DEF Core
<1>17. ClosedRests(y)
  BY <1>8 DEF ClosedRests
<1>18. Asked(y)
  BY <1>5, <1>6, <1>8, <1>9 DEF Base, Asked
<1>19. NoneLost(y, H)
  BY <1>7, <1>9, FrameLost DEF Base
<1>20. TurnShape(y) /\ Limited(y)
  <2>1. y.turn # NoTurn
    BY <1>11 DEF NoTurn
  <2>2. "turnInactivity" \in y.timers
    BY <1>2, <1>6
  <2> QED BY <1>6, <1>8, <1>11, <2>1, <2>2 DEF TurnShape, Limited, TurnOpen
<1>21. Quiet(x) => Quiet(y)
  BY <1>7, FrameShape
<1>22. Base(y, H)
  BY <1>10, <1>11, <1>12, <1>13, <1>14, <1>15, <1>16, <1>17, <1>18, <1>19 DEF Base, Core
<1> QED BY <1>7, <1>9, <1>20, <1>21, <1>22 DEF TurnBegan, y

\* A write in hand whose input does not wait, in a session nobody's call waits for.
LEMMA WriteDrops ==
  ASSUME NEW x, NEW H, NEW w, w.kind = "write", Good(x, H \union {w}), ~Waiting(x, w.input) \/ Placed(x, H, w.input),
         x.lock # w.input \/ x.lock \in x.request
  PROVE  Good(x, H)
<1>1. Entries(x, H \union {w}) = Entries(x, H) \union {w}
  BY DEF Entries
<1>2. LockKept(x, H \union {w}) /\ NoneLost(x, H \union {w}) /\ HandTyped(x, H \union {w})
  BY DEF Good, Base, Core
<1>3. LockKept(x, H)
  BY <1>1, <1>2 DEF LockKept, Writes, Unlocks
<1>4. ASSUME NEW i \in Input, Waiting(x, i) PROVE Placed(x, H, i)
  <2>1. Placed(x, H \union {w}, i)
    BY <1>2, <1>4 DEF NoneLost
  <2>2. CASE i = w.input
    BY <1>4, <2>2
  <2>3. CASE i # w.input
    BY <1>1, <2>1, <2>3 DEF Placed, Writes, Carries
  <2> QED BY <2>2, <2>3
<1>5. HandTyped(x, H)
  BY <1>2 DEF HandTyped
<1> QED BY <1>3, <1>4, <1>5 DEF Good, Base, Core, NoneLost

SentFields == {"sent", "given", "lock", "request", "input", "why", "untold", "pending", "turn", "turns", "phase",
               "handoffs", "news", "timers"}
Sent(x, y) ==
  Keeps(x, y, SentFields) /\ Known(y) = Known(x) /\ \A i \in Input : Waiting(y, i) => Waiting(x, i)

\* What Claude runs next, with the input that was just written.
LEMMA GivenGrows ==
  ASSUME NEW x, NEW I, x.given \in Seq(I), I \subseteq Input, NEW i \in I
  PROVE  Ahead(x, i) \in Seq(I) /\ ToSet(Ahead(x, i)) = ToSet(x.given) \union {i}
<1> DEFINE cuts == ToSet(x.pending.inputs)
           first == Only(x.given, cuts)
           rest == Only(x.given, Input \ cuts)
           up == Append(first, i)
<1>1. first \in Seq(I) /\ ToSet(first) = ToSet(x.given) \intersect cuts
  BY OnlySound
<1>2. rest \in Seq(I) /\ ToSet(rest) = ToSet(x.given) \intersect (Input \ cuts)
  BY OnlySound
<1>3. Ahead(x, i) = up \o rest
  BY DEF Ahead
<1>4. ToSet(x.given) \subseteq Input
  BY SetOf
<1> HIDE DEF cuts, first, rest
<1>5. up \in Seq(I) /\ ToSet(up) = ToSet(first) \union {i}
  BY <1>1, SetOfAppend
<1> HIDE DEF up
<1>6. up \o rest \in Seq(I) /\ ToSet(up \o rest) = ToSet(up) \union ToSet(rest)
  BY <1>2, <1>5, SetOfConcat
<1> QED BY <1>1, <1>2, <1>3, <1>4, <1>5, <1>6

LEMMA SendClaude ==
  ASSUME NEW x, NEW H, NEW w \in Sends(Known(x)), Good(x, H \union {w}), x.status = "open", x.proc = "up", Driver = "claude"
  PROVE  Good(Send(x, w), H) /\ Sent(x, Send(x, w))
<1> DEFINE i == w.input
           y == [x EXCEPT !.sent[i] = @ + 1]
           g == IF w.delivery = "interrupt" THEN Ahead(x, i) ELSE Append(x.given, i)
           z == [y EXCEPT !.given = g]
           u == Unlock(z, {i})
           C == {"held", "front", "pending", "given", "request", "lock"} \union Loose
<1>0. Core(x, H \union {w}) /\ IsSession(x) /\ x.given \in Seq(Known(x)) /\ w.kind = "write" /\ i \in Known(x)
  BY DEF Good, Base, Core, HeldTyped, Sends
<1>1. Keeps(x, y, {"sent"}) /\ y.given = x.given
  BY <1>0 DEF Keeps, IsSession, Fields
<1>2. Send(x, w) = u
  <2>1. [y EXCEPT !.given = IF w.delivery = "interrupt" THEN Ahead(x, i) ELSE Append(@, i)] = z
    BY <1>1
  <2>2. Send(x, w) = Unlock([y EXCEPT !.given = IF w.delivery = "interrupt" THEN Ahead(x, i) ELSE Append(@, i)], {i})
    BY DEF Send
  <2> QED BY <2>1, <2>2
<1>3. g \in Seq(Known(x)) /\ ToSet(g) = ToSet(x.given) \union {i}
  <2>1. Known(x) \subseteq Input
    BY DEF Known
  <2>2. CASE w.delivery = "interrupt"
    BY <1>0, <2>1, <2>2, GivenGrows
  <2>3. CASE w.delivery # "interrupt"
    BY <1>0, <2>3, SetOfAppend
  <2> QED BY <2>2, <2>3
<1> HIDE DEF y, g
<1>4. Keeps(y, z, {"given"}) /\ z.given = g
  BY <1>1 DEF Keeps, IsSession, Fields
<1> HIDE DEF z, i
<1>5. Keeps(x, z, C) /\ Keeps(x, z, {"sent", "given"})
  BY <1>1, <1>4 DEF Keeps, Loose
<1>6. /\ z.held = x.held /\ z.front = x.front /\ z.pending = x.pending /\ z.request = x.request /\ z.input = x.input
      /\ z.turn = x.turn /\ z.proc = x.proc /\ z.status = x.status
  BY <1>5 DEF Keeps, Fields
<1>7. HeldTyped(z)
  BY <1>0, <1>3, <1>4, <1>6 DEF Core, HeldTyped, Known
<1>8. LockKept(z, H \union {w})
  BY <1>0, <1>5, FrameLock DEF Core
<1>9. ClosedRests(z) /\ (z.request # {} => z.proc = "up") /\ HandTyped(x, H \union {w})
  BY <1>0, <1>6 DEF Core, ClosedRests
<1>10. /\ Core(z, H \union {w}) /\ Known(z) = Known(x) /\ (\A j : Waiting(z, j) <=> Waiting(x, j))
       /\ TurnShape(z) /\ Limited(z) /\ Quiet(z)
  <2> HIDE DEF C
  <2> DEFINE G == H \union {w}
  <2>1. Core(x, G) /\ LockKept(z, G) /\ HandTyped(x, G) /\ TurnShape(x) /\ Limited(x) /\ Quiet(x)
    BY <1>0, <1>8, <1>9 DEF Good
  <2> HIDE DEF G
  <2>2. /\ Core(z, G) /\ Known(z) = Known(x) /\ (\A j : Waiting(z, j) <=> Waiting(x, j))
        /\ TurnShape(z) /\ Limited(z) /\ Quiet(z)
    BY <1>5, <1>7, <1>9, <2>1, PlacesKeep DEF C
  <2> QED BY <2>2 DEF G
<1>11. Asked(z)
  BY <1>6, <1>10 DEF Good, Base, Asked
<1>12. NoneLost(z, H \union {w})
  <2>1. Entries(z, H \union {w}) = Entries(x, H \union {w})
    BY <1>5, FrameQueues
  <2> QED BY <1>3, <1>4, <1>6, <1>10, <2>1 DEF Good, Base, NoneLost, Placed
<1>13. Placed(z, H, i)
  BY <1>3, <1>4 DEF Placed
<1>14. Base(z, H \union {w})
  BY <1>10, <1>11, <1>12 DEF Base
<1>15. /\ Keeps(z, u, {"lock"}) /\ Base(u, H) /\ Known(u) = Known(z) /\ (\A j : Waiting(u, j) <=> Waiting(z, j))
       /\ TurnShape(u) /\ Limited(u) /\ Quiet(u)
  BY <1>0, <1>10, <1>13, <1>14, UnlockDrops DEF i
<1> HIDE DEF u
<1>16. Keeps(x, u, SentFields)
  BY <1>5, <1>15 DEF Keeps, SentFields
<1> QED BY <1>2, <1>10, <1>15, <1>16 DEF Good, Sent

LEMMA SendCodex ==
  ASSUME NEW x, NEW H, NEW w \in Sends(Known(x)), Good(x, H \union {w}), x.status = "open", x.proc = "up", Driver = "codex"
  PROVE  Good(Send(x, w), H) /\ Sent(x, Send(x, w))
<1> DEFINE i == w.input
           y == [x EXCEPT !.sent[i] = @ + 1]
           g == IF w.delivery = "steer" /\ TurnOpen(x) THEN x.given ELSE Append(x.given, i)
           q == x.request \union {i}
           z == [y EXCEPT !.request = q, !.given = g]
           C == {"held", "front", "pending", "given", "request", "lock"} \union Loose
<1>0. Core(x, H \union {w}) /\ IsSession(x) /\ x.given \in Seq(Known(x)) /\ w.kind = "write" /\ i \in Known(x)
  BY DEF Good, Base, Core, HeldTyped, Sends
<1>1. Keeps(x, y, {"sent"}) /\ y.given = x.given /\ y.request = x.request
  BY <1>0 DEF Keeps, IsSession, Fields
<1>2. Send(x, w) = z
  <2>1. [y EXCEPT !.request = @ \union {i}, !.given = IF w.delivery = "steer" /\ TurnOpen(x) THEN @ ELSE Append(@, i)] = z
    BY <1>1
  <2>2. Send(x, w) = [y EXCEPT !.request = @ \union {i}, !.given = IF w.delivery = "steer" /\ TurnOpen(x) THEN @ ELSE Append(@, i)]
    BY DEF Send
  <2> QED BY <2>1, <2>2
<1>3. g \in Seq(Known(x)) /\ ToSet(g) \subseteq ToSet(x.given) \union {i} /\ ToSet(x.given) \subseteq ToSet(g)
  <2>1. CASE w.delivery = "steer" /\ TurnOpen(x)
    BY <1>0, <2>1
  <2>2. CASE ~(w.delivery = "steer" /\ TurnOpen(x))
    BY <1>0, <2>2, SetOfAppend
  <2> QED BY <2>1, <2>2
<1>17. q = x.request \union {i}
  OBVIOUS
<1> HIDE DEF y, g, q
<1>4. Keeps(y, z, {"given", "request"}) /\ z.given = g /\ z.request = q
  BY <1>1 DEF Keeps, IsSession, Fields
<1> HIDE DEF z, i
<1>5. Keeps(x, z, C) /\ Keeps(x, z, SentFields)
  BY <1>1, <1>4 DEF Keeps, Loose, SentFields
<1>6. /\ z.held = x.held /\ z.front = x.front /\ z.pending = x.pending /\ z.input = x.input
      /\ z.turn = x.turn /\ z.proc = x.proc /\ z.status = x.status /\ z.lock = x.lock
      /\ z.waiting = x.waiting /\ z.closing = x.closing /\ z.outbox = x.outbox
  BY <1>1, <1>4 DEF Keeps, Fields
<1>7. HeldTyped(z)
  BY <1>0, <1>3, <1>4, <1>6, <1>17 DEF Core, HeldTyped, Known
<1>18. Entries(x, H \union {w}) = Entries(x, H) \union {w} /\ Entries(z, H) = Entries(x, H)
  BY <1>6 DEF Entries
<1>8. LockKept(z, H)
  BY <1>0, <1>4, <1>6, <1>17, <1>18 DEF Core, LockKept, Writes, Unlocks, i
<1>9. ClosedRests(z) /\ (z.request # {} => z.proc = "up") /\ HandTyped(x, H)
  BY <1>0, <1>6 DEF Core, ClosedRests, HandTyped
<1>10. /\ Core(z, H) /\ Known(z) = Known(x) /\ (\A j : Waiting(z, j) <=> Waiting(x, j))
       /\ TurnShape(z) /\ Limited(z) /\ Quiet(z)
  <2> HIDE DEF C
  <2> DEFINE G == H \union {w}
  <2>1. Core(x, G) /\ TurnShape(x) /\ Limited(x) /\ Quiet(x)
    BY <1>0 DEF Good
  <2> HIDE DEF G
  <2> QED BY <1>5, <1>7, <1>8, <1>9, <2>1, PlacesKeep DEF C
<1>11. Asked(z)
  BY <1>3, <1>4, <1>6, <1>10, <1>17 DEF Good, Base, Asked
<1>12. NoneLost(z, H)
  <2>1. ASSUME NEW j \in Input, Waiting(z, j) PROVE Placed(z, H, j)
    <3>1. Placed(x, H \union {w}, j)
      BY <1>10, <2>1 DEF Good, Base, NoneLost
    <3>2. CASE j = i
      BY <1>4, <1>17, <3>2 DEF Placed
    <3>3. CASE j # i
      BY <1>0, <1>3, <1>4, <1>6, <1>17, <1>18, <3>1, <3>3 DEF Placed, Writes, Carries, i
    <3> QED BY <3>2, <3>3
  <2> QED BY <2>1 DEF NoneLost
<1> QED BY <1>2, <1>5, <1>10, <1>11, <1>12 DEF Good, Base, Sent

LEMMA SendExecutor ==
  ASSUME NEW x, NEW H, NEW w \in Sends(Known(x)), Good(x, H \union {w}), x.status = "open", x.proc = "up",
         Driver \notin {"claude", "codex"}, ~(Driver = "executor" /\ TurnOpen(x))
  PROVE  Good(Send(x, w), H) /\ Sent(x, Send(x, w))
<1> DEFINE i == w.input
           G == H \union {w}
           y == [x EXCEPT !.sent[i] = @ + 1]
           s == StartInput(y, {i})
           t == StartTurn(s, {i})
           u == Unlock(t, {i})
<1>0. IsSession(x) /\ Base(x, G) /\ TurnShape(x) /\ Limited(x) /\ Quiet(x) /\ w.kind = "write" /\ i \in Known(x) /\ {i} \subseteq Input
  BY DEF Good, Base, Core, Sends, Known
<1>1. Keeps(x, y, {"sent"}) /\ y.status = x.status /\ y.proc = x.proc
  BY <1>0 DEF Keeps, IsSession, Fields
<1>2. Send(x, w) = u
  BY DEF Send
<1> HIDE DEF y, i, G
<1>3. Keeps(x, y, Loose)
  BY <1>1 DEF Keeps, Loose
<1>4. Base(y, G) /\ TurnShape(y) /\ Limited(y) /\ Quiet(y) /\ Known(y) = Known(x) /\ \A j : Waiting(y, j) <=> Waiting(x, j)
  BY <1>0, <1>3, LooseKeeps
<1>5. Base(s, G) /\ TurnShape(s) /\ Started(y, s, {i}) /\ Quiet(s)
  BY <1>0, <1>4, StartInputKeeps
<1> HIDE DEF s
<1>6. /\ Keeps(y, s, {"input", "turn"}) /\ Known(s) = Known(y)
      /\ (\A j \in Input : Waiting(s, j) => Waiting(y, j) /\ j \notin {i})
  BY <1>5 DEF Started
<1>7. s.status = "open" /\ s.proc \in {"up", "closing"} /\ {i} \subseteq Known(s) /\ \A j \in {i} : Waiting(s, j) => j \in s.request
  BY <1>0, <1>1, <1>4, <1>6 DEF Keeps, Fields
<1>8. Base(t, G) /\ TurnShape(t) /\ Limited(t) /\ TurnBegan(s, t) /\ Quiet(t)
  BY <1>5, <1>7, StartTurnKeeps
<1> HIDE DEF t
<1>9. ~Waiting(t, i)
  BY <1>0, <1>6, <1>8 DEF TurnBegan
<1>10. /\ Keeps(t, u, {"lock"}) /\ Base(u, H) /\ Known(u) = Known(t) /\ (\A j : Waiting(u, j) <=> Waiting(t, j))
       /\ TurnShape(u) /\ Limited(u) /\ Quiet(u)
  BY <1>0, <1>8, <1>9, UnlockDrops DEF i, G
<1> HIDE DEF u
<1>11. Keeps(x, u, SentFields)
  <2>1. Keeps(s, t, {"timers", "turn", "turns", "phase", "handoffs", "news", "pending"})
    BY <1>8 DEF TurnBegan
  <2> QED BY <1>1, <1>6, <1>10, <2>1 DEF Keeps, SentFields
<1> QED BY <1>2, <1>4, <1>6, <1>8, <1>10, <1>11 DEF Good, Sent, TurnBegan

\* A write goes to the process, or fails, or finds the session closed.
LEMMA SendKeeps ==
  ASSUME NEW x, NEW H, NEW w \in Sends(Known(x)), Good(x, H \union {w}), x.proc \in {"up", "closing"},
         x.status = "closed" => ~Waiting(x, w.input)
  PROVE  Good(Send(x, w), H) /\ Sent(x, Send(x, w))
<1>0. /\ Core(x, H \union {w}) /\ IsSession(x) /\ w.kind = "write" /\ w.input \in Input /\ x.status \in {"open", "closed"}
      /\ LockKept(x, H \union {w}) /\ ClosedRests(x)
  BY DEF Good, Base, Core, Sends, Known, ProcTyped
<1>1. CASE x.status = "closed"
  <2>1. Send(x, w) = x
    BY <1>1 DEF Send
  <2>2. x.lock # w.input
    BY <1>0, <1>1, ToldApart DEF ClosedRests
  <2>3. Good(x, H)
    BY <1>0, <1>1, <2>2, WriteDrops
  <2> QED BY <1>0, <2>1, <2>3 DEF Sent, Keeps
<1>2. ASSUME x.status = "open", x.proc = "closing" \/ (Driver = "executor" /\ TurnOpen(x)) PROVE Good(Send(x, w), H) /\ Sent(x, Send(x, w))
  <2> DEFINE I == {w.input}
             W == {w}
             y == FailWrite(x, I)
  <2>1. Send(x, w) = y
    BY <1>2 DEF Send
  <2>2. I \subseteq Input /\ (\A v \in W : v.kind = "write" /\ v.input \in I) /\ Core(x, H \union W)
    BY <1>0
  <2>3. Base(x, H \union W) /\ TurnShape(x) /\ Limited(x) /\ Quiet(x)
    BY DEF Good
  <2> HIDE DEF I, W
  <2>4. /\ Keeps(x, y, {"input", "why", "untold", "pending", "lock"}) /\ Known(y) = Known(x)
        /\ \A i \in Input : Waiting(y, i) => Waiting(x, i)
    BY <2>2, FailWriteKeeps
  <2>5. Base(y, H) /\ TurnShape(y) /\ Limited(y) /\ Quiet(y)
    BY <2>2, <2>3, FailWriteKeeps
  <2> HIDE DEF y
  <2>6. Keeps(x, y, SentFields)
    BY <2>4 DEF Keeps, SentFields
  <2> QED BY <2>1, <2>4, <2>5, <2>6 DEF Good, Sent
<1>3. ASSUME x.status = "open", x.proc = "up", ~(Driver = "executor" /\ TurnOpen(x))
      PROVE  Good(Send(x, w), H) /\ Sent(x, Send(x, w))
  <2>1. CASE Driver = "claude"
    BY <1>3, <2>1, SendClaude
  <2>2. CASE Driver = "codex"
    BY <1>3, <2>2, SendCodex
  <2>3. CASE Driver \notin {"claude", "codex"}
    BY <1>3, <2>3, SendExecutor
  <2> QED BY <2>1, <2>2, <2>3
<1> QED BY <1>0, <1>1, <1>2, <1>3

-----------------------------------------------------------------------------
(* One entry after the other. *)

\* A queue is worked off in steps, one for each entry.
LEMMA DrainSteps ==
  ASSUME NEW x, NEW how, NEW S, NEW queue \in Seq(S)
  PROVE  \E f : /\ f[0] = x /\ Drain(x, how, queue) = f[Len(queue)]
                /\ \A n \in 1 .. Len(queue) : f[n] = Entry(f[n - 1], how, queue[n])
<1> DEFINE last == Len(queue)
           Next1(g, n) == IF n = 0 THEN x ELSE Entry(g[n - 1], how, queue[n])
           Upto(k) == \E g : g = [n \in 0 .. k |-> Next1(g, n)]
           after == CHOOSE g : g = [n \in 0 .. last |-> Next1(g, n)]
<1>1. Drain(x, how, queue) = after[last]
  BY DEF Drain
<1>2. last \in Nat
  BY LenProperties
<1> HIDE DEF last
<1>3. Upto(0)
  <2> DEFINE g == [n \in 0 .. 0 |-> x]
  <2>1. \A n \in 0 .. 0 : Next1(g, n) = x
    OBVIOUS
  <2>2. g = [n \in 0 .. 0 |-> Next1(g, n)]
    BY <2>1
  <2> HIDE DEF g
  <2> QED BY <2>2
<1>4. ASSUME NEW k \in Nat, Upto(k) PROVE Upto(k + 1)
  <2>1. PICK g : g = [n \in 0 .. k |-> Next1(g, n)]
    BY <1>4
  <2> DEFINE h == [n \in 0 .. k + 1 |-> IF n = k + 1 THEN Entry(g[k], how, queue[k + 1]) ELSE g[n]]
  <2>2. \A n \in 0 .. k + 1 : h[n] = IF n = k + 1 THEN Entry(g[k], how, queue[k + 1]) ELSE g[n]
    OBVIOUS
  <2>3. h = [n \in 0 .. k + 1 |-> h[n]]
    OBVIOUS
  <2> HIDE DEF h
  <2>4. ASSUME NEW n \in 0 .. k + 1 PROVE h[n] = Next1(h, n)
    <3>1. CASE n = 0
      <4>1. 0 \in 0 .. k /\ 0 # k + 1 /\ 0 \in 0 .. k + 1
        OBVIOUS
      <4>2. g[0] = Next1(g, 0)
        <5> HIDE DEF Next1
        <5> QED BY <2>1, <4>1
      <4> QED BY <2>2, <3>1, <4>1, <4>2
    <3>2. CASE n = k + 1
      <4>1. k \in 0 .. k + 1 /\ k # k + 1 /\ n - 1 = k /\ n # 0
        BY <3>2
      <4>2. h[k] = g[k]
        BY <2>2, <4>1
      <4>3. h[n] = Entry(g[k], how, queue[k + 1])
        BY <2>2, <3>2
      <4> QED BY <3>2, <4>1, <4>2, <4>3
    <3>3. CASE n # 0 /\ n # k + 1
      <4>1. n \in 0 .. k /\ n - 1 \in 0 .. k + 1 /\ n - 1 # k + 1
        BY <3>3
      <4>2. g[n] = Next1(g, n)
        <5> HIDE DEF Next1
        <5> QED BY <2>1, <4>1
      <4>3. h[n - 1] = g[n - 1] /\ h[n] = g[n]
        BY <2>2, <3>3, <4>1
      <4> QED BY <3>3, <4>2, <4>3
    <3> QED BY <3>1, <3>2, <3>3
  <2>5. h = [n \in 0 .. k + 1 |-> Next1(h, n)]
    <3> HIDE DEF Next1
    <3> QED BY <2>3, <2>4
  <2> QED BY <2>5
<1>5. Upto(last)
  <2> DEFINE T == {k \in Nat : ~Upto(k)}
  <2> HIDE DEF Upto
  <2> SUFFICES ASSUME ~Upto(last) PROVE FALSE
    OBVIOUS
  <2>1. T # {} /\ T \in SUBSET Nat
    BY <1>2
  <2>2. PICK k \in T : \A j \in T : k <= j
    <3> HIDE DEF T
    <3> QED BY <2>1, LeastOf
  <2>3. k \in Nat /\ ~Upto(k) /\ k # 0
    BY <1>3, <2>2
  <2>4. k - 1 \in Nat /\ (k - 1) + 1 = k /\ ~(k <= k - 1)
    BY <2>3
  <2>5. Upto(k - 1)
    BY <2>2, <2>4
  <2> QED BY <1>4, <2>3, <2>4, <2>5
<1>6. after = [n \in 0 .. last |-> Next1(after, n)]
  <2> HIDE DEF Next1
  <2> QED BY <1>5
<1> HIDE DEF after
<1>7. after[0] = x
  <2>1. 0 \in 0 .. last
    BY <1>2
  <2>2. after[0] = Next1(after, 0)
    <3> HIDE DEF Next1
    <3> QED BY <1>6, <2>1
  <2> QED BY <2>2
<1>8. ASSUME NEW n \in 1 .. last PROVE after[n] = Entry(after[n - 1], how, queue[n])
  <2>1. n \in 0 .. last /\ n # 0
    BY <1>2
  <2>2. after[n] = Next1(after, n)
    <3> HIDE DEF Next1
    <3> QED BY <1>6, <2>1
  <2> QED BY <2>1, <2>2
<1>9. after[0] = x /\ Drain(x, how, queue) = after[last] /\ \A n \in 1 .. last : after[n] = Entry(after[n - 1], how, queue[n])
  BY <1>1, <1>7, <1>8
<1> QED BY <1>9 DEF last

\* The entries of a queue that are still in hand after the first n.
Rest(queue, n) == {queue[k] : k \in n + 1 .. Len(queue)}

LEMMA RestSteps ==
  ASSUME NEW S, NEW queue \in Seq(S)
  PROVE  /\ Len(queue) \in Nat /\ Rest(queue, 0) = ToSet(queue) /\ Rest(queue, Len(queue)) = {}
         /\ \A n \in 1 .. Len(queue) : Rest(queue, n - 1) = Rest(queue, n) \union {queue[n]}
         /\ \A n \in 1 .. Len(queue) : queue[n] \in ToSet(queue) /\ queue[n] \in S
<1>1. Len(queue) \in Nat /\ (\A n \in 1 .. Len(queue) : queue[n] \in S)
  BY LenProperties, ElementOfSeq
<1>2. ASSUME NEW n \in 1 .. Len(queue) PROVE queue[n] \in ToSet(queue) /\ queue[n] \in S
  <2>1. queue[n] \in ToSet(queue)
    BY InSetOf
  <2> QED BY <1>1, <2>1
<1>3. Rest(queue, 0) = ToSet(queue)
  <2>1. \A v : v \in ToSet(queue) <=> \E n \in 1 .. Len(queue) : v = queue[n]
    BY InSetOf
  <2>2. \A v : v \in Rest(queue, 0) <=> \E n \in 0 + 1 .. Len(queue) : v = queue[n]
    BY DEF Rest
  <2>3. 0 + 1 = 1
    OBVIOUS
  <2> QED BY <2>1, <2>2, <2>3
<1>4. Rest(queue, Len(queue)) = {}
  <2>1. Len(queue) + 1 .. Len(queue) = {}
    BY <1>1
  <2> QED BY <2>1 DEF Rest
<1>5. ASSUME NEW n \in 1 .. Len(queue) PROVE Rest(queue, n - 1) = Rest(queue, n) \union {queue[n]}
  <2>1. (n - 1) + 1 = n /\ n .. Len(queue) = (n + 1 .. Len(queue)) \union {n}
    BY <1>1
  <2> QED BY <2>1 DEF Rest
<1> QED BY <1>1, <1>2, <1>3, <1>4, <1>5

-----------------------------------------------------------------------------
(* To the process that is there. *)

Went(x, y, Q) ==
  /\ Known(y) = Known(x) /\ (\A i \in Input : Waiting(y, i) => Waiting(x, i))
  /\ y.status = x.status /\ y.outbox = x.outbox /\ y.proc \in {"up", "closing"}
  /\ (\A w \in Q : w.kind = "write") => y.closing = x.closing

LEMMA EntryGoes ==
  ASSUME NEW x, NEW H, NEW w \in Sends(Known(x)) \union Ends(Known(x)), Good(x, H \union {w}), x.proc \in {"up", "closing"},
         x.status = "closed" => w.kind = "write" /\ ~Waiting(x, w.input)
  PROVE  Good(Entry(x, "go", w), H) /\ Went(x, Entry(x, "go", w), {w})
<1>1. CASE w \in Sends(Known(x))
  <2>1. w.kind = "write"
    BY <1>1 DEF Sends
  <2>2. Entry(x, "go", w) = Send(x, w)
    BY <2>1 DEF Entry
  <2>3. Good(Send(x, w), H) /\ Sent(x, Send(x, w))
    BY <1>1, SendKeeps
  <2>4. Went(x, Send(x, w), {w})
    BY <2>3 DEF Sent, Went, Keeps, SentFields, Fields
  <2> QED BY <2>2, <2>3, <2>4
<1>2. CASE w \in Ends(Known(x))
  <2>1. w.kind = "retire"
    BY <1>2 DEF Ends
  <2>2. Entry(x, "go", w) = BeginClose(x, w)
    BY <2>1 DEF Entry
  <2>3. x.status = "open" /\ Base(x, H \union {w}) /\ TurnShape(x) /\ Quiet(x)
    BY <2>1 DEF Good, Base, Core, ProcTyped
  <2>4. Good(BeginClose(x, w), H) /\ BeganClose(x, BeginClose(x, w))
    BY <1>2, <2>3, BeginCloseKeeps
  <2>5. Went(x, BeginClose(x, w), {w})
    BY <2>1, <2>4 DEF BeganClose, Went, Keeps, Fields
  <2> QED BY <2>2, <2>4, <2>5
<1> QED BY <1>1, <1>2

LEMMA DrainGoes ==
  ASSUME NEW x, NEW H, NEW queue \in Seq(Sends(Known(x)) \union Ends(Known(x))), Good(x, H \union ToSet(queue)),
         x.proc \in {"up", "closing"},
         x.status = "closed" => \A w \in ToSet(queue) : w.kind = "write" /\ ~Waiting(x, w.input)
  PROVE  Good(Drain(x, "go", queue), H) /\ Went(x, Drain(x, "go", queue), ToSet(queue))
<1> DEFINE S == Sends(Known(x)) \union Ends(Known(x))
           last == Len(queue)
           Q == ToSet(queue)
<1>1. PICK f : f[0] = x /\ Drain(x, "go", queue) = f[last] /\ \A n \in 1 .. last : f[n] = Entry(f[n - 1], "go", queue[n])
  BY DrainSteps
<1>2. last \in Nat /\ Rest(queue, 0) = Q /\ Rest(queue, last) = {}
  BY RestSteps
<1>3. \A n \in 1 .. last : Rest(queue, n - 1) = Rest(queue, n) \union {queue[n]} /\ queue[n] \in Q /\ queue[n] \in S
  BY RestSteps
<1>9. x.status = "closed" => \A w \in Q : w.kind = "write" /\ ~Waiting(x, w.input)
  OBVIOUS
<1> DEFINE P(n) == Good(f[n], H \union Rest(queue, n)) /\ Went(x, f[n], Q)
<1>4. P(0)
  BY <1>1, <1>2 DEF Went
<1> HIDE DEF Q
<1>5. ASSUME NEW n \in 1 .. last, P(n - 1) PROVE P(n)
  <2> DEFINE y == f[n - 1]
             w == queue[n]
             G == H \union Rest(queue, n)
  <2>1. H \union Rest(queue, n - 1) = G \union {w} /\ w \in Q /\ w \in S /\ f[n] = Entry(y, "go", w)
    BY <1>1, <1>3
  <2>2. Good(y, G \union {w}) /\ Went(x, y, Q)
    BY <1>5, <2>1
  <2> HIDE DEF y, w, G
  <2>3. w \in Sends(Known(y)) \union Ends(Known(y)) /\ y.proc \in {"up", "closing"}
    BY <2>1, <2>2 DEF Went
  <2>4. y.status = "closed" => w.kind = "write" /\ ~Waiting(y, w.input)
    <3>1. ASSUME y.status = "closed" PROVE w.kind = "write" /\ ~Waiting(y, w.input)
      <4>1. w.kind = "write" /\ ~Waiting(x, w.input)
        BY <1>9, <2>1, <2>2, <3>1 DEF Went
      <4>2. w.input \in Input
        BY <2>1, <4>1 DEF Sends, Ends, Known
      <4> QED BY <2>2, <4>1, <4>2 DEF Went
    <3> QED BY <3>1
  <2>5. Good(Entry(y, "go", w), G) /\ Went(y, Entry(y, "go", w), {w})
    BY <2>2, <2>3, <2>4, EntryGoes
  <2>6. Went(x, Entry(y, "go", w), Q)
    BY <2>1, <2>2, <2>5 DEF Went
  <2> QED BY <2>1, <2>5, <2>6 DEF G
<1>6. P(last)
  <2> DEFINE T == {n \in Nat : n <= last /\ ~P(n)}
  <2> HIDE DEF P, last
  <2> SUFFICES ASSUME ~P(last) PROVE FALSE
    OBVIOUS
  <2>1. T # {} /\ T \in SUBSET Nat
    BY <1>2
  <2>2. PICK n \in T : \A j \in T : n <= j
    <3> HIDE DEF T
    <3> QED BY <2>1, LeastOf
  <2>3. n \in Nat /\ n <= last /\ ~P(n) /\ n # 0
    BY <1>4, <2>2
  <2>4. n \in 1 .. last /\ n - 1 \in Nat /\ n - 1 <= last /\ ~(n <= n - 1)
    BY <1>2, <2>3
  <2>5. P(n - 1)
    BY <2>2, <2>4
  <2> QED BY <1>5, <2>3, <2>4, <2>5
<1> QED BY <1>1, <1>2, <1>6 DEF Q

-----------------------------------------------------------------------------
(* Without a process. *)

Dropped(x, y, Q) ==
  /\ Known(y) = Known(x) /\ (\A i \in Input : Waiting(y, i) => Waiting(x, i)) /\ Ended(y)
  /\ y.status = "closed" => x.status = "closed" \/ \E r \in Q : r.kind = "retire" /\ r.then = "close"
  /\ \A v \in ToSet(y.outbox) : v \in ToSet(x.outbox) \/ (v.kind = "write" /\ Carries(Q, v.input))

LEMMA EntryDrops ==
  ASSUME NEW x, NEW H, NEW w \in Sends(Known(x)) \union Ends(Known(x)), Good(x, H \union {w}), Ended(x),
         w.kind = "retire" => MayReturn(x, w)
  PROVE  Good(Entry(x, "drop", w), H) /\ Dropped(x, Entry(x, "drop", w), {w})
<1>1. CASE w \in Sends(Known(x))
  <2> DEFINE I == {w.input}
             W == {w}
             y == FailWrite(x, I)
  <2>1. w.kind = "write" /\ w.input \in Input
    BY <1>1 DEF Sends, Known
  <2>2. Entry(x, "drop", w) = y
    BY <2>1 DEF Entry
  <2>3. I \subseteq Input /\ (\A v \in W : v.kind = "write" /\ v.input \in I) /\ Core(x, H \union W)
    BY <2>1 DEF Good, Base
  <2>4. Base(x, H \union W) /\ TurnShape(x) /\ Limited(x) /\ Quiet(x)
    BY DEF Good
  <2> HIDE DEF I, W
  <2>5. /\ Keeps(x, y, {"input", "why", "untold", "pending", "lock"}) /\ Known(y) = Known(x)
        /\ \A i \in Input : Waiting(y, i) => Waiting(x, i)
    BY <2>3, FailWriteKeeps
  <2>6. Base(y, H) /\ TurnShape(y) /\ Limited(y) /\ Quiet(y)
    BY <2>3, <2>4, FailWriteKeeps
  <2> HIDE DEF y
  <2>7. /\ y.turn = x.turn /\ y.closing = x.closing /\ y.waiting = x.waiting /\ y.request = x.request
        /\ y.status = x.status /\ y.outbox = x.outbox
    BY <2>5 DEF Keeps, Fields
  <2>8. Dropped(x, y, {w})
    BY <2>5, <2>7 DEF Dropped, Ended
  <2> QED BY <2>2, <2>6, <2>8 DEF Good
<1>2. CASE w \in Ends(Known(x))
  <2> DEFINE y == AfterRetire(x, w)
  <2>1. w.kind = "retire"
    BY <1>2 DEF Ends
  <2>2. Entry(x, "drop", w) = y
    BY <2>1 DEF Entry
  <2>3. Good(y, H) /\ Returned(x, y, w)
    BY <1>2, <2>1, AfterRetireKeeps
  <2> HIDE DEF y
  <2>4. Keeps(x, y, {"outbox", "proc", "held", "timers", "grace", "status", "lock"})
    BY <2>3 DEF Returned
  <2>5. y.input = x.input
    BY <2>4 DEF Keeps, Fields
  <2>6. Known(y) = Known(x) /\ \A i \in Input : Waiting(y, i) => Waiting(x, i)
    BY <2>5 DEF Known, Waiting
  <2>7. y.status = "closed" => x.status = "closed" \/ w.then = "close"
    BY <2>3 DEF Returned, Good, Base, Core, ProcTyped
  <2>8. \A v \in ToSet(y.outbox) : v \in ToSet(x.outbox) \/ (v.kind = "write" /\ Carries({w}, v.input))
    BY <2>1, <2>3 DEF Returned, Carries
  <2>9. Ended(y)
    BY <2>3 DEF Returned
  <2>10. Dropped(x, y, {w})
    BY <2>1, <2>6, <2>7, <2>8, <2>9 DEF Dropped
  <2> QED BY <2>2, <2>3, <2>10
<1> QED BY <1>1, <1>2

\* Nothing that waits is left to a session that is closed or will be.
Rests(x, Q) ==
  (x.status = "closed" \/ \E r \in Q : r.kind = "retire" /\ r.then = "close") =>
    \A i \in Input : Waiting(x, i) => ~Carries(Q, i) /\ \A v \in ToSet(x.outbox) : v.input # i

LEMMA DrainDrops ==
  ASSUME NEW x, NEW H, NEW queue \in Seq(Sends(Known(x)) \union Ends(Known(x))), Good(x, H \union ToSet(queue)), Ended(x),
         Rests(x, ToSet(queue))
  PROVE  Good(Drain(x, "drop", queue), H) /\ Dropped(x, Drain(x, "drop", queue), ToSet(queue))
<1> DEFINE S == Sends(Known(x)) \union Ends(Known(x))
           last == Len(queue)
           Q == ToSet(queue)
<1>1. PICK f : f[0] = x /\ Drain(x, "drop", queue) = f[last] /\ \A n \in 1 .. last : f[n] = Entry(f[n - 1], "drop", queue[n])
  BY DrainSteps
<1>2. last \in Nat /\ Rest(queue, 0) = Q /\ Rest(queue, last) = {}
  BY RestSteps
<1>3. \A n \in 1 .. last : Rest(queue, n - 1) = Rest(queue, n) \union {queue[n]} /\ queue[n] \in Q /\ queue[n] \in S
  BY RestSteps
<1> DEFINE P(n) == Good(f[n], H \union Rest(queue, n)) /\ Dropped(x, f[n], Q)
<1>4. P(0)
  BY <1>1, <1>2 DEF Dropped
<1>9. Rests(x, Q)
  OBVIOUS
<1> HIDE DEF Q
<1>5. ASSUME NEW n \in 1 .. last, P(n - 1) PROVE P(n)
  <2> DEFINE y == f[n - 1]
             w == queue[n]
             G == H \union Rest(queue, n)
             z == Entry(y, "drop", w)
  <2>1. H \union Rest(queue, n - 1) = G \union {w} /\ w \in Q /\ w \in S /\ f[n] = z
    BY <1>1, <1>3
  <2>2. Good(y, G \union {w}) /\ Dropped(x, y, Q)
    BY <1>5, <2>1
  <2> HIDE DEF y, w, G
  <2>3. w \in Sends(Known(y)) \union Ends(Known(y)) /\ Ended(y) /\ Known(y) = Known(x)
    BY <2>1, <2>2 DEF Dropped
  <2>4. ASSUME w.kind = "retire" PROVE MayReturn(y, w)
    <3>1. ToSet(y.outbox) \subseteq Sends(Known(y)) /\ \A v \in Sends(Known(y)) : v.input \in Input
      <4>1. y.outbox \in Seq(Sends(Known(y)))
        BY <2>2 DEF Good, Base, Core, QueuesTyped
      <4>2. ToSet(y.outbox) \subseteq Sends(Known(y))
        BY <4>1, SetOf
      <4> QED BY <4>2 DEF Sends, Known
    <3>2. ASSUME w.then = "close" PROVE \A v \in ToSet(y.outbox) : ~Waiting(y, v.input)
      <4>1. ASSUME NEW v \in ToSet(y.outbox), Waiting(y, v.input) PROVE FALSE
        <5>1. v.input \in Input /\ Waiting(x, v.input)
          BY <2>2, <3>1, <4>1 DEF Dropped
        <5>2. ~Carries(Q, v.input) /\ \A u \in ToSet(x.outbox) : u.input # v.input
          BY <1>9, <2>1, <2>4, <3>2, <5>1 DEF Rests
        <5>3. v \in ToSet(x.outbox) \/ Carries(Q, v.input)
          BY <2>2, <4>1 DEF Dropped
        <5> QED BY <5>2, <5>3
      <4> QED BY <4>1
    <3>3. ASSUME y.status = "closed" PROVE \A i \in ToSet(w.carry) : ~Waiting(y, i)
      <4>1. ASSUME NEW i \in ToSet(w.carry), Waiting(y, i) PROVE FALSE
        <5>1. w \in Ends(Known(x))
          BY <2>1, <2>4 DEF Sends
        <5>2. ToSet(w.carry) \subseteq Known(x)
          <6>1. w.carry \in Seq(Known(x))
            BY <5>1 DEF Ends
          <6> QED BY <6>1, SetOf
        <5>3. i \in Input /\ Waiting(x, i)
          BY <2>2, <4>1, <5>2 DEF Dropped, Known
        <5>4. Carries(Q, i)
          BY <2>1, <2>4, <4>1 DEF Carries
        <5> QED BY <1>9, <2>2, <3>3, <5>3, <5>4 DEF Rests, Dropped
      <4> QED BY <4>1
    <3> QED BY <3>2, <3>3 DEF MayReturn
  <2>5. Good(z, G) /\ Dropped(y, z, {w})
    BY <2>2, <2>3, <2>4, EntryDrops
  <2> HIDE DEF z
  <2>6. Dropped(x, z, Q)
    <3>1. /\ Known(z) = Known(x) /\ Ended(z) /\ \A i \in Input : Waiting(z, i) => Waiting(x, i)
      BY <2>2, <2>5 DEF Dropped
    <3>2. z.status = "closed" => x.status = "closed" \/ \E r \in Q : r.kind = "retire" /\ r.then = "close"
      BY <2>1, <2>2, <2>5 DEF Dropped
    <3>3. ASSUME NEW v \in ToSet(z.outbox) PROVE v \in ToSet(x.outbox) \/ (v.kind = "write" /\ Carries(Q, v.input))
      <4>1. v \in ToSet(y.outbox) \/ (v.kind = "write" /\ Carries({w}, v.input))
        BY <2>5 DEF Dropped
      <4>2. Carries({w}, v.input) => Carries(Q, v.input)
        BY <2>1 DEF Carries
      <4> QED BY <2>2, <4>1, <4>2 DEF Dropped
    <3> QED BY <3>1, <3>2, <3>3 DEF Dropped
  <2> QED BY <2>1, <2>5, <2>6 DEF G
<1>6. P(last)
  <2> DEFINE T == {n \in Nat : n <= last /\ ~P(n)}
  <2> HIDE DEF P, last
  <2> SUFFICES ASSUME ~P(last) PROVE FALSE
    OBVIOUS
  <2>1. T # {} /\ T \in SUBSET Nat
    BY <1>2
  <2>2. PICK n \in T : \A j \in T : n <= j
    <3> HIDE DEF T
    <3> QED BY <2>1, LeastOf
  <2>3. n \in Nat /\ n <= last /\ ~P(n) /\ n # 0
    BY <1>4, <2>2
  <2>4. n \in 1 .. last /\ n - 1 \in Nat /\ n - 1 <= last /\ ~(n <= n - 1)
    BY <1>2, <2>3
  <2>5. P(n - 1)
    BY <2>2, <2>4
  <2> QED BY <1>5, <2>3, <2>4, <2>5
<1> QED BY <1>1, <1>2, <1>6 DEF Q

-----------------------------------------------------------------------------
(* The end of a close. *)

EndFields == {"input", "why", "untold", "turn", "sub", "held", "front", "pending", "roster", "phase", "settled"}

\* The work of a process is ended for each of the retirements Q: what still waits, each carries.
WorksEnded(x, y, Q) ==
  /\ Keeps(x, y, EndFields) /\ Known(y) = Known(x)
  /\ \A i \in Input : Waiting(y, i) => Waiting(x, i) /\ \A r \in Q : i \in ToSet(r.carry)
  /\ Q # {} => y.turn = NoTurn /\ y.phase # "turn"

LEMMA DrainEnds ==
  ASSUME NEW x, NEW H, NEW S, NEW queue \in Seq(S), Core(x, H), Quiet(x)
  PROVE  Core(Drain(x, "end", queue), H) /\ Quiet(Drain(x, "end", queue)) /\ WorksEnded(x, Drain(x, "end", queue), ToSet(queue))
<1> DEFINE last == Len(queue)
           Done(n) == {queue[k] : k \in 1 .. n}
<1>1. PICK f : f[0] = x /\ Drain(x, "end", queue) = f[last] /\ \A n \in 1 .. last : f[n] = Entry(f[n - 1], "end", queue[n])
  BY DrainSteps
<1>2. last \in Nat /\ Done(0) = {} /\ Done(last) = ToSet(queue)
  <2>1. last \in Nat
    BY RestSteps
  <2>2. \A v : v \in ToSet(queue) <=> \E n \in 1 .. last : v = queue[n]
    BY InSetOf
  <2> QED BY <2>1, <2>2
<1> DEFINE P(n) == Core(f[n], H) /\ Quiet(f[n]) /\ WorksEnded(x, f[n], Done(n))
<1>4. P(0)
  <2>1. Core(x, H) /\ Quiet(x) /\ IsSession(x)
    BY DEF Core
  <2>2. WorksEnded(x, x, {})
    BY <2>1 DEF WorksEnded, Keeps
  <2> QED BY <1>1, <1>2, <2>1, <2>2
<1>5. ASSUME NEW n \in 1 .. last, P(n - 1) PROVE P(n)
  <2> DEFINE y == f[n - 1]
             w == queue[n]
             z == EndRunningWork(y, w)
  <2>1. f[n] = z
    BY <1>1 DEF Entry
  <2>2. Done(n) = Done(n - 1) \union {w}
    <3>1. 1 .. n = (1 .. n - 1) \union {n}
      BY <1>2
    <3> QED BY <3>1
  <2>3. Core(y, H) /\ Quiet(y) /\ WorksEnded(x, y, Done(n - 1))
    BY <1>5
  <2> HIDE DEF y, w
  <2>4. WorkEnded(y, z, w) /\ Core(z, H) /\ Quiet(z)
    BY <2>3, EndRunningWorkKeeps
  <2> HIDE DEF z
  <2>5. WorksEnded(x, z, Done(n))
    <3> HIDE DEF Done
    <3>1. Keeps(x, z, EndFields) /\ Known(z) = Known(x)
      BY <2>3, <2>4 DEF WorkEnded, WorksEnded, Keeps, EndFields
    <3>2. \A i \in Input : Waiting(z, i) => Waiting(x, i) /\ \A r \in Done(n) : i \in ToSet(r.carry)
      BY <2>2, <2>3, <2>4 DEF WorkEnded, WorksEnded
    <3>3. z.turn = NoTurn /\ z.phase # "turn"
      BY <2>4 DEF WorkEnded
    <3> QED BY <3>1, <3>2, <3>3 DEF WorksEnded
  <2> QED BY <2>1, <2>4, <2>5
<1>6. P(last)
  <2> DEFINE T == {n \in Nat : n <= last /\ ~P(n)}
  <2> HIDE DEF P, last
  <2> SUFFICES ASSUME ~P(last) PROVE FALSE
    OBVIOUS
  <2>1. T # {} /\ T \in SUBSET Nat
    BY <1>2
  <2>2. PICK n \in T : \A j \in T : n <= j
    <3> HIDE DEF T
    <3> QED BY <2>1, LeastOf
  <2>3. n \in Nat /\ n <= last /\ ~P(n) /\ n # 0
    BY <1>4, <2>2
  <2>4. n \in 1 .. last /\ n - 1 \in Nat /\ n - 1 <= last /\ ~(n <= n - 1)
    BY <1>2, <2>3
  <2>5. P(n - 1)
    BY <2>2, <2>4
  <2> QED BY <1>5, <2>3, <2>4, <2>5
<1> QED BY <1>1, <1>2, <1>6

\* The process of a session that closes it is gone: the retirements are in hand.
LEMMA ClosingGoes ==
  ASSUME NEW x, NEW H, Good(x, H), x.closing # <<>>, NEW y,
         y = [x EXCEPT !.proc = "none", !.given = <<>>, !.request = {}, !.closing = <<>>], x.outbox = <<>>
  PROVE  /\ Core(y, H \union ToSet(x.closing)) /\ Quiet(y) /\ Keeps(x, y, {"proc", "given", "request", "closing"})
         /\ y.proc = "none" /\ y.given = <<>> /\ y.request = {} /\ y.closing = <<>> /\ x.waiting = <<>> /\ x.status = "open"
<1> DEFINE C == {"proc", "given", "request", "closing"}
           G == H \union ToSet(x.closing)
<1>0. /\ IsSession(x) /\ InputsTyped(x) /\ SubsTyped(x) /\ TurnTyped(x) /\ HeldTyped(x) /\ QueuesTyped(x)
      /\ HandTyped(x, H) /\ ProcTyped(x) /\ LockKept(x, H) /\ ClosedRests(x) /\ Quiet(x)
  BY DEF Good, Base, Core
<1>1. Keeps(x, y, C) /\ y.proc = "none" /\ y.given = <<>> /\ y.request = {} /\ y.closing = <<>>
  BY <1>0 DEF Keeps, IsSession, Fields
<1>2. x.proc = "closing" /\ x.waiting = <<>> /\ x.request = {} /\ x.status = "open"
  BY <1>0 DEF ProcTyped, ClosedRests
<1>3. /\ y.input = x.input /\ y.waiting = x.waiting /\ y.outbox = x.outbox /\ y.held = x.held /\ y.front = x.front
      /\ y.pending = x.pending /\ y.status = x.status /\ y.lock = x.lock
  BY <1>1 DEF Keeps, Fields
<1> HIDE DEF G
<1>4. Known(y) = Known(x)
  BY <1>3 DEF Known
<1>5. IsSession(y) /\ InputsTyped(y) /\ SubsTyped(y)
  BY <1>0, <1>1, FrameTyped
<1>6. TurnTyped(y)
  BY <1>0, <1>1, <1>4, FrameTurn
<1>7. HeldTyped(y)
  BY <1>0, <1>1, <1>3, <1>4 DEF HeldTyped
<1>8. QueuesTyped(y)
  <2> DEFINE E == Ends(Known(x))
             S == Sends(Known(x))
             P == Plain(Known(x))
  <2>1. y.waiting \in Seq(S \union P) /\ y.outbox \in Seq(S)
    BY <1>0, <1>3 DEF QueuesTyped
  <2>2. y.closing \in Seq(E)
    <3> HIDE DEF E
    <3> QED BY <1>1
  <2> QED BY <1>4, <2>1, <2>2 DEF QueuesTyped
<1>9. HandTyped(y, G)
  <2>1. ToSet(x.closing) \subseteq Ends(Known(x))
    BY <1>0, SetOf DEF QueuesTyped
  <2> QED BY <1>0, <1>4, <2>1 DEF HandTyped, G
<1>10. ProcTyped(y)
  BY <1>0, <1>1, <1>2, <1>3 DEF ProcTyped
<1>11. LockKept(y, G)
  <2>1. Entries(y, G) = Entries(x, H)
    BY <1>1, <1>3, SetOfNone DEF Entries, G
  <2> QED BY <1>0, <1>2, <1>3, <2>1 DEF LockKept
<1>12. ClosedRests(y)
  BY <1>2, <1>3 DEF ClosedRests
<1>13. Quiet(y)
  BY <1>0, <1>1, FrameShape
<1> QED BY <1>1, <1>2, <1>5, <1>6, <1>7, <1>8, <1>9, <1>10, <1>11, <1>12, <1>13 DEF Core, G

\* The driver has closed: the work is ended, and the callers of the retirements go on.
LEMMA ClosedKeeps ==
  ASSUME NEW x, NEW H, Good(x, H), x.closing # <<>>, x.outbox = <<>>
  PROVE  Good(Closed(x), H) /\ Ended(Closed(x)) /\ Known(Closed(x)) = Known(x)
<1> DEFINE y == [x EXCEPT !.proc = "none", !.given = <<>>, !.request = {}, !.closing = <<>>]
           z == Drain(y, "end", x.closing)
           u == Drain(z, "drop", x.closing)
           Q == ToSet(x.closing)
           G == H \union Q
<1>1. Closed(x) = u
  BY DEF Closed
<1>2. Core(y, G) /\ Quiet(y)
  BY ClosingGoes
<1>3. Keeps(x, y, {"proc", "given", "request", "closing"})
  BY ClosingGoes
<1>4. y.proc = "none" /\ y.given = <<>> /\ y.request = {} /\ y.closing = <<>> /\ x.waiting = <<>> /\ x.status = "open"
  BY ClosingGoes
<1> HIDE DEF y, Q, G
<1>5. x.closing \in Seq(Ends(Known(x))) /\ Known(y) = Known(x) /\ y.outbox = x.outbox /\ y.waiting = x.waiting
  BY <1>3 DEF Good, Base, Core, QueuesTyped, Keeps, Fields, Known
<1>6. Core(z, G) /\ Quiet(z)
  BY <1>2, <1>5, DrainEnds
<1>7. WorksEnded(y, z, Q)
  BY <1>2, <1>5, DrainEnds DEF Q
<1> HIDE DEF z
<1>8. Q # {} /\ Q \subseteq Ends(Known(x))
  BY <1>5, SetOf DEF Q
<1>9. z.turn = NoTurn /\ z.phase # "turn" /\ Known(z) = Known(x)
  BY <1>5, <1>7, <1>8 DEF WorksEnded
<1>10. /\ z.proc = "none" /\ z.given = <<>> /\ z.request = {} /\ z.closing = <<>> /\ z.outbox = <<>> /\ z.waiting = <<>>
       /\ z.status = y.status
  BY <1>4, <1>5, <1>7 DEF WorksEnded, Keeps, EndFields, Fields
<1>11. \A i \in Input : Waiting(z, i) => \A r \in Q : i \in ToSet(r.carry)
  BY <1>7 DEF WorksEnded
<1>12. Asked(z)
  BY <1>9, <1>10, SetOfNone DEF Asked, NoTurn
<1>13. NoneLost(z, G)
  <2>1. ASSUME NEW i \in Input, Waiting(z, i) PROVE Placed(z, G, i)
    <3>1. PICK r \in Q : TRUE
      BY <1>8
    <3>2. r.kind = "retire" /\ i \in ToSet(r.carry) /\ r \in Entries(z, G)
      BY <1>8, <1>11, <2>1 DEF Ends, Entries, G
    <3> QED BY <3>2 DEF Placed, Carries
  <2> QED BY <2>1 DEF NoneLost
<1>14. TurnShape(z) /\ Limited(z)
  BY <1>9, <1>10 DEF TurnShape, Limited, TurnOpen
<1>15. Good(z, G) /\ Ended(z)
  BY <1>6, <1>9, <1>10, <1>12, <1>13, <1>14 DEF Good, Base, Ended
<1>16. Rests(z, Q)
  <2>1. z.status = "open"
    <3>1. y.status = x.status
      BY <1>3 DEF Keeps, Fields
    <3> QED BY <1>4, <1>10, <3>1
  <2>2. ASSUME NEW r \in Q, r.then = "close", NEW i \in Input, Waiting(z, i) PROVE FALSE
    <3>1. r.carry = <<>>
      BY <1>8, <2>2 DEF Ends
    <3> QED BY <1>11, <2>2, <3>1, SetOfNone
  <2> QED BY <2>1, <2>2 DEF Rests
<1>17. x.closing \in Seq(Sends(Known(z)) \union Ends(Known(z)))
  <2>1. Q \subseteq Sends(Known(z)) \union Ends(Known(z))
    BY <1>8, <1>9
  <2> QED BY <1>5, <2>1, SetOf DEF Q
<1>18. Good(u, H) /\ Dropped(z, u, Q)
  BY <1>15, <1>16, <1>17, DrainDrops DEF Q, G
<1> QED BY <1>1, <1>9, <1>18 DEF Dropped

-----------------------------------------------------------------------------
(* The microtasks of a handler. *)

LEMMA OutboxTaken ==
  ASSUME NEW x, Good(x, {}), NEW y, y = [x EXCEPT !.outbox = <<>>]
  PROVE  /\ Good(y, ToSet(x.outbox)) /\ Keeps(x, y, {"outbox"}) /\ y.outbox = <<>> /\ Known(y) = Known(x)
         /\ ToSet(x.outbox) \subseteq Sends(Known(x)) /\ \A i : Waiting(y, i) <=> Waiting(x, i)
<1> DEFINE Q == ToSet(x.outbox)
<1>0. /\ IsSession(x) /\ InputsTyped(x) /\ SubsTyped(x) /\ TurnTyped(x) /\ HeldTyped(x) /\ QueuesTyped(x)
      /\ ProcTyped(x) /\ LockKept(x, {}) /\ ClosedRests(x) /\ Asked(x) /\ NoneLost(x, {})
      /\ TurnShape(x) /\ Limited(x) /\ Quiet(x)
  BY DEF Good, Base, Core
<1>1. Keeps(x, y, {"outbox"}) /\ y.outbox = <<>>
  BY <1>0 DEF Keeps, IsSession, Fields
<1>2. y.input = x.input /\ y.waiting = x.waiting /\ y.closing = x.closing /\ y.proc = x.proc /\ y.status = x.status
      /\ y.request = x.request /\ y.lock = x.lock /\ y.timers = x.timers /\ y.grace = x.grace /\ y.held = x.held
      /\ y.front = x.front /\ y.given = x.given
  BY <1>1 DEF Keeps, Fields
<1>3. Known(y) = Known(x) /\ \A i : Waiting(y, i) <=> Waiting(x, i)
  BY <1>2 DEF Known, Waiting
<1>4. Q \subseteq Sends(Known(x))
  BY <1>0, SetOf DEF QueuesTyped
<1>5. Entries(y, Q) = Entries(x, {})
  BY <1>1, <1>2, SetOfNone DEF Entries
<1> HIDE DEF Q
<1>6. IsSession(y) /\ InputsTyped(y) /\ SubsTyped(y)
  BY <1>0, <1>1, FrameTyped
<1>7. TurnTyped(y) /\ HeldTyped(y)
  BY <1>0, <1>1, <1>3, FrameTurn, FrameHeld
<1>8. QueuesTyped(y)
  <2> DEFINE S == Sends(Known(x))
             P == Plain(Known(x))
             E == Ends(Known(x))
  <2>1. y.waiting \in Seq(S \union P) /\ y.closing \in Seq(E)
    BY <1>0, <1>2 DEF QueuesTyped
  <2>2. y.outbox \in Seq(S)
    <3> HIDE DEF S
    <3> QED BY <1>1
  <2> QED BY <1>3, <2>1, <2>2 DEF QueuesTyped
<1>9. HandTyped(y, Q)
  BY <1>3, <1>4 DEF HandTyped
<1>10. ProcTyped(y)
  BY <1>0, <1>1, <1>2 DEF ProcTyped
<1>11. LockKept(y, Q)
  BY <1>0, <1>2, <1>5 DEF LockKept
<1>12. ClosedRests(y)
  BY <1>0, <1>1, <1>2, <1>3, SetOfNone DEF ClosedRests
<1>13. Asked(y)
  BY <1>0, <1>1, <1>3, FrameAsked
<1>14. NoneLost(y, Q)
  BY <1>0, <1>2, <1>3, <1>5 DEF NoneLost, Placed
<1>15. TurnShape(y) /\ Limited(y) /\ Quiet(y)
  BY <1>0, <1>1, FrameShape
<1> QED BY <1>1, <1>3, <1>4, <1>6, <1>7, <1>8, <1>9, <1>10, <1>11, <1>12, <1>13, <1>14, <1>15 DEF Good, Base, Core, Q

\* The writes of a handler wait for the process that opens, or go to the one there is.
LEMMA DispatchKeeps ==
  ASSUME NEW x, Good(x, {})
  PROVE  /\ Good(Dispatch(x), {}) /\ Dispatch(x).outbox = <<>>
         /\ Dispatch(x).status = x.status /\ Dispatch(x).closing = x.closing
<1> DEFINE y == [x EXCEPT !.outbox = <<>>]
           Q == ToSet(x.outbox)
           S == Sends(Known(x))
           z == [y EXCEPT !.waiting = @ \o x.outbox]
<1>1. Good(y, Q) /\ Keeps(x, y, {"outbox"}) /\ y.outbox = <<>> /\ Known(y) = Known(x) /\ Q \subseteq S
  BY OutboxTaken
<1>2. \A i : Waiting(y, i) <=> Waiting(x, i)
  BY OutboxTaken
<1>3. /\ y.input = x.input /\ y.waiting = x.waiting /\ y.closing = x.closing /\ y.proc = x.proc /\ y.status = x.status
  BY <1>1 DEF Keeps, Fields
<1>4. x.outbox \in Seq(S) /\ ClosedRests(x) /\ ProcTyped(x)
  BY DEF Good, Base, Core, QueuesTyped
<1>5. Dispatch(x) = IF x.proc = "opening" THEN z ELSE Drain(y, "go", x.outbox)
  BY DEF Dispatch
<1>6. \A w \in Q : w.kind = "write" /\ w.input \in Input
  BY <1>1 DEF Sends, Known
<1> HIDE DEF y, S
<1>7. CASE x.proc = "opening"
  <2> DEFINE P == Plain(Known(x))
  <2>0. /\ IsSession(y) /\ InputsTyped(y) /\ SubsTyped(y) /\ TurnTyped(y) /\ HeldTyped(y) /\ QueuesTyped(y)
        /\ ProcTyped(y) /\ LockKept(y, Q) /\ ClosedRests(y) /\ Asked(y) /\ NoneLost(y, Q)
        /\ TurnShape(y) /\ Limited(y) /\ Quiet(y)
    BY <1>1 DEF Good, Base, Core
  <2>1. Keeps(y, z, {"waiting"}) /\ z.waiting = y.waiting \o x.outbox
    BY <2>0 DEF Keeps, IsSession, Fields
  <2>2. y.waiting \in Seq(S \union P) /\ x.outbox \in Seq(S \union P)
    <3>1. y.waiting \in Seq(S \union P)
      BY <1>1, <2>0 DEF QueuesTyped, S
    <3>2. Q \subseteq S \union P
      BY <1>1
    <3>3. x.outbox \in Seq(S \union P)
      BY <1>4, <3>2, SetOf
    <3> QED BY <3>1, <3>3
  <2> DEFINE T == S \union P
             a == y.waiting
             b == x.outbox
  <2>3. z.waiting \in Seq(T) /\ ToSet(z.waiting) = ToSet(y.waiting) \union Q
    <3>1. a \in Seq(T) /\ b \in Seq(T)
      BY <2>2
    <3> HIDE DEF T, a, b
    <3>2. a \o b \in Seq(T) /\ ToSet(a \o b) = ToSet(a) \union ToSet(b)
      BY <3>1, SetOfConcat
    <3> QED BY <2>1, <3>2 DEF a, b
  <2> HIDE DEF z
  <2>4. /\ z.input = y.input /\ z.closing = y.closing /\ z.proc = y.proc /\ z.status = y.status /\ z.outbox = y.outbox
        /\ z.request = y.request /\ z.lock = y.lock /\ z.timers = y.timers /\ z.grace = y.grace /\ z.held = y.held
        /\ z.front = y.front /\ z.given = y.given
    BY <2>1 DEF Keeps, Fields
  <2>5. Known(z) = Known(y) /\ \A i : Waiting(z, i) <=> Waiting(y, i)
    BY <2>4 DEF Known, Waiting
  <2>6. Entries(z, {}) = Entries(y, Q)
    BY <2>3, <2>4 DEF Entries
  <2>7. IsSession(z) /\ InputsTyped(z) /\ SubsTyped(z)
    BY <2>0, <2>1, FrameTyped
  <2>8. TurnTyped(z) /\ HeldTyped(z)
    BY <2>0, <2>1, <2>5, FrameTurn, FrameHeld
  <2>9. QueuesTyped(z)
    <3>1. z.closing \in Seq(Ends(Known(x))) /\ z.outbox \in Seq(Sends(Known(x)))
      BY <1>1, <2>0, <2>4 DEF QueuesTyped
    <3> QED BY <1>1, <2>3, <2>5, <3>1 DEF QueuesTyped, S
  <2>10. HandTyped(z, {}) /\ ProcTyped(z)
    BY <1>3, <1>7, <2>0, <2>4 DEF HandTyped, ProcTyped
  <2>11. LockKept(z, {})
    BY <2>0, <2>4, <2>6 DEF LockKept
  <2>12. ClosedRests(z)
    <3>1. ASSUME z.status = "closed" PROVE \A w \in Q : w.kind = "write" /\ ~Waiting(z, w.input)
      BY <1>2, <1>3, <1>4, <2>4, <2>5, <3>1 DEF ClosedRests
    <3> QED BY <2>0, <2>3, <2>4, <2>5, <3>1 DEF ClosedRests
  <2>13. Asked(z)
    BY <2>0, <2>1, <2>5, FrameAsked
  <2>14. NoneLost(z, {})
    BY <2>0, <2>4, <2>5, <2>6 DEF NoneLost, Placed
  <2>15. TurnShape(z) /\ Limited(z) /\ Quiet(z)
    BY <2>0, <2>1, FrameShape
  <2>16. Good(z, {})
    BY <2>7, <2>8, <2>9, <2>10, <2>11, <2>12, <2>13, <2>14, <2>15 DEF Good, Base, Core
  <2> QED BY <1>1, <1>3, <1>5, <1>7, <2>4, <2>16
<1>8. CASE x.proc = "none"
  <2>1. x.outbox = <<>>
    BY <1>4, <1>8 DEF ProcTyped
  <2>2. Len(x.outbox) = 0
    BY <2>1
  <2>3. PICK f : f[0] = y /\ Drain(y, "go", x.outbox) = f[Len(x.outbox)]
    BY <1>4, DrainSteps
  <2>4. Drain(y, "go", x.outbox) = y
    BY <2>2, <2>3
  <2>5. Dispatch(x) = y
    BY <1>5, <1>8, <2>4
  <2>6. Good(y, {})
    BY <1>1, <2>1, SetOfNone
  <2> QED BY <1>1, <1>3, <2>5, <2>6
<1>9. CASE x.proc \in {"up", "closing"}
  <2> DEFINE d == Drain(y, "go", x.outbox)
  <2>1. Dispatch(x) = d
    BY <1>5, <1>9
  <2>2. Good(y, {} \union Q) /\ y.proc \in {"up", "closing"}
    BY <1>1, <1>3, <1>9
  <2>3. x.outbox \in Seq(Sends(Known(y)) \union Ends(Known(y)))
    <3>1. Q \subseteq Sends(Known(y)) \union Ends(Known(y))
      BY <1>1 DEF S
    <3> QED BY <1>4, <3>1, SetOf
  <2>4. y.status = "closed" => \A w \in Q : w.kind = "write" /\ ~Waiting(y, w.input)
    BY <1>2, <1>3, <1>4, <1>6 DEF ClosedRests
  <2>5. Good(d, {}) /\ Went(y, d, Q)
    BY <2>2, <2>3, <2>4, DrainGoes
  <2> HIDE DEF d
  <2>6. d.status = y.status /\ d.outbox = y.outbox /\ d.closing = y.closing
    BY <1>6, <2>5 DEF Went
  <2> QED BY <1>1, <1>3, <2>1, <2>5, <2>6
<1> QED BY <1>4, <1>7, <1>8, <1>9 DEF ProcTyped

LEMMA FinishKeeps ==
  ASSUME NEW x, Good(x, {})
  PROVE  /\ Good(Finish(x), {}) /\ Finish(x).outbox = <<>>
         /\ ~SlowClose => Finish(x).closing = <<>>
         /\ x.closing = <<>> \/ SlowClose => Finish(x).status = x.status
<1>1. CASE x.closing = <<>> \/ SlowClose
  <2>1. Finish(x) = Dispatch(x)
    BY <1>1 DEF Finish
  <2> QED BY <1>1, <2>1, DispatchKeeps
<1>2. CASE ~(x.closing = <<>> \/ SlowClose)
  <2> DEFINE y == [x EXCEPT !.outbox = <<>>]
             Q == ToSet(x.outbox)
             c == Closed(y)
             d == Drain(c, "drop", x.outbox)
  <2>1. Finish(x) = Dispatch(d)
    BY <1>2 DEF Finish
  <2>2. Good(y, Q) /\ Keeps(x, y, {"outbox"}) /\ y.outbox = <<>> /\ Known(y) = Known(x) /\ Q \subseteq Sends(Known(x))
    BY OutboxTaken
  <2> HIDE DEF y
  <2>3. y.closing # <<>>
    BY <1>2, <2>2 DEF Keeps, Fields
  <2>4. Good(c, Q) /\ Ended(c) /\ Known(c) = Known(x)
    BY <2>2, <2>3, ClosedKeeps
  <2> HIDE DEF c
  <2>5. x.outbox \in Seq(Sends(Known(c)) \union Ends(Known(c)))
    <3>1. Q \subseteq Sends(Known(c)) \union Ends(Known(c))
      BY <2>2, <2>4
    <3> QED BY <3>1, SetOf DEF Good, Base, Core, QueuesTyped
  <2>6. Rests(c, Q)
    <3>1. \A r \in Q : r.kind = "write"
      BY <2>2 DEF Sends
    <3>2. \A i : ~Carries(Q, i)
      BY <3>1 DEF Carries
    <3>3. c.status = "closed" => \A v \in ToSet(c.outbox) : ~Waiting(c, v.input)
      BY <2>4 DEF Good, Base, Core, ClosedRests
    <3> QED BY <3>1, <3>2, <3>3 DEF Rests
  <2>7. Good(c, {} \union Q)
    BY <2>4
  <2>8. Good(d, {}) /\ Dropped(c, d, Q)
    BY <2>4, <2>5, <2>6, <2>7, DrainDrops
  <2> HIDE DEF d
  <2>9. d.closing = <<>>
    BY <2>8 DEF Dropped, Ended
  <2> QED BY <1>2, <2>1, <2>8, <2>9, DispatchKeeps
<1> QED BY <1>1, <1>2

-----------------------------------------------------------------------------
(* Phases and limits. *)

Policy == {"timers", "phase", "settled", "grace", "pending"} \union Loose

\* What is there of y that the policy fields hold.
PolicyTyped(y) ==
  /\ y.timers \subseteq Timer /\ y.phase \in {"idle", "turn", "background"} /\ y.settled \in BOOLEAN
  /\ y.grace # NoGrace => y.grace.turn > 0
  /\ y.pending.inputs \in Seq(Known(y))

LEMMA PolicyKeeps ==
  ASSUME NEW x, NEW y, NEW H, Keeps(x, y, Policy), Base(x, H), PolicyTyped(y), x.status = "open"
  PROVE  /\ Base(y, H) /\ Known(y) = Known(x) /\ \A i : Waiting(y, i) <=> Waiting(x, i)
         /\ y.status = "open" /\ y.turn = x.turn /\ y.proc = x.proc /\ y.closing = x.closing /\ Live(y) = Live(x)
<1>0. /\ IsSession(x) /\ InputsTyped(x) /\ SubsTyped(x) /\ TurnTyped(x) /\ HeldTyped(x) /\ QueuesTyped(x)
      /\ HandTyped(x, H) /\ ProcTyped(x) /\ LockKept(x, H) /\ ClosedRests(x) /\ Asked(x) /\ NoneLost(x, H)
  BY DEF Base, Core
<1>1. /\ y.input = x.input /\ y.status = x.status /\ y.turn = x.turn /\ y.turns = x.turns /\ y.proc = x.proc
      /\ y.sub = x.sub /\ y.roster = x.roster /\ y.closing = x.closing
      /\ y.held = x.held /\ y.front = x.front /\ y.given = x.given /\ y.request = x.request
  BY DEF Keeps, Fields, Policy, Loose
<1>2. Known(y) = Known(x) /\ \A i : Waiting(y, i) <=> Waiting(x, i)
  BY <1>1 DEF Known, Waiting
<1>3. Live(y) = Live(x)
  BY <1>1 DEF Live, Running
<1>4. IsSession(y) /\ InputsTyped(y) /\ SubsTyped(y)
  BY <1>0, FrameTyped DEF Policy, Loose
<1>5. TurnTyped(y)
  BY <1>0, <1>1, <1>2 DEF TurnTyped, PolicyTyped
<1>6. HeldTyped(y)
  BY <1>0, <1>1, <1>2 DEF HeldTyped, PolicyTyped
<1>7. QueuesTyped(y)
  BY <1>0, <1>2, FrameQueues DEF Policy, Loose
<1>8. HandTyped(y, H)
  BY <1>0, <1>2 DEF HandTyped
<1>9. ProcTyped(y)
  BY <1>0, FrameProc DEF Policy, Loose
<1>10. LockKept(y, H)
  BY <1>0, FrameLock DEF Policy, Loose
<1>11. ClosedRests(y)
  BY <1>1 DEF ClosedRests
<1>12. Asked(y)
  BY <1>0, <1>2, FrameAsked DEF Policy, Loose
<1>13. NoneLost(y, H)
  BY <1>0, <1>2, FrameLost DEF Policy, Loose
<1> QED BY <1>1, <1>2, <1>3, <1>4, <1>5, <1>6, <1>7, <1>8, <1>9, <1>10, <1>11, <1>12, <1>13 DEF Base, Core

LEMMA RetirementTyped ==
  ASSUME NEW I, NEW why \in Reasons, NEW then \in {"none", "close", "return"}
  PROVE  /\ Retirement(why, then) \in Ends(I) /\ Retirement(why, then).kind = "retire"
         /\ Retirement(why, then).carry = <<>> /\ Retirement(why, then).then = then
BY DEF Retirement, Ends

\* A retirement that answers no call comes into the hand.
LEMMA Retires ==
  ASSUME NEW x, NEW H, NEW r \in Ends(Known(x)), Base(x, H)
  PROVE  Base(x, H \union {r})
<1>1. HandTyped(x, H \union {r})
  BY DEF Base, Core, HandTyped
<1> QED BY <1>1, HandGrows

LEMMA ApplyChangesKeeps ==
  ASSUME NEW x, NEW H, NEW c, NEW then \in {"none", "return"}, Base(x, H \union {Retirement("config_change", then)}),
         TurnShape(x), Quiet(x), x.status = "open"
  PROVE  Good(ApplyChanges(x, c, then), H) /\ ApplyChanges(x, c, then).status = "open"
<1> DEFINE r == Retirement("config_change", then)
           y == [x EXCEPT !.config = c]
           G == H \union {r}
<1>0. Base(x, G) /\ IsSession(x)
  BY DEF Base, Core
<1>1. Keeps(x, y, {"config"})
  BY <1>0 DEF Keeps, IsSession, Fields
<1>2. ApplyChanges(x, c, then) = IF x.proc = "none" THEN AfterRetire(y, r) ELSE Retire(y, r)
  BY DEF ApplyChanges
<1>3. r \in Ends(Known(y)) /\ r.kind = "retire" /\ r.carry = <<>> /\ r.then = then
  BY RetirementTyped DEF Reasons
<1> HIDE DEF y, r
<1>4. Keeps(x, y, Loose) /\ y.status = "open" /\ y.proc = x.proc
  BY <1>1 DEF Keeps, Loose, Fields
<1> HIDE DEF G
<1>5. Base(y, G) /\ TurnShape(y) /\ Quiet(y)
  BY <1>0, <1>4, LooseKeeps
<1>6. CASE x.proc = "none"
  <2>1. ApplyChanges(x, c, then) = AfterRetire(y, r)
    BY <1>2, <1>6
  <2>2. Limited(y) /\ Ended(y)
    BY <1>4, <1>5, <1>6 DEF Base, Core, TurnShape, TurnOpen, ProcTyped, Ended, Limited
  <2>3. MayReturn(y, r)
    BY <1>3, <1>4, SetOfNone DEF MayReturn
  <2>4. Good(y, H \union {r})
    BY <1>5, <2>2 DEF Good, G
  <2>5. Good(AfterRetire(y, r), H) /\ Returned(y, AfterRetire(y, r), r)
    BY <1>3, <2>2, <2>3, <2>4, AfterRetireKeeps
  <2>6. AfterRetire(y, r).status = "open"
    BY <1>3, <1>4, <2>5 DEF Returned
  <2> QED BY <2>1, <2>5, <2>6
<1>7. CASE x.proc # "none"
  <2>1. ApplyChanges(x, c, then) = Retire(y, r)
    BY <1>2, <1>7
  <2>2. Base(y, H \union {r})
    BY <1>5 DEF G
  <2>3. Good(Retire(y, r), H) /\ (r.then # "close" => Retire(y, r).status = "open")
    BY <1>3, <1>4, <1>5, <2>2, RetireKeeps
  <2> QED BY <1>3, <2>1, <2>3
<1> QED BY <1>6, <1>7

LEMMA EnterIdleKeeps ==
  ASSUME NEW x, NEW H, Base(x, H), TurnShape(x), Quiet(x), ~TurnOpen(x), x.status = "open"
  PROVE  Good(EnterIdle(x), H) /\ EnterIdle(x).status = "open"
<1> DEFINE y == Cancel(x, {"stall", "backgroundMax"})
           z == [y EXCEPT !.deferred = None]
           a == Arm(y, {"idle"})
           Fine(v) == Base(v, H) /\ TurnShape(v) /\ Limited(v) /\ Quiet(v) /\ v.status = "open"
<1>0. IsSession(x) /\ TurnTyped(x) /\ HeldTyped(x)
  BY DEF Base, Core
<1>1. Keeps(x, y, {"timers"}) /\ y.timers \subseteq Timer
  BY <1>0, CancelDoes DEF TurnTyped
<1>2. EnterIdle(x) = CASE x.deferred # None -> ApplyChanges(z, x.deferred, "none")
                       [] x.deferred = None /\ x.proc # "none" -> a
                       [] OTHER -> y
  BY DEF EnterIdle
<1> HIDE DEF y
<1>3. IsSession(y)
  BY <1>1 DEF Keeps
<1>4. Keeps(x, a, {"timers"}) /\ a.timers \subseteq Timer
  <2>1. Keeps(y, a, {"timers"}) /\ a.timers = y.timers \union {"idle"}
    BY <1>3, ArmDoes
  <2> QED BY <1>1, <2>1 DEF Keeps, Timer
<1>5. Keeps(x, z, {"timers", "deferred"}) /\ z.timers \subseteq Timer
  <2>1. Keeps(y, z, {"deferred"})
    BY <1>3 DEF Keeps, IsSession, Fields
  <2> QED BY <1>1, <2>1 DEF Keeps, Fields
<1> HIDE DEF a, z
<1>6. ASSUME NEW v, Keeps(x, v, {"timers", "deferred"}), v.timers \subseteq Timer PROVE Fine(v)
  <2>1. Keeps(x, v, Policy)
    BY <1>6 DEF Keeps, Policy, Loose
  <2>2. v.phase = x.phase /\ v.settled = x.settled /\ v.grace = x.grace /\ v.pending = x.pending /\ v.input = x.input
    BY <1>6 DEF Keeps, Fields
  <2>3. Known(v) = Known(x)
    BY <2>2 DEF Known
  <2>4. PolicyTyped(v)
    BY <1>0, <1>6, <2>2, <2>3 DEF TurnTyped, HeldTyped, PolicyTyped
  <2>5. Base(v, H)
    BY <2>1, <2>4, PolicyKeeps
  <2>6. v.status = "open" /\ v.turn = x.turn /\ v.proc = x.proc /\ Live(v) = Live(x)
    BY <2>1, <2>4, PolicyKeeps
  <2> QED BY <2>2, <2>5, <2>6 DEF TurnShape, Limited, Quiet, TurnOpen
<1>7. Fine(y)
  <2>1. Keeps(x, y, {"timers", "deferred"})
    BY <1>1 DEF Keeps
  <2> QED BY <1>1, <1>6, <2>1
<1>8. Fine(a)
  <2>1. Keeps(x, a, {"timers", "deferred"})
    BY <1>4 DEF Keeps
  <2> QED BY <1>4, <1>6, <2>1
<1>9. Fine(z)
  BY <1>5, <1>6
<1>10. CASE x.deferred # None
  <2>1. EnterIdle(x) = ApplyChanges(z, x.deferred, "none")
    BY <1>2, <1>10
  <2> DEFINE r == Retirement("config_change", "none")
  <2>2. r \in Ends(Known(z))
    BY RetirementTyped DEF Reasons
  <2> HIDE DEF r
  <2>3. Base(z, H \union {r})
    BY <1>9, <2>2, Retires
  <2> QED BY <1>9, <2>1, <2>3, ApplyChangesKeeps DEF r
<1>11. CASE x.deferred = None /\ x.proc # "none"
  <2>1. EnterIdle(x) = a
    BY <1>2, <1>11
  <2> QED BY <1>8, <2>1 DEF Good
<1>12. CASE x.deferred = None /\ x.proc = "none"
  <2>1. EnterIdle(x) = y
    BY <1>2, <1>12
  <2> QED BY <1>7, <2>1 DEF Good
<1> QED BY <1>10, <1>11, <1>12

LEMMA MarkActivityKeeps ==
  ASSUME NEW x, NEW H, Good(x, H), x.status = "open"
  PROVE  Good(MarkActivity(x), H) /\ Keeps(x, MarkActivity(x), {"timers"})
<1> DEFINE T == (IF TurnOpen(x) THEN {"turnInactivity"} ELSE {}) \union (IF x.phase = "background" THEN {"stall"} ELSE {})
           y == Arm(x, T)
<1>0. /\ IsSession(x) /\ TurnTyped(x) /\ HeldTyped(x) /\ Base(x, H) /\ TurnShape(x) /\ Limited(x) /\ Quiet(x)
  BY DEF Good, Base, Core
<1>1. MarkActivity(x) = y
  BY DEF MarkActivity
<1>2. T \subseteq Timer
  BY DEF Timer
<1> HIDE DEF T
<1>3. Keeps(x, y, {"timers"}) /\ y.timers = x.timers \union T
  BY <1>0, ArmDoes
<1> HIDE DEF y
<1>4. Keeps(x, y, Policy)
  BY <1>3 DEF Keeps, Policy
<1>5. y.phase = x.phase /\ y.settled = x.settled /\ y.grace = x.grace /\ y.pending = x.pending /\ y.input = x.input
  BY <1>3 DEF Keeps, Fields
<1>6. Known(y) = Known(x)
  BY <1>5 DEF Known
<1>7. PolicyTyped(y)
  BY <1>0, <1>2, <1>3, <1>5, <1>6 DEF TurnTyped, HeldTyped, PolicyTyped
<1>8. Base(y, H) /\ y.turn = x.turn /\ y.proc = x.proc /\ Live(y) = Live(x)
  BY <1>0, <1>4, <1>7, PolicyKeeps
<1>9. TurnShape(y) /\ Limited(y) /\ Quiet(y)
  BY <1>0, <1>3, <1>5, <1>8 DEF TurnShape, Limited, Quiet, TurnOpen
<1> QED BY <1>1, <1>3, <1>8, <1>9 DEF Good

\* Sub-agents or the roster changed: whatever they are now, the session is settled only while all is quiet.
LEMMA AfterSubagentChangeKeeps ==
  ASSUME NEW x, NEW H, Base(x, H), TurnShape(x), Limited(x), x.status = "open"
  PROVE  Good(AfterSubagentChange(x), H) /\ Keeps(x, AfterSubagentChange(x), {"timers", "phase", "settled"})
<1> DEFINE c == Cancel(x, {"settle", "idle"})
           y == [c EXCEPT !.settled = FALSE]
           p == [y EXCEPT !.phase = "background"]
           b == EnterBackground(p)
           s == Arm(x, {"settle"})
           z == AfterSubagentChange(x)
           C == {"timers", "phase", "settled"}
<1>0. IsSession(x) /\ TurnTyped(x) /\ HeldTyped(x)
  BY DEF Base, Core
<1>1. z = CASE Live(x) # {} /\ x.phase = "idle" /\ ~TurnOpen(x) -> b
            [] Live(x) # {} /\ ~(x.phase = "idle" /\ ~TurnOpen(x)) -> y
            [] Live(x) = {} /\ ~x.settled -> s
            [] OTHER -> x
  BY DEF AfterSubagentChange
<1>2. ASSUME NEW v, Keeps(x, v, C), v.timers \subseteq Timer, v.phase \in {"idle", "turn", "background"}, v.settled \in BOOLEAN,
             TurnOpen(x) <=> v.phase = "turn", x.timers \intersect {"turnInactivity"} \subseteq v.timers, v.settled => Live(x) = {}
      PROVE  Good(v, H)
  <2>1. Keeps(x, v, Policy)
    BY <1>2 DEF Keeps, Policy
  <2>2. v.grace = x.grace /\ v.pending = x.pending /\ v.input = x.input
    BY <1>2 DEF Keeps, Fields
  <2>3. Known(v) = Known(x)
    BY <2>2 DEF Known
  <2>4. PolicyTyped(v)
    BY <1>0, <1>2, <2>2, <2>3 DEF TurnTyped, HeldTyped, PolicyTyped
  <2>5. Base(v, H) /\ v.turn = x.turn /\ v.proc = x.proc /\ Live(v) = Live(x)
    BY <2>1, <2>4, PolicyKeeps
  <2>6. TurnShape(v) /\ Limited(v) /\ Quiet(v)
    BY <1>2, <2>5 DEF TurnShape, Limited, Quiet, TurnOpen
  <2> QED BY <2>5, <2>6 DEF Good
<1>3. Keeps(x, c, {"timers"}) /\ c.timers = x.timers \ {"settle", "idle"}
  BY <1>0, CancelDoes
<1> HIDE DEF c
<1>4. Keeps(x, y, {"timers", "settled"}) /\ y.timers = c.timers /\ y.settled = FALSE /\ y.phase = x.phase
  BY <1>3 DEF Keeps, IsSession, Fields
<1> HIDE DEF y
<1>5. Keeps(x, p, C) /\ p.timers = c.timers /\ p.settled = FALSE /\ p.phase = "background"
  BY <1>4 DEF Keeps, IsSession, Fields
<1> HIDE DEF p
<1>6. Keeps(x, b, C) /\ b.timers = c.timers \union {"stall", "backgroundMax"} /\ b.settled = FALSE /\ b.phase = "background"
  <2>1. IsSession(p)
    BY <1>5 DEF Keeps
  <2>2. Keeps(p, b, {"timers"}) /\ b.timers = p.timers \union {"stall", "backgroundMax"}
    BY <2>1, ArmDoes DEF EnterBackground
  <2> QED BY <1>5, <2>2 DEF Keeps, Fields
<1> HIDE DEF b
<1>7. Keeps(x, s, {"timers"}) /\ s.timers = x.timers \union {"settle"}
  BY <1>0, ArmDoes
<1> HIDE DEF s, z
<1>8. CASE Live(x) # {} /\ x.phase = "idle" /\ ~TurnOpen(x)
  <2>1. z = b
    BY <1>1, <1>8
  <2>2. b.timers \subseteq Timer /\ x.timers \intersect {"turnInactivity"} \subseteq b.timers
    BY <1>0, <1>3, <1>6 DEF TurnTyped, Timer
  <2>3. Good(b, H)
    BY <1>2, <1>6, <1>8, <2>2
  <2> QED BY <1>6, <2>1, <2>3 DEF z
<1>9. CASE Live(x) # {} /\ ~(x.phase = "idle" /\ ~TurnOpen(x))
  <2>1. z = y
    BY <1>1, <1>9
  <2>2. y.timers \subseteq Timer /\ x.timers \intersect {"turnInactivity"} \subseteq y.timers
    BY <1>0, <1>3, <1>4 DEF TurnTyped, Timer
  <2>3. Keeps(x, y, C) /\ y.phase \in {"idle", "turn", "background"} /\ (TurnOpen(x) <=> y.phase = "turn")
    BY <1>0, <1>4 DEF Keeps, TurnTyped, TurnShape
  <2>4. Good(y, H)
    BY <1>2, <1>4, <2>2, <2>3
  <2> QED BY <2>1, <2>3, <2>4 DEF z
<1>10. CASE Live(x) = {} /\ ~x.settled
  <2>1. z = s
    BY <1>1, <1>10
  <2>2. s.timers \subseteq Timer /\ x.timers \intersect {"turnInactivity"} \subseteq s.timers
    BY <1>0, <1>7 DEF TurnTyped, Timer
  <2>3. s.phase = x.phase /\ s.settled = x.settled /\ Keeps(x, s, C)
    BY <1>7 DEF Keeps, Fields
  <2>4. s.phase \in {"idle", "turn", "background"} /\ (TurnOpen(x) <=> s.phase = "turn") /\ s.settled \in BOOLEAN
    BY <1>0, <2>3 DEF TurnTyped, TurnShape
  <2>5. Good(s, H)
    BY <1>2, <1>10, <2>2, <2>3, <2>4
  <2> QED BY <2>1, <2>3, <2>5 DEF z
<1>11. CASE Live(x) = {} /\ x.settled
  <2>1. z = x
    BY <1>1, <1>11
  <2>2. Keeps(x, x, C) /\ Good(x, H)
    BY <1>0, <1>11 DEF Keeps, Good, Quiet
  <2> QED BY <2>1, <2>2 DEF z
<1> QED BY <1>8, <1>9, <1>10, <1>11

-----------------------------------------------------------------------------
(* Delivery. *)

\* The input in hand is held, by the application or for after an interrupt.
LEMMA HoldKeeps ==
  ASSUME NEW x, NEW H, NEW i \in Known(x), Good(x, H \union {Bearer(<<i>>)}), NEW y,
         y = [x EXCEPT !.held = Append(@, i)] \/ y = [x EXCEPT !.front = Append(@, i)]
  PROVE  Good(y, H) /\ Keeps(x, y, {"held", "front"})
<1> DEFINE b == Bearer(<<i>>)
           G == H \union {b}
           K == Known(x)
<1>0. /\ Base(x, G) /\ TurnShape(x) /\ Limited(x) /\ Quiet(x) /\ HeldTyped(x) /\ IsSession(x) /\ LockKept(x, G) /\ HandTyped(x, G)
      /\ NoneLost(x, G)
  BY DEF Good, Base, Core
<1>1. b.kind = "retire" /\ b.then = "carry" /\ b.carry = <<i>> /\ ToSet(<<i>>) = {i}
  BY SetOfOne DEF Bearer
<1> HIDE DEF b
<1>2. Keeps(x, y, {"held", "front"})
  BY <1>0 DEF Keeps, IsSession, Fields
<1>3. (y.held = Append(x.held, i) /\ y.front = x.front) \/ (y.front = Append(x.front, i) /\ y.held = x.held)
  BY <1>0 DEF IsSession, Fields
<1>4. /\ x.held \in Seq(K) /\ x.front \in Seq(K) /\ i \in K
  BY <1>0 DEF HeldTyped
<1> HIDE DEF K
<1>5. /\ Append(x.held, i) \in Seq(K) /\ ToSet(Append(x.held, i)) = ToSet(x.held) \union {i}
      /\ Append(x.front, i) \in Seq(K) /\ ToSet(Append(x.front, i)) = ToSet(x.front) \union {i}
  BY <1>4, SetOfAppend
<1>6. /\ y.held \in Seq(K) /\ y.front \in Seq(K)
      /\ ToSet(y.held) \union ToSet(y.front) = ToSet(x.held) \union ToSet(x.front) \union {i}
  BY <1>3, <1>4, <1>5
<1>7. y.input = x.input /\ y.given = x.given /\ y.pending = x.pending /\ y.request = x.request
      /\ y.waiting = x.waiting /\ y.closing = x.closing /\ y.outbox = x.outbox
  BY <1>2 DEF Keeps, Fields
<1>8. HeldTyped(y)
  BY <1>0, <1>6, <1>7 DEF HeldTyped, Known, K
<1>9. Entries(x, G) = Entries(x, H) \union {b} /\ Entries(y, H) = Entries(x, H)
  BY <1>7 DEF Entries
<1>10. LockKept(x, H)
  BY <1>0, <1>1, <1>9 DEF LockKept, Writes, Unlocks
<1>11. HandTyped(x, H)
  BY <1>0 DEF HandTyped
<1>12. NoneLost(y, H)
  <2>1. ASSUME NEW j \in Input, Waiting(y, j) PROVE Placed(y, H, j)
    <3>1. Placed(x, G, j)
      BY <1>0, <1>7, <2>1 DEF NoneLost, Waiting
    <3> QED BY <1>1, <1>6, <1>7, <1>9, <3>1 DEF Placed, Writes, Carries
  <2> QED BY <2>1 DEF NoneLost
<1>13. Keeps(x, y, {"held", "front", "pending"})
  BY <1>2 DEF Keeps
<1> HIDE DEF G
<1>14. Base(y, H) /\ TurnShape(y) /\ Limited(y) /\ Quiet(y)
  BY <1>0, <1>8, <1>10, <1>11, <1>12, <1>13, MovesKeep
<1> QED BY <1>2, <1>14 DEF Good

Delivered == {"outbox", "proc", "held", "front", "pending", "grace"}

LEMMA WriteKeeps ==
  ASSUME NEW x, NEW H, NEW i \in Known(x), NEW d \in Deliveries, Good(x, H \union {Bearer(<<i>>)}), x.status = "open"
  PROVE  Good(Write(x, i, d), H) /\ Keeps(x, Write(x, i, d), Delivered)
<1> DEFINE b == Bearer(<<i>>)
           y == WriteAll(x, <<i>>, d)
<1>1. Write(x, i, d) = y
  BY DEF Write
<1>2. b.kind = "retire" /\ b.then = "carry" /\ b.carry = <<i>>
  BY DEF Bearer
<1>3. <<i>> \in Seq(Known(x)) /\ <<i>> # <<>>
  BY SetOfOne
<1> HIDE DEF b
<1>4. Base(x, H \union {b}) /\ TurnShape(x) /\ Limited(x) /\ Quiet(x)
  BY DEF Good, b
<1>5. Keeps(x, y, {"outbox", "proc"}) /\ Base(y, H)
  BY <1>2, <1>3, <1>4, WriteAllKeeps
<1>6. TurnShape(y) /\ Limited(y) /\ Quiet(y)
  BY <1>2, <1>3, <1>4, WriteAllKeeps
<1> HIDE DEF y
<1>7. Keeps(x, y, Delivered)
  BY <1>5 DEF Keeps, Delivered
<1> QED BY <1>1, <1>5, <1>6, <1>7 DEF Good

LEMMA DeliverQueuedKeeps ==
  ASSUME NEW x, NEW H, NEW i \in Known(x), NEW d \in Deliveries, Good(x, H \union {Bearer(<<i>>)}), x.status = "open"
  PROVE  Good(DeliverQueued(x, i, d), H) /\ Keeps(x, DeliverQueued(x, i, d), Delivered)
<1>1. CASE ~NativeQueue /\ TurnOpen(x) /\ ~(d = "steer" /\ Steerable)
  <2> DEFINE y == [x EXCEPT !.held = Append(@, i)]
  <2>1. DeliverQueued(x, i, d) = y
    BY <1>1 DEF DeliverQueued
  <2>2. Good(y, H) /\ Keeps(x, y, {"held", "front"})
    BY HoldKeeps
  <2> HIDE DEF y
  <2> QED BY <2>1, <2>2 DEF Keeps, Delivered
<1>2. CASE ~(~NativeQueue /\ TurnOpen(x) /\ ~(d = "steer" /\ Steerable))
  <2>1. DeliverQueued(x, i, d) = Write(x, i, d)
    BY <1>2 DEF DeliverQueued
  <2> QED BY <2>1, WriteKeeps
<1> QED BY <1>1, <1>2

LEMMA DeliverInterruptKeeps ==
  ASSUME NEW x, NEW H, NEW i \in Known(x), Good(x, H \union {Bearer(<<i>>)}), x.status = "open"
  PROVE  Good(DeliverInterrupt(x, i), H) /\ Keeps(x, DeliverInterrupt(x, i), Delivered)
<1> DEFINE first == x.pending = NoPending
           cut == IF first THEN <<i>> ELSE Append(x.pending.inputs, i)
           p == IF first THEN [turn |-> x.turn.id, inputs |-> <<i>>]
                ELSE [turn |-> x.pending.turn, inputs |-> Append(x.pending.inputs, i)]
           y == [x EXCEPT !.pending = p]
           z == IF first THEN ArmInterruptGrace(y, "carry") ELSE y
           G == H \union {Bearer(<<i>>)}
<1>0. IsSession(x) /\ TurnTyped(x) /\ HeldTyped(x) /\ Base(x, G) /\ TurnShape(x) /\ Limited(x) /\ Quiet(x)
  BY DEF Good, Base, Core
<1>1. DeliverInterrupt(x, i) = CASE first /\ ~TurnOpen(x) -> DeliverQueued(x, i, "queue")
                                 [] (~first \/ TurnOpen(x)) /\ NativeQueue -> Write(z, i, "interrupt")
                                 [] OTHER -> [z EXCEPT !.front = Append(@, i)]
  BY DEF DeliverInterrupt
<1>2. "queue" \in Deliveries /\ "interrupt" \in Deliveries
  BY DEF Deliveries
<1>3. CASE first /\ ~TurnOpen(x)
  <2>1. DeliverInterrupt(x, i) = DeliverQueued(x, i, "queue")
    BY <1>1, <1>3
  <2> QED BY <1>2, <2>1, DeliverQueuedKeeps
<1>4. CASE ~(first /\ ~TurnOpen(x))
  <2>1. p.inputs = cut /\ cut \in Seq(Known(x))
    <3>1. CASE first
      BY <3>1, SetOfOne
    <3>2. CASE ~first
      BY <1>0, <3>2, SetOfAppend DEF HeldTyped
    <3> QED BY <3>1, <3>2
  <2> HIDE DEF p, cut
  <2>2. Keeps(x, y, {"pending"}) /\ y.pending = p
    BY <1>0 DEF Keeps, IsSession, Fields
  <2> HIDE DEF y
  <2>3. /\ Keeps(x, z, {"pending", "grace"}) /\ z.pending = p
        /\ z.grace = x.grace \/ (first /\ z.grace = [turn |-> y.turn.id, then |-> "carry"])
    <3>1. CASE first
      <4>1. z = [y EXCEPT !.grace = [turn |-> y.turn.id, then |-> "carry"]]
        BY <3>1 DEF ArmInterruptGrace
      <4>2. Keeps(y, z, {"grace"}) /\ z.grace = [turn |-> y.turn.id, then |-> "carry"]
        BY <2>2, <4>1 DEF Keeps, IsSession, Fields
      <4> HIDE DEF z
      <4>3. z.pending = y.pending
        BY <4>2 DEF Keeps, Fields
      <4> QED BY <2>2, <3>1, <4>2, <4>3 DEF Keeps
    <3>2. CASE ~first
      <4>1. z = y
        BY <3>2
      <4> QED BY <2>2, <4>1 DEF Keeps, Fields
    <3> QED BY <3>1, <3>2
  <2> HIDE DEF z
  <2>4. /\ z.timers = x.timers /\ z.phase = x.phase /\ z.settled = x.settled /\ z.input = x.input /\ y.turn = x.turn
    BY <2>2, <2>3 DEF Keeps, Fields
  <2>5. Known(z) = Known(x) /\ Keeps(x, z, Policy)
    BY <2>3, <2>4 DEF Known, Keeps, Policy
  <2>6. z.grace # NoGrace => z.grace.turn > 0
    BY <1>0, <1>4, <2>3, <2>4 DEF TurnTyped, TurnShape
  <2>7. PolicyTyped(z)
    BY <1>0, <2>1, <2>3, <2>4, <2>5, <2>6 DEF PolicyTyped, TurnTyped
  <2> HIDE DEF G
  <2>8. Base(z, G)
    BY <1>0, <2>5, <2>7, PolicyKeeps
  <2>9. z.turn = x.turn /\ z.proc = x.proc /\ Live(z) = Live(x) /\ z.status = "open"
    BY <1>0, <2>5, <2>7, PolicyKeeps
  <2>10. TurnShape(z) /\ Limited(z) /\ Quiet(z)
    BY <1>0, <2>4, <2>9 DEF TurnShape, Limited, Quiet, TurnOpen
  <2>11. Good(z, H \union {Bearer(<<i>>)}) /\ i \in Known(z)
    BY <2>5, <2>8, <2>10 DEF Good, G
  <2>12. CASE NativeQueue
    <3>1. DeliverInterrupt(x, i) = Write(z, i, "interrupt")
      BY <1>1, <1>4, <2>12
    <3> DEFINE v == Write(z, i, "interrupt")
    <3>2. Good(v, H) /\ Keeps(z, v, Delivered)
      BY <1>2, <2>9, <2>11, WriteKeeps
    <3> HIDE DEF v
    <3>3. Keeps(x, v, Delivered)
      BY <2>3, <3>2 DEF Keeps, Delivered
    <3> QED BY <3>1, <3>2, <3>3 DEF v
  <2>13. CASE ~NativeQueue
    <3> DEFINE v == [z EXCEPT !.front = Append(@, i)]
    <3>1. DeliverInterrupt(x, i) = v
      BY <1>1, <1>4, <2>13
    <3>2. Good(v, H) /\ Keeps(z, v, {"held", "front"})
      BY <2>11, HoldKeeps
    <3> HIDE DEF v
    <3>3. Keeps(x, v, Delivered)
      BY <2>3, <3>2 DEF Keeps, Delivered
    <3> QED BY <3>1, <3>2, <3>3
  <2> QED BY <2>12, <2>13
<1> QED BY <1>3, <1>4

LEMMA DeliverKeeps ==
  ASSUME NEW x, NEW H, NEW i \in Known(x), NEW d \in Deliveries, Good(x, H \union {Bearer(<<i>>)}), x.status = "open"
  PROVE  Good(Deliver(x, i, d), H) /\ Keeps(x, Deliver(x, i, d), Delivered)
BY DeliverQueuedKeeps, DeliverInterruptKeeps DEF Deliver

-----------------------------------------------------------------------------
(* A new input. *)

LEMMA SeqGrows ==
  ASSUME NEW I, NEW J, I \subseteq J
  PROVE  \A s : s \in Seq(I) => s \in Seq(J)
<1>1. ASSUME NEW s \in Seq(I) PROVE s \in Seq(J)
  <2>1. ToSet(s) \subseteq J
    BY SetOf
  <2> QED BY <2>1, SetOf
<1> QED BY <1>1

LEMMA EntriesGrow ==
  ASSUME NEW I, NEW J, I \subseteq J
  PROVE  Sends(I) \subseteq Sends(J) /\ Ends(I) \subseteq Ends(J) /\ Plain(I) \subseteq Plain(J)
<1>1. Sends(I) \subseteq Sends(J)
  BY DEF Sends
<1>2. \A s : s \in Seq(I) => s \in Seq(J)
  BY SeqGrows
<1>3. Ends(I) \subseteq Ends(J)
  <2>1. ASSUME NEW r \in Ends(I) PROVE r \in Ends(J)
    <3> DEFINE A == Seq(I)
               B == Seq(J)
               R(S) == [kind : {"retire"}, why : Reasons, carry : S, complete : BOOLEAN,
                        then : {"none", "carry", "close", "return"}]
    <3>1. r \in R(A) /\ (r.carry # <<>> => r.then = "carry") /\ \A s \in A : s \in B
      BY <1>2 DEF Ends
    <3> HIDE DEF A, B
    <3>2. r \in R(B)
      BY <3>1
    <3> QED BY <3>1, <3>2 DEF Ends, B
  <2> QED BY <2>1
<1>4. Plain(I) \subseteq Plain(J)
  BY <1>3 DEF Plain
<1> QED BY <1>1, <1>3, <1>4

LEMMA AcceptKeeps ==
  ASSUME NEW x, NEW H, Good(x, H), NEW i \in Input, x.input[i] = "none", NEW d \in Deliveries, NEW items, x.status = "open"
  PROVE  /\ Good(Accept(x, i, d, items), H \union {Bearer(<<i>>)}) /\ i \in Known(Accept(x, i, d, items))
         /\ Keeps(x, Accept(x, i, d, items), {"input", "delivery", "tells"})
<1> DEFINE a == SetInputs(x, {i}, "accepted")
           y == Accept(x, i, d, items)
           b == Bearer(<<i>>)
           G == H \union {b}
           J == Known(x) \union {i}
           C == {"input", "delivery", "tells"}
<1>0. /\ IsSession(x) /\ InputsTyped(x) /\ SubsTyped(x) /\ TurnTyped(x) /\ HeldTyped(x) /\ QueuesTyped(x)
      /\ HandTyped(x, H) /\ ProcTyped(x) /\ LockKept(x, H) /\ ClosedRests(x) /\ Asked(x) /\ NoneLost(x, H)
      /\ TurnShape(x) /\ Limited(x) /\ Quiet(x)
  BY DEF Good, Base, Core
<1>1. Keeps(x, a, {"input"}) /\ a.input = [j \in Input |-> IF j \in {i} THEN "accepted" ELSE x.input[j]]
  BY <1>0, SetInputsDoes
<1> HIDE DEF a
<1>2. y = [a EXCEPT !.delivery[i] = d, !.tells[i] = items]
  BY DEF Accept, a
<1> HIDE DEF y
<1>3. Keeps(a, y, {"delivery", "tells"}) /\ y.delivery = [a.delivery EXCEPT ![i] = d]
  BY <1>1, <1>2 DEF Keeps, IsSession, Fields
<1>4. Keeps(x, y, C) /\ y.input = a.input /\ a.delivery = x.delivery
  BY <1>1, <1>3 DEF Keeps, Fields
<1>5. y.input = [j \in Input |-> IF j = i THEN "accepted" ELSE x.input[j]]
  BY <1>1, <1>4
<1>6. /\ y.turn = x.turn /\ y.turns = x.turns /\ y.phase = x.phase /\ y.timers = x.timers /\ y.settled = x.settled
      /\ y.grace = x.grace /\ y.held = x.held /\ y.front = x.front /\ y.given = x.given /\ y.pending = x.pending
      /\ y.request = x.request /\ y.waiting = x.waiting /\ y.closing = x.closing /\ y.outbox = x.outbox
      /\ y.status = x.status
  BY <1>4 DEF Keeps, Fields
<1>7. Known(y) = J
  BY <1>5 DEF Known
<1>8. \A j \in Input : Waiting(y, j) => Waiting(x, j) \/ j = i
  BY <1>5 DEF Waiting
<1>9. Known(x) \subseteq J /\ i \notin Known(x)
  BY DEF Known
<1> HIDE DEF J
<1>10. \A s : s \in Seq(Known(x)) => s \in Seq(J)
  BY <1>9, SeqGrows
<1>11. Sends(Known(x)) \subseteq Sends(J) /\ Ends(Known(x)) \subseteq Ends(J) /\ Plain(Known(x)) \subseteq Plain(J)
  BY <1>9, EntriesGrow
<1>12. IsSession(y) /\ SubsTyped(y)
  BY <1>0, <1>4, FrameTyped
<1>13. InputsTyped(y)
  BY <1>0, <1>3, <1>4, <1>5 DEF InputsTyped, Inputs
<1>14. TurnTyped(y)
  BY <1>0, <1>6, <1>7, <1>9 DEF TurnTyped
<1>15. HeldTyped(y)
  BY <1>0, <1>6, <1>7, <1>9, <1>10 DEF HeldTyped
<1>16. QueuesTyped(y)
  <2> DEFINE S == Sends(Known(x))
             T == Sends(J)
             P == Plain(Known(x))
             R == Plain(J)
             E == Ends(Known(x))
             F == Ends(J)
  <2>1. x.waiting \in Seq(S \union P) /\ x.closing \in Seq(E) /\ x.outbox \in Seq(S)
    BY <1>0 DEF QueuesTyped
  <2>2. S \union P \subseteq T \union R /\ E \subseteq F /\ S \subseteq T
    BY <1>11
  <2> HIDE DEF S, T, P, R, E, F
  <2>3. x.waiting \in Seq(T \union R)
    BY <2>1, <2>2, SeqGrows
  <2>4. x.closing \in Seq(F)
    BY <2>1, <2>2, SeqGrows
  <2>5. x.outbox \in Seq(T)
    BY <2>1, <2>2, SeqGrows
  <2> QED BY <1>6, <1>7, <2>3, <2>4, <2>5 DEF QueuesTyped, T, R, F
<1>17. HandTyped(y, G)
  <2>1. HandTyped(y, H)
    BY <1>0, <1>7, <1>11 DEF HandTyped
  <2>2. <<i>> \in Seq(Known(y))
    BY <1>7, SetOfOne DEF J
  <2> QED BY <2>1, <2>2, Bears
<1>18. ProcTyped(y)
  BY <1>0, <1>4, FrameProc
<1>19. Entries(y, H) = Entries(x, H) /\ Entries(y, G) = Entries(y, H) \union {b}
  BY <1>6 DEF Entries
<1>20. b.kind = "retire" /\ b.carry = <<i>> /\ ToSet(<<i>>) = {i}
  BY SetOfOne DEF Bearer
<1>21. LockKept(y, G)
  <2>1. LockKept(y, H)
    BY <1>0, <1>4, FrameLock
  <2> QED BY <1>19, <2>1 DEF LockKept, Writes, Unlocks
<1>22. ClosedRests(y)
  BY <1>6 DEF ClosedRests
<1>23. Asked(y)
  <2>1. i \notin x.turn.inputs
    BY <1>0, <1>9 DEF TurnTyped
  <2>2. i \notin ToSet(x.given)
    <3>1. ToSet(x.given) \subseteq Known(x)
      BY <1>0, SetOf DEF HeldTyped
    <3> QED BY <1>9, <3>1
  <2> QED BY <1>0, <1>6, <1>8, <2>1, <2>2 DEF Asked
<1>24. NoneLost(y, G)
  <2>1. ASSUME NEW j \in Input, Waiting(y, j) PROVE Placed(y, G, j)
    <3>1. CASE j = i
      BY <1>19, <1>20, <3>1 DEF Placed, Carries
    <3>2. CASE Waiting(x, j)
      <4>1. Placed(x, H, j)
        BY <1>0, <3>2 DEF NoneLost
      <4> QED BY <1>6, <1>19, <4>1 DEF Placed, Writes, Carries
    <3> QED BY <1>8, <2>1, <3>1, <3>2
  <2> QED BY <2>1 DEF NoneLost
<1>25. TurnShape(y) /\ Limited(y) /\ Quiet(y)
  BY <1>0, <1>4, FrameShape
<1>26. Good(y, G)
  BY <1>12, <1>13, <1>14, <1>15, <1>16, <1>17, <1>18, <1>21, <1>22, <1>23, <1>24, <1>25 DEF Good, Base, Core
<1>27. i \in Known(y)
  BY <1>7 DEF J
<1> QED BY <1>4, <1>26, <1>27 DEF y

\* The session writes an input of its own.
LEMMA DeliverSystemKeeps ==
  ASSUME NEW x, Good(x, {}), x.status = "open", Fresh(x) # {}, NEW items
  PROVE  Good(DeliverSystem(x, items), {}) /\ DeliverSystem(x, items).status = "open"
<1> DEFINE i == CHOOSE j \in Fresh(x) : TRUE
           y == [x EXCEPT !.handoffs = @ + 1]
           z == Accept(y, i, "queue", items)
           u == Deliver(z, i, "queue")
<1>1. DeliverSystem(x, items) = u
  BY DEF DeliverSystem
<1>2. i \in Input /\ x.input[i] = "none"
  BY DEF Fresh, Input
<1> HIDE DEF i
<1>3. Base(x, {}) /\ TurnShape(x) /\ Limited(x) /\ Quiet(x) /\ IsSession(x)
  BY DEF Good, Base, Core
<1>4. Keeps(x, y, {"handoffs"})
  BY <1>3 DEF Keeps, IsSession, Fields
<1> HIDE DEF y
<1>5. Keeps(x, y, Loose) /\ y.status = "open" /\ y.input = x.input
  BY <1>4 DEF Keeps, Loose, Fields
<1>6. Good(y, {})
  BY <1>3, <1>5, LooseKeeps DEF Good
<1>7. "queue" \in Deliveries
  BY DEF Deliveries
<1> DEFINE G == {} \union {Bearer(<<i>>)}
<1>8. Good(z, G) /\ i \in Known(z) /\ Keeps(y, z, {"input", "delivery", "tells"})
  BY <1>2, <1>5, <1>6, <1>7, AcceptKeeps
<1> HIDE DEF z
<1>9. z.status = "open"
  BY <1>5, <1>8 DEF Keeps, Fields
<1>10. Good(u, {}) /\ Keeps(z, u, Delivered)
  BY <1>7, <1>8, <1>9, DeliverKeeps
<1> HIDE DEF u
<1>11. u.status = "open"
  BY <1>9, <1>10 DEF Keeps, Fields, Delivered
<1> QED BY <1>1, <1>10, <1>11

LEMMA MaybeDeliverKeeps ==
  ASSUME NEW x, Good(x, {}), x.status = "open"
  PROVE  /\ Good(MaybeDeliverDelegatedResults(x), {}) /\ MaybeDeliverDelegatedResults(x).status = "open"
         /\ Good(MaybeResumeAgent(x), {}) /\ MaybeResumeAgent(x).status = "open"
<1> DEFINE y == [x EXCEPT !.results = {}]
<1>1. Base(x, {}) /\ TurnShape(x) /\ Limited(x) /\ Quiet(x) /\ IsSession(x)
  BY DEF Good, Base, Core
<1>2. Keeps(x, y, {"results"})
  BY <1>1 DEF Keeps, IsSession, Fields
<1>3. MaybeDeliverDelegatedResults(x) = IF DeliversResults(x) THEN DeliverSystem(y, x.results) ELSE x
  BY DEF MaybeDeliverDelegatedResults
<1> HIDE DEF y
<1>4. Keeps(x, y, Loose) /\ y.status = "open" /\ Fresh(y) = Fresh(x)
  BY <1>2 DEF Keeps, Loose, Fields, Fresh
<1>5. Good(y, {})
  BY <1>1, <1>4, LooseKeeps DEF Good
<1>6. DeliversResults(x) => Good(DeliverSystem(y, x.results), {}) /\ DeliverSystem(y, x.results).status = "open"
  BY <1>4, <1>5, DeliverSystemKeeps DEF DeliversResults, MayHandOff
<1>7. Good(MaybeDeliverDelegatedResults(x), {}) /\ MaybeDeliverDelegatedResults(x).status = "open"
  BY <1>3, <1>6
<1>8. Good(MaybeResumeAgent(x), {}) /\ MaybeResumeAgent(x).status = "open"
  <2>1. CASE ResumeAgent /\ Has \intersect Delegated = {} /\ Driver # "executor" /\ x.news # {} /\ x.proc \in {"up", "closing"} /\ MayHandOff(x)
    <3>1. MaybeResumeAgent(x) = DeliverSystem(x, {}) /\ Fresh(x) # {}
      BY <2>1 DEF MaybeResumeAgent, MayHandOff
    <3> QED BY <3>1, DeliverSystemKeeps
  <2>2. CASE ~(ResumeAgent /\ Has \intersect Delegated = {} /\ Driver # "executor" /\ x.news # {} /\ x.proc \in {"up", "closing"} /\ MayHandOff(x))
    <3>1. MaybeResumeAgent(x) = x
      BY <2>2 DEF MaybeResumeAgent
    <3> QED BY <3>1
  <2> QED BY <2>1, <2>2
<1> QED BY <1>7, <1>8

-----------------------------------------------------------------------------
(* Settlement and the end of a turn. *)

LEMMA OnSettledKeeps ==
  ASSUME NEW x, Good(x, {}), x.status = "open"
  PROVE  Good(OnSettled(x), {}) /\ OnSettled(x).status = "open"
<1> DEFINE y == [x EXCEPT !.settled = TRUE]
           p == [y EXCEPT !.phase = "idle"]
           z == IF x.phase = "background" THEN EnterIdle(p) ELSE y
<1>0. IsSession(x) /\ TurnTyped(x) /\ HeldTyped(x) /\ Base(x, {}) /\ TurnShape(x) /\ Limited(x) /\ Quiet(x)
  BY DEF Good, Base, Core
<1>1. OnSettled(x) = CASE Live(x) # {} \/ x.status = "closed" -> x
                       [] Live(x) = {} /\ x.status # "closed" /\ TurnOpen(x) -> y
                       [] Live(x) = {} /\ x.status # "closed" /\ DeliversResults(z) -> MaybeDeliverDelegatedResults(z)
                       [] OTHER -> MaybeResumeAgent(z)
  BY DEF OnSettled
<1>2. CASE Live(x) # {}
  <2>1. OnSettled(x) = x
    <3> HIDE DEF z, y
    <3> QED BY <1>1, <1>2
  <2> QED BY <2>1
<1>3. CASE Live(x) = {}
  <2>1. Keeps(x, y, {"settled"}) /\ y.settled = TRUE
    BY <1>0 DEF Keeps, IsSession, Fields
  <2> HIDE DEF y
  <2>2. Keeps(x, p, {"settled", "phase"}) /\ p.settled = TRUE /\ p.phase = "idle"
    BY <2>1 DEF Keeps, IsSession, Fields
  <2> HIDE DEF p
  <2>3. ASSUME NEW v, Keeps(x, v, {"settled", "phase"}), v.settled = TRUE, v.phase \in {"idle", "turn", "background"}
        PROVE  /\ Base(v, {}) /\ Limited(v) /\ Quiet(v) /\ v.status = "open" /\ v.turn = x.turn
               /\ (v.phase = "turn" <=> x.phase = "turn") => TurnShape(v)
    <3>1. Keeps(x, v, Policy)
      BY <2>3 DEF Keeps, Policy
    <3>2. v.timers = x.timers /\ v.grace = x.grace /\ v.pending = x.pending /\ v.input = x.input
      BY <2>3 DEF Keeps, Fields
    <3>3. Known(v) = Known(x)
      BY <3>2 DEF Known
    <3>4. PolicyTyped(v)
      BY <1>0, <2>3, <3>2, <3>3 DEF TurnTyped, HeldTyped, PolicyTyped
    <3>5. Base(v, {})
      BY <1>0, <3>1, <3>4, PolicyKeeps
    <3>6. v.status = "open" /\ v.turn = x.turn /\ v.proc = x.proc /\ Live(v) = Live(x)
      BY <1>0, <3>1, <3>4, PolicyKeeps
    <3> QED BY <1>0, <1>3, <3>2, <3>5, <3>6 DEF TurnShape, Limited, Quiet, TurnOpen
  <2>4. y.phase = x.phase /\ Keeps(x, y, {"settled", "phase"})
    BY <2>1 DEF Keeps, Fields
  <2>5. /\ Base(y, {}) /\ Limited(y) /\ Quiet(y) /\ y.status = "open" /\ y.turn = x.turn /\ TurnShape(y)
    BY <1>0, <2>1, <2>3, <2>4 DEF TurnTyped
  <2>6. Good(y, {})
    BY <2>5 DEF Good
  <2>7. CASE TurnOpen(x)
    <3>1. x.phase = "turn"
      BY <1>0, <2>7 DEF TurnShape
    <3>2. z = y
      BY <3>1
    <3> HIDE DEF z
    <3>3. ~DeliversResults(z)
      BY <2>5, <2>7, <3>2 DEF DeliversResults, TurnOpen
    <3>4. OnSettled(x) = y
      BY <1>1, <1>3, <2>7, <3>3
    <3> QED BY <2>5, <2>6, <3>4
  <2>8. CASE ~TurnOpen(x)
    <3>1. Good(z, {}) /\ z.status = "open"
      <4>1. CASE x.phase = "background"
        <5>1. /\ Base(p, {}) /\ Quiet(p) /\ p.status = "open" /\ p.turn = x.turn /\ TurnShape(p)
          BY <2>2, <2>3, <4>1
        <5>2. ~TurnOpen(p)
          BY <2>8, <5>1 DEF TurnOpen
        <5>3. Good(EnterIdle(p), {}) /\ EnterIdle(p).status = "open"
          BY <5>1, <5>2, EnterIdleKeeps
        <5> QED BY <4>1, <5>3
      <4>2. CASE x.phase # "background"
        BY <2>5, <2>6, <4>2
      <4> QED BY <4>1, <4>2
    <3> HIDE DEF z
    <3>2. OnSettled(x) = IF DeliversResults(z) THEN MaybeDeliverDelegatedResults(z) ELSE MaybeResumeAgent(z)
      BY <1>1, <1>3, <2>8
    <3>3. Good(MaybeDeliverDelegatedResults(z), {}) /\ MaybeDeliverDelegatedResults(z).status = "open"
      BY <3>1, MaybeDeliverKeeps
    <3>4. Good(MaybeResumeAgent(z), {}) /\ MaybeResumeAgent(z).status = "open"
      BY <3>1, MaybeDeliverKeeps
    <3> QED BY <3>2, <3>3, <3>4
  <2> QED BY <2>7, <2>8
<1> QED BY <1>2, <1>3

LEMMA SettlePhaseKeeps ==
  ASSUME NEW x, Base(x, {}), x.turn = NoTurn, Quiet(x), x.status = "open"
  PROVE  Good(SettlePhaseAfterTurn(x), {}) /\ SettlePhaseAfterTurn(x).status = "open"
<1> DEFINE live == Running(x, Native \union Delegated) # {}
           b == [x EXCEPT !.phase = "background"]
           p == [x EXCEPT !.phase = "idle"]
           a == EnterBackground(b)
           y == IF live THEN a ELSE EnterIdle(p)
<1>0. IsSession(x) /\ TurnTyped(x) /\ HeldTyped(x)
  BY DEF Base, Core
<1>1. SettlePhaseAfterTurn(x) = CASE ~y.settled /\ "settle" \notin y.timers -> AfterSubagentChange(y)
                                  [] (y.settled \/ "settle" \in y.timers) /\ ~live -> MaybeDeliverDelegatedResults(y)
                                  [] OTHER -> y
  BY DEF SettlePhaseAfterTurn
<1>2. ASSUME NEW v, Keeps(x, v, {"phase", "timers"}), v.phase \in {"idle", "background"}, v.timers \subseteq Timer
      PROVE  Base(v, {}) /\ TurnShape(v) /\ Limited(v) /\ Quiet(v) /\ v.status = "open" /\ ~TurnOpen(v)
  <2>1. Keeps(x, v, Policy)
    BY <1>2 DEF Keeps, Policy
  <2>2. v.settled = x.settled /\ v.grace = x.grace /\ v.pending = x.pending /\ v.input = x.input
    BY <1>2 DEF Keeps, Fields
  <2>3. Known(v) = Known(x)
    BY <2>2 DEF Known
  <2>4. PolicyTyped(v)
    BY <1>0, <1>2, <2>2, <2>3 DEF TurnTyped, HeldTyped, PolicyTyped
  <2>5. Base(v, {})
    BY <2>1, <2>4, PolicyKeeps
  <2>6. v.status = "open" /\ v.turn = x.turn /\ v.proc = x.proc /\ Live(v) = Live(x)
    BY <2>1, <2>4, PolicyKeeps
  <2> QED BY <1>2, <2>2, <2>5, <2>6 DEF TurnShape, Limited, Quiet, TurnOpen
<1>3. Keeps(x, b, {"phase"}) /\ b.phase = "background"
  BY <1>0 DEF Keeps, IsSession, Fields
<1>4. Keeps(x, p, {"phase"}) /\ p.phase = "idle"
  BY <1>0 DEF Keeps, IsSession, Fields
<1> HIDE DEF b, p
<1>5. Good(a, {}) /\ a.status = "open"
  <2>1. Keeps(b, a, {"timers"}) /\ a.timers = b.timers \union {"stall", "backgroundMax"}
    BY <1>3, ArmDoes DEF EnterBackground, Keeps
  <2> HIDE DEF a
  <2>2. a.phase = "background" /\ b.timers = x.timers /\ Keeps(x, a, {"phase", "timers"})
    BY <1>3, <2>1 DEF Keeps, Fields
  <2>3. a.timers \subseteq Timer
    BY <1>0, <2>1, <2>2 DEF TurnTyped, Timer
  <2> QED BY <1>2, <2>2, <2>3 DEF Good
<1>6. Good(EnterIdle(p), {}) /\ EnterIdle(p).status = "open"
  <2>1. p.timers = x.timers /\ Keeps(x, p, {"phase", "timers"})
    BY <1>4 DEF Keeps, Fields
  <2>2. Base(p, {}) /\ TurnShape(p) /\ Quiet(p) /\ p.status = "open" /\ ~TurnOpen(p)
    BY <1>0, <1>2, <1>4, <2>1 DEF TurnTyped
  <2> QED BY <2>2, EnterIdleKeeps
<1> HIDE DEF a
<1>7. Good(y, {}) /\ y.status = "open"
  BY <1>5, <1>6
<1> HIDE DEF y, live
<1>8. Good(AfterSubagentChange(y), {}) /\ AfterSubagentChange(y).status = "open"
  <2> DEFINE z == AfterSubagentChange(y)
  <2>1. Good(z, {}) /\ Keeps(y, z, {"timers", "phase", "settled"})
    BY <1>7, AfterSubagentChangeKeeps DEF Good
  <2> HIDE DEF z
  <2>2. z.status = "open"
    BY <1>7, <2>1 DEF Keeps, Fields
  <2> QED BY <2>1, <2>2 DEF z
<1>9. Good(MaybeDeliverDelegatedResults(y), {}) /\ MaybeDeliverDelegatedResults(y).status = "open"
  BY <1>7, MaybeDeliverKeeps
<1> QED BY <1>1, <1>7, <1>8, <1>9

\* The next input the application holds is delivered.
LEMMA ReleaseKeeps ==
  ASSUME NEW x, Good(x, {}), x.status = "open"
  PROVE  Good(ReleaseHeldInput(x), {}) /\ ReleaseHeldInput(x).status = "open"
<1>0. /\ IsSession(x) /\ HeldTyped(x) /\ InputsTyped(x) /\ Base(x, {}) /\ TurnShape(x) /\ Limited(x) /\ Quiet(x)
      /\ HandTyped(x, {}) /\ LockKept(x, {}) /\ NoneLost(x, {}) /\ x.held \in Seq(Known(x)) /\ x.front \in Seq(Known(x))
  BY DEF Good, Base, Core, HeldTyped
\* What is taken off either queue is in hand.
<1>1. ASSUME NEW i \in Known(x), NEW y, Keeps(x, y, {"held", "front"}), y.held \in Seq(Known(x)), y.front \in Seq(Known(x)),
             ToSet(x.held) \union ToSet(x.front) \subseteq {i} \union ToSet(y.held) \union ToSet(y.front), NEW d \in Deliveries
      PROVE  Good(DeliverQueued(y, i, d), {}) /\ DeliverQueued(y, i, d).status = "open"
  <2> DEFINE b == Bearer(<<i>>)
             G == {} \union {b}
             u == DeliverQueued(y, i, d)
  <2>1. /\ y.given = x.given /\ y.pending = x.pending /\ y.request = x.request /\ y.input = x.input /\ y.waiting = x.waiting
        /\ y.closing = x.closing /\ y.outbox = x.outbox /\ y.status = "open"
    BY <1>1 DEF Keeps, Fields
  <2>2. Known(y) = Known(x) /\ \A j : Waiting(y, j) <=> Waiting(x, j)
    BY <2>1 DEF Known, Waiting
  <2>3. HeldTyped(y)
    BY <1>0, <1>1, <2>1, <2>2 DEF HeldTyped
  <2>4. b.kind = "retire" /\ b.carry = <<i>> /\ ToSet(<<i>>) = {i} /\ HandTyped(x, G)
    <3>1. <<i>> \in Seq(Known(x)) /\ ToSet(<<i>>) = {i}
      BY SetOfOne
    <3> QED BY <1>0, <3>1, Bears DEF Bearer
  <2> HIDE DEF b
  <2>5. Entries(x, G) = Entries(x, {}) \union {b} /\ Entries(y, G) = Entries(x, {}) \union {b}
    BY <2>1 DEF Entries
  <2>6. LockKept(x, G)
    BY <1>0, <2>5 DEF LockKept, Writes, Unlocks
  <2>7. NoneLost(y, G)
    <3>1. ASSUME NEW j \in Input, Waiting(y, j) PROVE Placed(y, G, j)
      <4>1. Placed(x, {}, j)
        BY <1>0, <2>2, <3>1 DEF NoneLost
      <4>2. CASE j \in ToSet(x.held) \union ToSet(x.front)
        BY <1>1, <2>4, <2>5, <4>2 DEF Placed, Carries
      <4>3. CASE j \notin ToSet(x.held) \union ToSet(x.front)
        BY <2>1, <2>5, <4>1, <4>3 DEF Placed, Writes, Carries
      <4> QED BY <4>2, <4>3
    <3> QED BY <3>1 DEF NoneLost
  <2>8. Keeps(x, y, {"held", "front", "pending"})
    BY <1>1 DEF Keeps
  <2> HIDE DEF G
  <2>9. Base(y, G) /\ TurnShape(y) /\ Limited(y) /\ Quiet(y)
    BY <1>0, <2>3, <2>4, <2>6, <2>7, <2>8, MovesKeep
  <2>10. Good(y, {} \union {Bearer(<<i>>)}) /\ i \in Known(y)
    BY <2>2, <2>9 DEF Good, G, b
  <2>11. Good(u, {}) /\ Keeps(y, u, Delivered)
    BY <2>1, <2>10, DeliverQueuedKeeps
  <2> HIDE DEF u
  <2>12. u.status = "open"
    BY <2>1, <2>11 DEF Keeps, Fields, Delivered
  <2> QED BY <2>11, <2>12 DEF u
<1>2. CASE TurnOpen(x) \/ (x.front = <<>> /\ x.held = <<>>)
  <2>1. ReleaseHeldInput(x) = x
    BY <1>2 DEF ReleaseHeldInput
  <2> QED BY <2>1
<1>3. CASE ~TurnOpen(x) /\ x.front # <<>>
  <2> DEFINE y == [x EXCEPT !.front = Tail(@)]
             i == Head(x.front)
  <2>1. ReleaseHeldInput(x) = DeliverQueued(y, i, "queue")
    BY <1>3 DEF ReleaseHeldInput
  <2>2. Keeps(x, y, {"held", "front"}) /\ y.front = Tail(x.front) /\ y.held = x.held
    BY <1>0 DEF Keeps, IsSession, Fields
  <2> HIDE DEF y
  <2>3. i \in Known(x) /\ Tail(x.front) \in Seq(Known(x)) /\ ToSet(x.front) = {i} \union ToSet(Tail(x.front))
    BY <1>0, <1>3, SetOfTail
  <2>4. ToSet(x.held) \union ToSet(x.front) \subseteq {i} \union ToSet(y.held) \union ToSet(y.front)
    BY <2>2, <2>3
  <2>5. "queue" \in Deliveries
    BY DEF Deliveries
  <2> HIDE DEF i
  <2> QED BY <1>0, <1>1, <2>1, <2>2, <2>3, <2>4, <2>5
<1>4. CASE ~TurnOpen(x) /\ x.front = <<>> /\ x.held # <<>>
  <2> DEFINE y == [x EXCEPT !.held = Tail(@)]
             i == Head(x.held)
             d == x.delivery[i]
  <2>1. ReleaseHeldInput(x) = DeliverQueued(y, i, d)
    BY <1>4 DEF ReleaseHeldInput
  <2>2. Keeps(x, y, {"held", "front"}) /\ y.held = Tail(x.held) /\ y.front = x.front
    BY <1>0 DEF Keeps, IsSession, Fields
  <2> HIDE DEF y
  <2>3. i \in Known(x) /\ Tail(x.held) \in Seq(Known(x)) /\ ToSet(x.held) = {i} \union ToSet(Tail(x.held))
    BY <1>0, <1>4, SetOfTail
  <2>4. ToSet(x.held) \union ToSet(x.front) \subseteq {i} \union ToSet(y.held) \union ToSet(y.front)
    BY <2>2, <2>3
  <2> HIDE DEF i
  <2>5. d \in Deliveries
    BY <1>0, <2>3 DEF InputsTyped, Known
  <2> HIDE DEF d
  <2> QED BY <1>0, <1>1, <2>1, <2>2, <2>3, <2>4, <2>5
<1> QED BY <1>2, <1>3, <1>4

LEMMA CompleteTurnKeeps ==
  ASSUME NEW x, Good(x, {}), x.status = "open"
  PROVE  Good(CompleteTurn(x), {}) /\ CompleteTurn(x).status = "open"
<1> DEFINE done == {i \in x.turn.inputs : x.input[i] = "started"}
           c == Cancel(x, {"turnInactivity"})
           s == SetInputs(c, done, "completed")
           y == [s EXCEPT !.turn = NoTurn, !.grace = NoGrace]
           C == {"timers", "input", "turn", "grace"}
<1>0. /\ IsSession(x) /\ InputsTyped(x) /\ SubsTyped(x) /\ TurnTyped(x) /\ HeldTyped(x) /\ QueuesTyped(x)
      /\ HandTyped(x, {}) /\ ProcTyped(x) /\ LockKept(x, {}) /\ ClosedRests(x) /\ Asked(x) /\ NoneLost(x, {}) /\ Quiet(x)
  BY DEF Good, Base, Core
<1>1. CompleteTurn(x) = ReleaseHeldInput(SettlePhaseAfterTurn(y))
  BY DEF CompleteTurn
<1>2. Keeps(x, c, {"timers"}) /\ c.timers \subseteq Timer
  BY <1>0, CancelDoes DEF TurnTyped
<1> HIDE DEF c
<1>3. Keeps(c, s, {"input"}) /\ s.input = [i \in Input |-> IF i \in done THEN "completed" ELSE c.input[i]]
  BY <1>2, SetInputsDoes DEF Keeps
<1> HIDE DEF s
<1>4. Keeps(s, y, {"turn", "grace"}) /\ y.turn = NoTurn /\ y.grace = NoGrace
  BY <1>3 DEF Keeps, IsSession, Fields
<1> HIDE DEF y
<1>5. Keeps(x, y, C) /\ c.input = x.input /\ y.input = s.input /\ y.timers = c.timers
  BY <1>2, <1>3, <1>4 DEF Keeps, Fields
<1>6. y.input = [i \in Input |-> IF i \in done THEN "completed" ELSE x.input[i]]
  BY <1>3, <1>5
<1>7. Known(y) = Known(x) /\ \A i \in Input : Waiting(y, i) => Waiting(x, i)
  BY <1>6 DEF Known, Waiting
<1>8. InputsTyped(y)
  <2>1. y.delivery = x.delivery
    BY <1>5 DEF Keeps, Fields
  <2> QED BY <1>0, <1>6, <2>1 DEF InputsTyped, Inputs
<1>9. /\ y.turns = x.turns /\ y.phase = x.phase /\ y.settled = x.settled /\ y.status = x.status
      /\ y.held = x.held /\ y.front = x.front /\ y.given = x.given /\ y.request = x.request
      /\ y.waiting = x.waiting /\ y.closing = x.closing /\ y.outbox = x.outbox
  BY <1>5 DEF Keeps, Fields
<1>10. IsSession(y) /\ SubsTyped(y)
  BY <1>0, <1>5, FrameTyped
<1>11. TurnTyped(y)
  BY <1>0, <1>2, <1>4, <1>5, <1>9 DEF TurnTyped, NoTurn
<1>12. HeldTyped(y)
  BY <1>0, <1>5, <1>7, FrameHeld
<1>13. QueuesTyped(y)
  BY <1>0, <1>5, <1>7, FrameQueues
<1>14. HandTyped(y, {}) /\ ProcTyped(y)
  BY <1>0, <1>5, FrameProc DEF HandTyped
<1>15. LockKept(y, {})
  BY <1>0, <1>5, FrameLock
<1>16. ClosedRests(y)
  BY <1>9 DEF ClosedRests
<1>17. Asked(y)
  BY <1>0, <1>4, <1>7, <1>9 DEF Asked, NoTurn
<1>18. NoneLost(y, {})
  <2>1. Entries(y, {}) = Entries(x, {})
    BY <1>9 DEF Entries
  <2> QED BY <1>0, <1>7, <1>9, <2>1 DEF NoneLost, Placed
<1>19. Quiet(y)
  BY <1>0, <1>5, FrameShape
<1>20. Base(y, {})
  BY <1>8, <1>10, <1>11, <1>12, <1>13, <1>14, <1>15, <1>16, <1>17, <1>18 DEF Base, Core
<1>21. Good(SettlePhaseAfterTurn(y), {}) /\ SettlePhaseAfterTurn(y).status = "open"
  BY <1>4, <1>9, <1>19, <1>20, SettlePhaseKeeps
<1> QED BY <1>1, <1>21, ReleaseKeeps

LEMMA RetireForInterruptKeeps ==
  ASSUME NEW x, Good(x, {}), x.status = "open", TurnOpen(x)
  PROVE  Good(RetireForInterrupt(x), {})
<1> DEFINE held == IF NativeQueue THEN x.pending.inputs ELSE x.front \o x.held
           carried == Only(held, {i \in Input : Waiting(x, i)})
           r == [kind |-> "retire", why |-> "user_interrupt", carry |-> carried, complete |-> TRUE, then |-> "carry"]
<1>0. HeldTyped(x) /\ Base(x, {}) /\ TurnShape(x) /\ Quiet(x)
  BY DEF Good, Base, Core
<1>1. RetireForInterrupt(x) = Retire(x, r)
  BY DEF RetireForInterrupt
<1>2. held \in Seq(Known(x))
  <2>1. x.pending.inputs \in Seq(Known(x)) /\ x.front \in Seq(Known(x)) /\ x.held \in Seq(Known(x))
    BY <1>0 DEF HeldTyped
  <2>2. x.front \o x.held \in Seq(Known(x))
    BY <2>1, SetOfConcat
  <2> QED BY <2>1, <2>2
<1> HIDE DEF held
<1>3. carried \in Seq(Known(x))
  BY <1>2, OnlySound
<1> HIDE DEF carried
<1>4. r \in Ends(Known(x))
  BY <1>3 DEF Ends, Reasons
<1> HIDE DEF r
<1>5. Base(x, {} \union {r})
  BY <1>0, <1>4, Retires
<1>6. x.proc \in {"up", "closing"}
  BY <1>0 DEF TurnShape
<1> QED BY <1>0, <1>1, <1>4, <1>5, <1>6, RetireKeeps

-----------------------------------------------------------------------------
(* What the actions do besides. *)

LEMMA FinishAfter ==
  ASSUME NEW x, Good(x, {})
  PROVE  After(Finish(x))
BY FinishKeeps DEF After

\* Sub-agents, the roster or the lock change.
LEMMA SubsKeep ==
  ASSUME NEW x, NEW y, NEW H, NEW G, Keeps(x, y, {"sub", "roster", "lock"} \union Loose), Base(x, H), SubsTyped(y),
         LockKept(y, G), H \subseteq G, HandTyped(x, G), x.status = "open"
  PROVE  /\ Base(y, G) /\ Known(y) = Known(x) /\ y.status = "open"
         /\ TurnShape(x) => TurnShape(y)
         /\ Limited(x) => Limited(y)
<1> DEFINE C == {"sub", "roster", "lock"} \union Loose
<1>0. /\ IsSession(x) /\ InputsTyped(x) /\ SubsTyped(x) /\ TurnTyped(x) /\ HeldTyped(x) /\ QueuesTyped(x)
      /\ HandTyped(x, H) /\ ProcTyped(x) /\ LockKept(x, H) /\ ClosedRests(x) /\ Asked(x) /\ NoneLost(x, H)
  BY DEF Base, Core
<1>1. /\ y.input = x.input /\ y.status = x.status /\ y.held = x.held /\ y.front = x.front /\ y.given = x.given
      /\ y.request = x.request /\ y.waiting = x.waiting /\ y.closing = x.closing /\ y.outbox = x.outbox
  BY DEF Keeps, Fields, Loose
<1>2. Known(y) = Known(x) /\ \A i : Waiting(y, i) <=> Waiting(x, i)
  BY <1>1 DEF Known, Waiting
<1>3. IsSession(y) /\ InputsTyped(y)
  BY <1>0, FrameTyped DEF Loose
<1>4. TurnTyped(y)
  BY <1>0, <1>2, FrameTurn DEF Loose
<1>5. HeldTyped(y)
  BY <1>0, <1>2, FrameHeld DEF Loose
<1>6. QueuesTyped(y)
  BY <1>0, <1>2, FrameQueues DEF Loose
<1>7. HandTyped(y, G)
  BY <1>2 DEF HandTyped
<1>8. ProcTyped(y)
  BY <1>0, FrameProc DEF Loose
<1>9. ClosedRests(y)
  BY <1>1 DEF ClosedRests
<1>10. Asked(y)
  BY <1>0, <1>2, FrameAsked DEF Loose
<1>11. NoneLost(y, G)
  <2>1. Entries(x, H) \subseteq Entries(y, G)
    BY <1>1 DEF Entries
  <2> QED BY <1>0, <1>1, <1>2, <2>1 DEF NoneLost, Placed, Writes, Carries
<1>12. (TurnShape(x) => TurnShape(y)) /\ (Limited(x) => Limited(y))
  BY FrameShape DEF Loose
<1> QED BY <1>1, <1>2, <1>3, <1>4, <1>5, <1>6, <1>7, <1>8, <1>9, <1>10, <1>11, <1>12 DEF Base, Core

\* A call takes the lock; the retirement it waits for is in hand.
LEMMA CallTakes ==
  ASSUME NEW x, NEW y, Keeps(x, y, {"sub", "lock"} \union Loose), Base(x, {}), SubsTyped(y), y.lock = "call",
         NEW r \in Ends(Known(x)), r.then \in {"close", "return"}, x.status = "open"
  PROVE  /\ Base(y, {} \union {r}) /\ y.status = "open" /\ Known(y) = Known(x)
         /\ TurnShape(x) => TurnShape(y)
         /\ Limited(x) => Limited(y)
         /\ y.sub = x.sub /\ Quiet(x) => Quiet(y)
<1> DEFINE G == {} \union {r}
<1>1. Keeps(x, y, {"sub", "roster", "lock"} \union Loose)
  BY DEF Keeps
<1>2. HandTyped(x, G) /\ {} \subseteq G
  BY DEF HandTyped
<1>3. LockKept(y, G)
  <2>1. r \in Entries(y, G) /\ r.kind = "retire"
    BY DEF Entries, Ends
  <2>2. "call" \notin Input
    BY ToldApart
  <2> QED BY <2>1, <2>2 DEF LockKept, Unlocks
<1> HIDE DEF G
<1>4. /\ Base(y, G) /\ Known(y) = Known(x) /\ y.status = "open"
      /\ (TurnShape(x) => TurnShape(y)) /\ (Limited(x) => Limited(y))
  BY <1>1, <1>2, <1>3, SubsKeep
<1>5. y.sub = x.sub /\ Quiet(x) => Quiet(y)
  <2>1. y.settled = x.settled /\ y.roster = x.roster
    BY DEF Keeps, Fields, Loose
  <2> QED BY <2>1 DEF Quiet, Live, Running
<1> QED BY <1>4, <1>5 DEF G

\* Inputs leave the queue of the provider.
LEMMA GivenKeeps ==
  ASSUME NEW x, NEW y, NEW H, NEW G, Keeps(x, y, {"given"}), Base(x, H), H \subseteq G, HandTyped(x, G),
         y.given \in Seq(Known(x)), ToSet(y.given) \subseteq ToSet(x.given),
         \A i \in Input : Waiting(x, i) /\ i \in ToSet(x.given) => i \in ToSet(y.given) \/ i \in x.request \/ Carries(G, i)
  PROVE  /\ Base(y, G) /\ Known(y) = Known(x) /\ \A i : Waiting(y, i) <=> Waiting(x, i)
         /\ TurnShape(x) => TurnShape(y)
         /\ Limited(x) => Limited(y)
         /\ Quiet(x) => Quiet(y)
<1>0. /\ IsSession(x) /\ InputsTyped(x) /\ SubsTyped(x) /\ TurnTyped(x) /\ HeldTyped(x) /\ QueuesTyped(x)
      /\ HandTyped(x, H) /\ ProcTyped(x) /\ LockKept(x, H) /\ ClosedRests(x) /\ Asked(x) /\ NoneLost(x, H)
  BY DEF Base, Core
<1>1. /\ y.input = x.input /\ y.held = x.held /\ y.front = x.front /\ y.turn = x.turn /\ y.pending = x.pending
      /\ y.request = x.request /\ y.waiting = x.waiting /\ y.closing = x.closing /\ y.outbox = x.outbox
  BY DEF Keeps, Fields
<1>2. Known(y) = Known(x) /\ \A i : Waiting(y, i) <=> Waiting(x, i)
  BY <1>1 DEF Known, Waiting
<1>3. IsSession(y) /\ InputsTyped(y) /\ SubsTyped(y)
  BY <1>0, FrameTyped
<1>4. TurnTyped(y) /\ QueuesTyped(y) /\ ProcTyped(y) /\ ClosedRests(y)
  BY <1>0, <1>2, FrameTurn, FrameQueues, FrameProc, FrameClosed
<1>5. HeldTyped(y)
  BY <1>0, <1>1, <1>2 DEF HeldTyped
<1>6. HandTyped(y, G)
  BY <1>2 DEF HandTyped
<1>7. Entries(x, H) \subseteq Entries(y, G) /\ G \subseteq Entries(y, G)
  BY <1>1 DEF Entries
<1>8. LockKept(y, G)
  <2>1. y.lock = x.lock
    BY DEF Keeps, Fields
  <2> QED BY <1>0, <1>1, <1>7, <2>1 DEF LockKept, Writes, Unlocks
<1>9. Asked(y)
  BY <1>0, <1>1, <1>2 DEF Asked
<1>10. NoneLost(y, G)
  <2>1. ASSUME NEW i \in Input, Waiting(y, i) PROVE Placed(y, G, i)
    <3>1. Placed(x, H, i) /\ Waiting(x, i)
      BY <1>0, <1>2, <2>1 DEF NoneLost
    <3>2. CASE i \in ToSet(x.given)
      BY <1>1, <1>7, <3>1, <3>2 DEF Placed, Carries
    <3>3. CASE i \notin ToSet(x.given)
      BY <1>1, <1>7, <3>1, <3>3 DEF Placed, Writes, Carries
    <3> QED BY <3>2, <3>3
  <2> QED BY <2>1 DEF NoneLost
<1>11. (TurnShape(x) => TurnShape(y)) /\ (Limited(x) => Limited(y)) /\ (Quiet(x) => Quiet(y))
  BY FrameShape
<1> QED BY <1>2, <1>3, <1>4, <1>5, <1>6, <1>8, <1>9, <1>10, <1>11 DEF Base, Core

\* Inputs end.
LEMMA InputsEnd ==
  ASSUME NEW x, NEW y, NEW H, Keeps(x, y, {"input"}), Base(x, H), y.input \in [Input -> Inputs], Known(y) = Known(x),
         \A i \in Input : Waiting(y, i) => Waiting(x, i)
  PROVE  /\ Base(y, H)
         /\ TurnShape(x) => TurnShape(y)
         /\ Limited(x) => Limited(y)
         /\ Quiet(x) => Quiet(y)
<1>0. /\ IsSession(x) /\ InputsTyped(x) /\ SubsTyped(x) /\ TurnTyped(x) /\ HeldTyped(x) /\ QueuesTyped(x)
      /\ HandTyped(x, H) /\ ProcTyped(x) /\ LockKept(x, H) /\ ClosedRests(x) /\ Asked(x) /\ NoneLost(x, H)
  BY DEF Base, Core
<1>1. /\ y.turn = x.turn /\ y.held = x.held /\ y.front = x.front /\ y.given = x.given /\ y.delivery = x.delivery
      /\ y.request = x.request /\ y.waiting = x.waiting /\ y.closing = x.closing /\ y.outbox = x.outbox
  BY DEF Keeps, Fields
<1>2. IsSession(y) /\ SubsTyped(y) /\ InputsTyped(y)
  BY <1>0, <1>1, FrameTyped DEF InputsTyped
<1>3. TurnTyped(y) /\ HeldTyped(y) /\ QueuesTyped(y) /\ ProcTyped(y)
  BY <1>0, FrameTurn, FrameHeld, FrameQueues, FrameProc
<1>4. LockKept(y, H) /\ HandTyped(y, H)
  BY <1>0, FrameLock DEF HandTyped
<1>5. ClosedRests(y)
  BY <1>0, ClosedFewer
<1>6. Asked(y)
  BY <1>0, <1>1 DEF Asked
<1>7. NoneLost(y, H)
  <2>1. Entries(y, H) = Entries(x, H)
    BY <1>1 DEF Entries
  <2> QED BY <1>0, <1>1, <2>1 DEF NoneLost, Placed
<1>8. (TurnShape(x) => TurnShape(y)) /\ (Limited(x) => Limited(y)) /\ (Quiet(x) => Quiet(y))
  BY FrameShape
<1> QED BY <1>2, <1>3, <1>4, <1>5, <1>6, <1>7, <1>8 DEF Base, Core

\* A request that was answered, and its call.
LEMMA RequestDrops ==
  ASSUME NEW x, NEW H, Base(x, H), NEW i \in Input, ~Waiting(x, i), NEW z, z = [x EXCEPT !.request = @ \ {i}]
  PROVE  /\ Base(Unlock(z, {i}), H) /\ Keeps(x, Unlock(z, {i}), {"request", "lock"})
         /\ TurnShape(x) => TurnShape(Unlock(z, {i}))
         /\ Limited(x) => Limited(Unlock(z, {i}))
         /\ Quiet(x) => Quiet(Unlock(z, {i}))
<1> DEFINE y == Unlock(z, {i})
           C == {"held", "front", "pending", "given", "request", "lock"} \union Loose
<1>0. /\ Core(x, H) /\ IsSession(x) /\ HeldTyped(x) /\ ProcTyped(x) /\ LockKept(x, H) /\ ClosedRests(x) /\ Asked(x) /\ NoneLost(x, H)
      /\ HandTyped(x, H)
  BY DEF Base, Core
<1>1. Keeps(x, z, {"request"}) /\ z.request = x.request \ {i}
  BY <1>0 DEF Keeps, IsSession, Fields
<1>13. IsSession(z)
  BY <1>1 DEF Keeps
<1>2. Keeps(z, y, {"lock"}) /\ y.lock = IF z.lock \in {i} THEN None ELSE z.lock
  BY <1>13, UnlockDoes
<1> HIDE DEF y
<1>3. Keeps(x, y, {"request", "lock"}) /\ Keeps(x, y, C) /\ y.request = x.request \ {i} /\ z.lock = x.lock
  BY <1>1, <1>2 DEF Keeps, Fields
<1>4. /\ y.input = x.input /\ y.held = x.held /\ y.front = x.front /\ y.given = x.given /\ y.pending = x.pending
      /\ y.waiting = x.waiting /\ y.closing = x.closing /\ y.outbox = x.outbox /\ y.proc = x.proc /\ y.turn = x.turn
      /\ y.status = x.status /\ y.timers = x.timers /\ y.grace = x.grace
  BY <1>3 DEF Keeps, Fields
<1>5. HeldTyped(y)
  BY <1>0, <1>3, <1>4 DEF HeldTyped, Known
<1>6. y.request # {} => y.proc = "up"
  BY <1>0, <1>3, <1>4 DEF ProcTyped
<1>7. Entries(y, H) = Entries(x, H)
  BY <1>4 DEF Entries
<1>8. LockKept(y, H)
  BY <1>0, <1>2, <1>3, <1>7, ToldApart DEF LockKept
<1>9. ClosedRests(y)
  BY <1>0, <1>2, <1>3, <1>4 DEF ClosedRests, Waiting
<1> HIDE DEF C
<1>10. /\ Core(y, H) /\ (\A j : Waiting(y, j) <=> Waiting(x, j))
       /\ (TurnShape(x) => TurnShape(y)) /\ (Limited(x) => Limited(y)) /\ (Quiet(x) => Quiet(y))
  BY <1>0, <1>3, <1>5, <1>6, <1>8, <1>9, PlacesKeep DEF C
<1>11. Asked(y)
  BY <1>0, <1>3, <1>4, <1>10 DEF Asked
<1>12. NoneLost(y, H)
  BY <1>0, <1>3, <1>4, <1>7, <1>10 DEF NoneLost, Placed
<1> QED BY <1>3, <1>10, <1>11, <1>12 DEF Base, y

LEMMA CallsFail ==
  ASSUME NEW x, NEW I, I \subseteq Input, Core(x, Calls(I))
  PROVE  /\ Keeps(x, FailWrite(x, I), {"input", "why", "untold", "pending", "lock"})
         /\ \A j \in Input : Waiting(FailWrite(x, I), j) => Waiting(x, j) /\ j \notin I
         /\ Core(FailWrite(x, I), {})
         /\ Quiet(x) => Quiet(FailWrite(x, I))
<1> DEFINE W == Calls(I)
           N == {}
<1>1. \A w \in W : w.kind = "write" /\ w.input \in I
  BY CallsTyped
<1>2. Core(x, N \union W)
  OBVIOUS
<1> HIDE DEF W, N
<1>3. /\ Keeps(x, FailWrite(x, I), {"input", "why", "untold", "pending", "lock"})
      /\ \A j \in Input : Waiting(FailWrite(x, I), j) => Waiting(x, j) /\ j \notin I
  BY <1>1, <1>2, FailWriteKeeps
<1>4. Core(FailWrite(x, I), N)
  BY <1>1, <1>2, FailWriteKeeps
<1>5. Quiet(x) => Quiet(FailWrite(x, I))
  BY <1>1, <1>2, FailWriteKeeps
<1> QED BY <1>3, <1>4, <1>5 DEF N

\* A request that failed, and its call.
LEMMA RequestsFail ==
  ASSUME NEW x, Good(x, {}), NEW i \in x.request, NEW z, z = [x EXCEPT !.request = @ \ {i}]
  PROVE  Good(FailWrite(z, {i}), {}) /\ Keeps(x, FailWrite(z, {i}), {"request", "input", "why", "untold", "pending", "lock"})
<1> DEFINE I == {i}
           y == FailWrite(z, I)
           W == Calls(I)
           C == {"held", "front", "pending", "given", "request", "lock"} \union Loose
<1>0. /\ Core(x, {}) /\ IsSession(x) /\ HeldTyped(x) /\ ProcTyped(x) /\ LockKept(x, {}) /\ ClosedRests(x) /\ Asked(x) /\ NoneLost(x, {})
      /\ TurnShape(x) /\ Limited(x) /\ Quiet(x)
  BY DEF Good, Base, Core
<1>1. Keeps(x, z, {"request"}) /\ z.request = x.request \ {i}
  BY <1>0 DEF Keeps, IsSession, Fields
<1>2. I \subseteq Known(x) /\ I \subseteq Input
  BY <1>0 DEF HeldTyped, Known
<1>3. W \subseteq Sends(I) /\ (\A w \in W : w.kind = "write" /\ w.input \in I) /\ Writes(W, i)
  BY CallsTyped
<1> HIDE DEF I, W
<1>4. HandTyped(x, W)
  BY <1>2, <1>3, EntriesGrow DEF HandTyped
<1>5. /\ z.input = x.input /\ z.held = x.held /\ z.front = x.front /\ z.given = x.given /\ z.pending = x.pending
      /\ z.waiting = x.waiting /\ z.closing = x.closing /\ z.outbox = x.outbox /\ z.proc = x.proc /\ z.lock = x.lock
      /\ z.status = x.status /\ z.timers = x.timers /\ z.grace = x.grace /\ z.turn = x.turn
  BY <1>1 DEF Keeps, Fields
<1>6. HeldTyped(z)
  BY <1>0, <1>1, <1>5 DEF HeldTyped, Known
<1>7. z.request # {} => z.proc = "up"
  BY <1>0, <1>1, <1>5 DEF ProcTyped
<1>8. Entries(z, W) = Entries(x, {}) \union W
  BY <1>5 DEF Entries
<1>9. LockKept(z, W)
  BY <1>0, <1>1, <1>3, <1>5, <1>8 DEF LockKept, Writes, Unlocks
<1>10. ClosedRests(z)
  BY <1>0, <1>1, <1>5 DEF ClosedRests, Waiting
<1>11. Keeps(x, z, C)
  BY <1>1 DEF Keeps
<1> HIDE DEF C
<1>12. /\ Core(z, W) /\ Known(z) = Known(x) /\ (\A j : Waiting(z, j) <=> Waiting(x, j))
       /\ TurnShape(z) /\ Limited(z) /\ Quiet(z)
  BY <1>0, <1>4, <1>6, <1>7, <1>9, <1>10, <1>11, PlacesKeep DEF C
<1>13. Core(z, Calls(I))
  BY <1>12 DEF W
<1> HIDE DEF y
<1>14. /\ Keeps(z, y, {"input", "why", "untold", "pending", "lock"})
       /\ \A j \in Input : Waiting(y, j) => Waiting(z, j) /\ j \notin I
  BY <1>2, <1>13, CallsFail DEF y
<1>20. Core(y, {})
  BY <1>2, <1>13, CallsFail DEF y
<1>15. Core(y, {}) /\ TurnShape(y) /\ Limited(y) /\ Quiet(y)
  <2> HIDE DEF y
  <2>1. (TurnShape(z) => TurnShape(y)) /\ (Limited(z) => Limited(y)) /\ (Quiet(z) => Quiet(y))
    BY <1>14, FrameShape
  <2> QED BY <1>12, <1>20, <2>1
<1>16. /\ y.held = z.held /\ y.front = z.front /\ y.given = z.given /\ y.request = z.request /\ y.turn = z.turn
       /\ y.waiting = z.waiting /\ y.closing = z.closing /\ y.outbox = z.outbox
  BY <1>14 DEF Keeps, Fields
<1>17. Asked(y)
  BY <1>0, <1>1, <1>5, <1>12, <1>14, <1>16 DEF Asked, I
<1>18. NoneLost(y, {})
  <2>1. Entries(y, {}) = Entries(x, {})
    BY <1>5, <1>16 DEF Entries
  <2> QED BY <1>0, <1>1, <1>5, <1>12, <1>14, <1>16, <2>1 DEF NoneLost, Placed, I
<1>19. Keeps(x, y, {"request", "input", "why", "untold", "pending", "lock"})
  BY <1>1, <1>14 DEF Keeps
<1> QED BY <1>15, <1>17, <1>18, <1>19 DEF Good, Base, y, I

-----------------------------------------------------------------------------
(* The actions: the host's calls. *)

LEMMA SessionIs ==
  ASSUME SessionInv
  PROVE  /\ IsSession(session) /\ Base(session, {}) /\ TurnShape(session) /\ Limited(session) /\ Quiet(session)
         /\ InputsTyped(session) /\ SubsTyped(session) /\ TurnTyped(session) /\ HeldTyped(session) /\ QueuesTyped(session)
         /\ ProcTyped(session) /\ LockKept(session, {}) /\ ClosedRests(session)
         /\ session.outbox = <<>> /\ (~SlowClose => session.closing = <<>>)
BY DEF SessionInv, After, Good, Base, Core

LEMMA SetupIs ==
  ASSUME SessionInv
  PROVE  Delivery \subseteq Deliveries /\ Has \subseteq User \union Native \union Delegated
BY ActiveSessionAssumption DEF SessionInv, Delivery, Deliveries, Has

\* What may change of the session in a step that leaves its queues alone.
LEMMA StaysAfter ==
  ASSUME SessionInv, NEW y, NEW C, Keeps(session, y, C), {"outbox", "closing"} \intersect C = {}, Good(y, {})
  PROVE  After(y)
<1>1. y.outbox = session.outbox /\ y.closing = session.closing
  BY DEF Keeps, Fields
<1> QED BY <1>1, SessionIs DEF After

\* The lock may change hands if somebody answers its new holder.
LEMMA LockMoves ==
  ASSUME NEW y, NEW z, After(y), y.status = "open", Keeps(y, z, {"lock"}), LockKept(z, {})
  PROVE  After(z)
<1> DEFINE N == {}
<1>1. /\ IsSession(y) /\ Base(y, N) /\ TurnShape(y) /\ Limited(y) /\ Quiet(y) /\ SubsTyped(y) /\ HandTyped(y, N)
      /\ y.outbox = <<>> /\ (~SlowClose => y.closing = <<>>)
  BY DEF After, Good, Base, Core
<1>2. LockKept(z, N) /\ N \subseteq N
  OBVIOUS
<1> HIDE DEF N
<1>3. SubsTyped(z)
  BY <1>1, FrameTyped
<1>4. Keeps(y, z, {"sub", "roster", "lock"} \union Loose)
  BY DEF Keeps
<1>5. Base(z, N)
  BY <1>1, <1>2, <1>3, <1>4, SubsKeep
<1>6. TurnShape(z) /\ Limited(z) /\ Quiet(z)
  BY <1>1, FrameShape
<1>7. z.outbox = y.outbox /\ z.closing = y.closing
  BY DEF Keeps, Fields
<1> QED BY <1>1, <1>5, <1>6, <1>7 DEF After, Good, N

\* The call waits for its write.
LEMMA LockTaken ==
  ASSUME NEW y, After(y), y.status = "open", NEW i \in Input,
         NEW z, z = [y EXCEPT !.lock = IF i \in InFlight(y) THEN i ELSE @]
  PROVE  After(z)
<1>0. /\ IsSession(y) /\ Base(y, {}) /\ TurnShape(y) /\ Limited(y) /\ Quiet(y) /\ SubsTyped(y) /\ LockKept(y, {}) /\ HandTyped(y, {})
      /\ y.outbox = <<>> /\ (~SlowClose => y.closing = <<>>)
  BY DEF After, Good, Base, Core
<1>1. Keeps(y, z, {"lock"}) /\ z.lock = IF i \in InFlight(y) THEN i ELSE y.lock
  BY <1>0 DEF Keeps, IsSession, Fields
<1>2. z.request = y.request /\ z.waiting = y.waiting /\ z.closing = y.closing /\ z.outbox = y.outbox
  BY <1>1 DEF Keeps, Fields
<1>3. LockKept(z, {})
  <2>1. Entries(z, {}) = Entries(y, {})
    BY <1>2 DEF Entries
  <2>2. CASE i \in InFlight(y)
    <3>1. i \in y.request \/ Writes(ToSet(y.waiting), i)
      BY <2>2 DEF InFlight, Writes
    <3>2. i \in y.request \/ Writes(Entries(y, {}), i)
      BY <3>1 DEF Writes, Entries
    <3>3. i # "call" /\ z.lock = i
      BY <1>1, <2>2, ToldApart
    <3> QED BY <1>2, <2>1, <3>2, <3>3 DEF LockKept
  <2>3. CASE i \notin InFlight(y)
    BY <1>0, <1>1, <1>2, <2>1, <2>3 DEF LockKept
  <2> QED BY <2>2, <2>3
<1> QED BY <1>1, <1>3, LockMoves

LEMMA SendInputKeeps ==
  ASSUME SessionInv, NEW i \in User, NEW d \in Delivery, SendInput(i, d)
  PROVE  After(session')
<1> DEFINE a == Accept(session, i, d, session.untold)
           t == [a EXCEPT !.untold = {}]
           u == Deliver(t, i, d)
           y == Finish(u)
           G == {} \union {Bearer(<<i>>)}
<1>1. session.status = "open" /\ session.input[i] = "none" /\ session' = [y EXCEPT !.lock = IF i \in InFlight(y) THEN i ELSE @]
  BY DEF SendInput, Callable
<1>2. i \in Input /\ d \in Deliveries /\ Good(session, {}) /\ (~SlowClose => session.closing = <<>>)
  BY SetupIs DEF Input, SessionInv, After
<1>3. Good(a, G) /\ i \in Known(a) /\ Keeps(session, a, {"input", "delivery", "tells"})
  BY <1>1, <1>2, AcceptKeeps
<1> HIDE DEF a, G
<1>4. Keeps(a, t, {"untold"})
  BY <1>3 DEF Keeps, IsSession, Fields
<1> HIDE DEF t
<1>5. Keeps(a, t, Loose) /\ t.status = "open" /\ t.closing = session.closing
  BY <1>1, <1>3, <1>4 DEF Keeps, Fields, Loose
<1>6. Good(t, G) /\ i \in Known(t)
  BY <1>3, <1>5, LooseKeeps DEF Good
<1>7. Good(u, {}) /\ Keeps(t, u, Delivered)
  BY <1>2, <1>5, <1>6, DeliverKeeps DEF G
<1> HIDE DEF u
<1>8. u.status = "open" /\ u.closing = session.closing
  BY <1>5, <1>7 DEF Keeps, Fields, Delivered
<1>9. After(y) /\ y.status = "open"
  BY <1>2, <1>7, <1>8, FinishKeeps DEF After
<1> HIDE DEF y
<1> QED BY <1>1, <1>2, <1>9, LockTaken

LEMMA InterruptTurnKeeps ==
  ASSUME SessionInv, InterruptTurn
  PROVE  After(session')
<1> DEFINE y == [session EXCEPT !.grace = [turn |-> session.turn.id, then |-> "stop"]]
<1>1. session' = y /\ session.status = "open" /\ TurnOpen(session)
  BY DEF InterruptTurn, Callable, ArmInterruptGrace
<1>2. /\ IsSession(session) /\ Base(session, {}) /\ TurnShape(session) /\ Limited(session) /\ Quiet(session)
      /\ TurnTyped(session) /\ HeldTyped(session)
  BY SessionIs
<1>3. Keeps(session, y, {"grace"}) /\ y.grace = [turn |-> session.turn.id, then |-> "stop"]
  BY <1>2 DEF Keeps, IsSession, Fields
<1> HIDE DEF y
<1>4. /\ y.timers = session.timers /\ y.phase = session.phase /\ y.settled = session.settled /\ y.pending = session.pending
      /\ y.input = session.input
  BY <1>3 DEF Keeps, Fields
<1>5. Keeps(session, y, Policy) /\ Known(y) = Known(session)
  BY <1>3, <1>4 DEF Keeps, Policy, Known
<1>6. PolicyTyped(y)
  BY <1>1, <1>2, <1>3, <1>4, <1>5 DEF PolicyTyped, TurnTyped, HeldTyped, TurnShape
<1>7. Base(y, {})
  BY <1>1, <1>2, <1>5, <1>6, PolicyKeeps
<1>8. TurnShape(y) /\ Limited(y) /\ Quiet(y)
  BY <1>2, <1>3, FrameShape
<1>9. After(y)
  BY <1>3, <1>7, <1>8, StaysAfter DEF Good
<1> QED BY <1>1, <1>9

\* A call that retires the process: it takes the lock until the retirement returns.
LEMMA CallRetires ==
  ASSUME SessionInv, session.status = "open", NEW y, Keeps(session, y, {"lock", "evict"}), y.lock = "call", NEW why \in Reasons
  PROVE  After(Finish(Retire(y, Retirement(why, "return"))))
<1> DEFINE r == Retirement(why, "return")
           G == {} \union {r}
<1>1. /\ IsSession(session) /\ Base(session, {}) /\ TurnShape(session) /\ Quiet(session) /\ SubsTyped(session)
  BY SessionIs
<1>2. Keeps(session, y, {"sub", "lock"} \union Loose)
  BY DEF Keeps, Loose
<1>3. SubsTyped(y)
  BY <1>1, FrameTyped
<1>4. r \in Ends(Known(session)) /\ r.then = "return" /\ r.carry = <<>>
  BY RetirementTyped
<1> HIDE DEF r
<1>5. Base(y, G) /\ y.status = "open" /\ Known(y) = Known(session)
  BY <1>1, <1>2, <1>3, <1>4, CallTakes
<1>6. TurnShape(y)
  BY <1>1, <1>2, <1>3, <1>4, CallTakes
<1>7. Quiet(y)
  BY <1>1, FrameShape
<1>8. Good(Retire(y, r), {})
  BY <1>4, <1>5, <1>6, <1>7, RetireKeeps
<1> QED BY <1>8, FinishAfter DEF r

LEMMA StopSubagentsKeeps ==
  ASSUME SessionInv, StopSubagents
  PROVE  After(session')
<1>0. session.status = "open" /\ IsSession(session) /\ Base(session, {}) /\ TurnShape(session) /\ Limited(session) /\ SubsTyped(session)
      /\ LockKept(session, {}) /\ HandTyped(session, {})
  BY SessionIs DEF StopSubagents, Callable, HandTyped
<1>1. CASE Driver = "claude"
  <2> DEFINE y == [session EXCEPT !.lock = "call"]
  <2>1. session' = Finish(Retire(y, Retirement("host_request", "return")))
    BY <1>1 DEF StopSubagents
  <2>2. Keeps(session, y, {"lock", "evict"}) /\ y.lock = "call"
    BY <1>0 DEF Keeps, IsSession, Fields
  <2> HIDE DEF y
  <2>3. "host_request" \in Reasons
    BY DEF Reasons
  <2> QED BY <1>0, <2>1, <2>2, <2>3, CallRetires
<1>2. CASE Driver # "claude"
  <2>1. PICK N \in SUBSET Running(session, Native) :
          session' = AfterSubagentChange(
            [session EXCEPT !.sub = [n \in DOMAIN session.sub |-> IF n \in N THEN "stopped" ELSE session.sub[n]],
                            !.untold = session.untold \union N])
    BY <1>2 DEF StopSubagents
  <2> DEFINE y == [session EXCEPT !.sub = [n \in DOMAIN session.sub |-> IF n \in N THEN "stopped" ELSE session.sub[n]],
                                  !.untold = session.untold \union N]
             z == AfterSubagentChange(y)
  <2>2. Keeps(session, y, {"sub", "untold"}) /\ y.sub = [n \in DOMAIN session.sub |-> IF n \in N THEN "stopped" ELSE session.sub[n]]
    BY <1>0 DEF Keeps, IsSession, Fields
  <2> HIDE DEF y
  <2>3. y.roster = session.roster
    BY <2>2 DEF Keeps, Fields
  <2>4. SubsTyped(y)
    BY <1>0, <2>2, <2>3 DEF SubsTyped, Subs
  <2>5. LockKept(y, {})
    BY <1>0, <2>2, FrameLock
  <2>6. Keeps(session, y, {"sub", "roster", "lock"} \union Loose)
    BY <2>2 DEF Keeps, Loose
  <2>7. Base(y, {}) /\ y.status = "open" /\ TurnShape(y) /\ Limited(y)
    BY <1>0, <2>4, <2>5, <2>6, SubsKeep
  <2>8. Good(z, {}) /\ Keeps(y, z, {"timers", "phase", "settled"})
    BY <2>7, AfterSubagentChangeKeeps
  <2>9. session' = z
    BY <2>1 DEF y
  <2> HIDE DEF z
  <2>10. Keeps(session, z, {"sub", "untold", "timers", "phase", "settled"})
    BY <2>2, <2>8 DEF Keeps
  <2>11. After(z)
    BY <2>8, <2>10, StaysAfter
  <2> QED BY <2>9, <2>11
<1> QED BY <1>1, <1>2

\* A change of what the session says nothing about.
LEMMA LooseAfter ==
  ASSUME SessionInv, NEW y, Keeps(session, y, Loose)
  PROVE  After(y)
<1>1. Base(session, {}) /\ TurnShape(session) /\ Limited(session) /\ Quiet(session)
  BY SessionIs
<1>2. Good(y, {})
  BY <1>1, LooseKeeps DEF Good
<1> QED BY <1>2, StaysAfter DEF Loose

LEMMA UpdateKeeps ==
  ASSUME SessionInv, NEW c, Update(c)
  PROVE  After(session')
<1>0. session.status = "open" /\ IsSession(session) /\ Base(session, {}) /\ TurnShape(session) /\ Quiet(session) /\ SubsTyped(session)
  BY SessionIs DEF Update, Callable
<1>1. CASE IsBusy(session)
  <2> DEFINE y == [session EXCEPT !.deferred = c]
  <2>1. session' = y
    BY <1>1 DEF Update
  <2>2. Keeps(session, y, Loose)
    BY <1>0 DEF Keeps, IsSession, Fields, Loose
  <2> HIDE DEF y
  <2> QED BY <2>1, <2>2, LooseAfter
<1>2. CASE ~IsBusy(session)
  <2> DEFINE y == [session EXCEPT !.lock = "call"]
             r == Retirement("config_change", "return")
             G == {} \union {r}
  <2>1. session' = Finish(ApplyChanges(y, c, "return"))
    BY <1>2 DEF Update
  <2>2. Keeps(session, y, {"lock"}) /\ y.lock = "call"
    BY <1>0 DEF Keeps, IsSession, Fields
  <2> HIDE DEF y
  <2>3. Keeps(session, y, {"sub", "lock"} \union Loose)
    BY <2>2 DEF Keeps
  <2>9. SubsTyped(y)
    BY <1>0, <2>2, FrameTyped
  <2>4. r \in Ends(Known(session)) /\ r.then = "return"
    BY RetirementTyped DEF Reasons
  <2> HIDE DEF r
  <2>5. Base(y, G) /\ y.status = "open"
    BY <1>0, <2>2, <2>3, <2>4, <2>9, CallTakes
  <2>6. TurnShape(y) /\ Quiet(y)
    BY <1>0, <2>2, FrameShape
  <2>7. Good(ApplyChanges(y, c, "return"), {})
    BY <2>5, <2>6, ApplyChangesKeeps DEF r
  <2> QED BY <2>1, <2>7, FinishAfter
<1> QED BY <1>1, <1>2

LEMMA CloseSessionKeeps ==
  ASSUME SessionInv, CloseSession
  PROVE  After(session')
<1> DEFINE cut == Running(session, Delegated)
           y == [session EXCEPT !.sub = [n \in DOMAIN @ |-> IF n \in cut THEN "stopped" ELSE @[n]],
                                !.untold = @ \union cut, !.results = @ \union cut, !.lock = "call"]
           r == Retirement("host_request", "close")
           G == {} \union {r}
           z == IF cut = {} THEN y ELSE AfterSubagentChange(y)
<1>0. session.status = "open" /\ IsSession(session) /\ Base(session, {}) /\ TurnShape(session) /\ Limited(session) /\ Quiet(session)
      /\ SubsTyped(session)
  BY SessionIs DEF CloseSession, Callable
<1>1. session' = Finish(Retire(z, r))
  BY DEF CloseSession
<1>2. /\ Keeps(session, y, {"sub", "untold", "results", "lock"}) /\ y.lock = "call"
      /\ y.sub = [n \in DOMAIN session.sub |-> IF n \in cut THEN "stopped" ELSE session.sub[n]]
  BY <1>0 DEF Keeps, IsSession, Fields
<1> HIDE DEF y
<1>3. y.roster = session.roster /\ Keeps(session, y, {"sub", "lock"} \union Loose)
  BY <1>2 DEF Keeps, Fields, Loose
<1>4. SubsTyped(y)
  BY <1>0, <1>2, <1>3 DEF SubsTyped, Subs
<1>5. r \in Ends(Known(session)) /\ r.then = "close" /\ r.carry = <<>> /\ r \in Ends(Known(z))
  BY RetirementTyped DEF Reasons
<1> HIDE DEF r
<1>6. Base(y, G) /\ y.status = "open"
  BY <1>0, <1>2, <1>3, <1>4, <1>5, CallTakes
<1>7. TurnShape(y) /\ Limited(y)
  BY <1>0, <1>2, <1>3, <1>4, <1>5, CallTakes
<1> HIDE DEF G
<1>8. Base(z, G) /\ TurnShape(z) /\ Quiet(z) /\ z.status = "open"
  <2>1. CASE cut = {}
    <3>1. y.sub = session.sub
      BY <1>0, <1>2, <2>1 DEF SubsTyped
    <3>2. Quiet(y)
      <4>1. y.settled = session.settled /\ y.roster = session.roster
        BY <1>2 DEF Keeps, Fields
      <4> QED BY <1>0, <3>1, <4>1 DEF Quiet, Live, Running
    <3> QED BY <1>6, <1>7, <2>1, <3>2
  <2>2. CASE cut # {}
    <3> DEFINE v == AfterSubagentChange(y)
    <3>1. Good(v, G) /\ Keeps(y, v, {"timers", "phase", "settled"}) /\ z = v
      BY <1>6, <1>7, <2>2, AfterSubagentChangeKeeps
    <3> HIDE DEF v, z
    <3>2. v.status = "open"
      BY <1>6, <3>1 DEF Keeps, Fields
    <3> QED BY <3>1, <3>2 DEF Good
  <2> QED BY <2>1, <2>2
<1> HIDE DEF z
<1>9. Good(Retire(z, r), {})
  BY <1>5, <1>8, RetireKeeps DEF G
<1> QED BY <1>1, <1>9, FinishAfter

LEMMA ChooseVictimKeeps ==
  ASSUME SessionInv, ChooseVictim
  PROVE  After(session')
<1> DEFINE y == [session EXCEPT !.evict = TRUE]
<1>1. session' = y /\ IsSession(session)
  BY SessionIs DEF ChooseVictim
<1>2. Keeps(session, y, Loose)
  BY <1>1 DEF Keeps, IsSession, Fields, Loose
<1> HIDE DEF y
<1> QED BY <1>1, <1>2, LooseAfter

LEMMA EvictKeeps ==
  ASSUME SessionInv, Evict
  PROVE  After(session')
<1> DEFINE y == [session EXCEPT !.evict = FALSE, !.lock = "call"]
<1>1. session' = Finish(Retire(y, Retirement("evicted", "return"))) /\ session.status = "open" /\ IsSession(session)
  BY SessionIs DEF Evict
<1>2. Keeps(session, y, {"lock", "evict"}) /\ y.lock = "call"
  BY <1>1 DEF Keeps, IsSession, Fields
<1> HIDE DEF y
<1>3. "evicted" \in Reasons
  BY DEF Reasons
<1> QED BY <1>1, <1>2, <1>3, CallRetires

\* A retirement nobody waits for.
LEMMA QuietlyRetires ==
  ASSUME SessionInv, session.status = "open", NEW y, Keeps(session, y, Loose), NEW why \in Reasons
  PROVE  After(Finish(Retire(y, Retirement(why, "none"))))
<1> DEFINE r == Retirement(why, "none")
<1>1. Base(session, {}) /\ TurnShape(session) /\ Quiet(session)
  BY SessionIs
<1>2. Base(y, {}) /\ TurnShape(y) /\ Quiet(y)
  BY <1>1, LooseKeeps
<1>3. y.status = "open"
  BY DEF Keeps, Fields, Loose
<1>4. r \in Ends(Known(y)) /\ r.carry = <<>>
  BY RetirementTyped
<1> HIDE DEF r
<1>5. Base(y, {} \union {r})
  BY <1>2, <1>4, Retires
<1>6. Good(Retire(y, r), {})
  BY <1>2, <1>3, <1>4, <1>5, RetireKeeps
<1> QED BY <1>6, FinishAfter DEF r

LEMMA ShutdownKeeps ==
  ASSUME SessionInv, Shutdown
  PROVE  After(session')
<1> DEFINE y == [session EXCEPT !.down = TRUE]
<1>1. session' = Finish(Retire(y, Retirement("shutdown", "none"))) /\ session.status = "open" /\ IsSession(session)
  BY SessionIs DEF Shutdown
<1>2. Keeps(session, y, Loose)
  BY <1>1 DEF Keeps, IsSession, Fields, Loose
<1> HIDE DEF y
<1>3. "shutdown" \in Reasons
  BY DEF Reasons
<1> QED BY <1>1, <1>2, <1>3, QuietlyRetires

LEMMA CollectKeeps ==
  ASSUME SessionInv, NEW n, CollectDelegated(n)
  PROVE  After(session')
<1> DEFINE y == [session EXCEPT !.results = @ \ {n}]
<1>1. session' = y /\ IsSession(session)
  BY SessionIs DEF CollectDelegated
<1>2. Keeps(session, y, Loose)
  BY <1>1 DEF Keeps, IsSession, Fields, Loose
<1> HIDE DEF y
<1> QED BY <1>1, <1>2, LooseAfter

-----------------------------------------------------------------------------
(* Sub-agents. *)

\* A sub-agent or the roster changed.
LEMMA SubagentsChange ==
  ASSUME SessionInv, session.status = "open", NEW x, Good(x, {}), Keeps(session, x, {"timers"}), NEW y, SubsTyped(y),
         Keeps(x, y, {"sub", "roster"} \union Loose)
  PROVE  After(Finish(AfterSubagentChange(y)))
<1>1. Base(x, {}) /\ LockKept(x, {}) /\ HandTyped(x, {}) /\ TurnShape(x) /\ Limited(x)
  BY DEF Good, Base, Core
<1>2. x.status = "open"
  BY DEF Keeps, Fields
<1>3. LockKept(y, {})
  BY <1>1, FrameLock DEF Loose
<1>4. Keeps(x, y, {"sub", "roster", "lock"} \union Loose)
  BY DEF Keeps
<1>5. Base(y, {}) /\ y.status = "open" /\ TurnShape(y) /\ Limited(y)
  BY <1>1, <1>2, <1>3, <1>4, SubsKeep
<1>6. Good(AfterSubagentChange(y), {})
  BY <1>5, AfterSubagentChangeKeeps
<1> QED BY <1>6, FinishAfter

LEMMA DelegatedStartedKeeps ==
  ASSUME SessionInv, NEW n \in Delegated, DelegatedStarted(n)
  PROVE  After(session')
<1> DEFINE y == [session EXCEPT !.sub[n] = "running"]
<1>1. session' = Finish(AfterSubagentChange(y)) /\ session.status = "open"
  BY DEF DelegatedStarted, Callable
<1>2. IsSession(session) /\ SubsTyped(session) /\ Good(session, {})
  BY SessionIs DEF SessionInv, After
<1>3. Keeps(session, y, {"sub"}) /\ y.sub = [session.sub EXCEPT ![n] = "running"]
  BY <1>2 DEF Keeps, IsSession, Fields
<1> HIDE DEF y
<1>4. y.roster = session.roster /\ Keeps(session, y, {"sub", "roster"} \union Loose) /\ Keeps(session, session, {"timers"})
  BY <1>2, <1>3 DEF Keeps, Fields
<1>5. SubsTyped(y)
  BY <1>2, <1>3, <1>4 DEF SubsTyped, Subs
<1> QED BY <1>1, <1>2, <1>4, <1>5, SubagentsChange

LEMMA DelegatedFinishedKeeps ==
  ASSUME SessionInv, NEW n \in Delegated, NEW state \in {"idle", "failed", "stopped"}, NEW collected, DelegatedFinished(n, state, collected)
  PROVE  After(session')
<1> DEFINE told == IF state = "stopped" THEN session.untold \union {n} ELSE session.untold
           left == IF collected THEN session.results ELSE session.results \union {n}
           y == [session EXCEPT !.sub[n] = state, !.untold = told, !.results = left]
<1>1. session' = Finish(AfterSubagentChange(y)) /\ session.status = "open"
  BY DEF DelegatedFinished
<1>2. IsSession(session) /\ SubsTyped(session) /\ Good(session, {})
  BY SessionIs DEF SessionInv, After
<1> HIDE DEF told, left
<1>3. Keeps(session, y, {"sub", "untold", "results"}) /\ y.sub = [session.sub EXCEPT ![n] = state]
  BY <1>2 DEF Keeps, IsSession, Fields
<1> HIDE DEF y
<1>4. y.roster = session.roster /\ Keeps(session, y, {"sub", "roster"} \union Loose) /\ Keeps(session, session, {"timers"})
  BY <1>2, <1>3 DEF Keeps, Fields, Loose
<1>5. SubsTyped(y)
  BY <1>2, <1>3, <1>4 DEF SubsTyped, Subs
<1> QED BY <1>1, <1>2, <1>4, <1>5, SubagentsChange

-----------------------------------------------------------------------------
(* Driver events. *)

\* The end of an open takes the entries that waited for it in hand.
LEMMA WaitingTaken ==
  ASSUME SessionInv, session.proc = "opening", NEW p \in {"up", "none"},
         NEW y, y = [session EXCEPT !.proc = p, !.waiting = <<>>]
  PROVE  /\ Good(y, {} \union ToSet(session.waiting)) /\ y.proc = p /\ Ended(y) /\ y.outbox = <<>>
         /\ session.waiting \in Seq(Sends(Known(y)) \union Ends(Known(y)))
         /\ ToSet(session.waiting) \subseteq Sends(Known(y)) \union Plain(Known(y))
         /\ y.status = "closed" => \A w \in ToSet(session.waiting) : w.kind = "write" /\ ~Waiting(y, w.input)
<1> DEFINE Q == {} \union ToSet(session.waiting)
<1>0. /\ IsSession(session) /\ InputsTyped(session) /\ SubsTyped(session) /\ TurnTyped(session) /\ HeldTyped(session)
      /\ QueuesTyped(session) /\ ProcTyped(session) /\ LockKept(session, {}) /\ ClosedRests(session) /\ Asked(session)
      /\ NoneLost(session, {}) /\ TurnShape(session) /\ Quiet(session) /\ session.outbox = <<>>
  BY SessionIs DEF Base
<1>1. Keeps(session, y, {"proc", "waiting"}) /\ y.proc = p /\ y.waiting = <<>>
  BY <1>0 DEF Keeps, IsSession, Fields
<1>2. /\ y.input = session.input /\ y.closing = session.closing /\ y.outbox = session.outbox /\ y.status = session.status
      /\ y.request = session.request /\ y.lock = session.lock /\ y.timers = session.timers /\ y.grace = session.grace
      /\ y.held = session.held /\ y.front = session.front /\ y.given = session.given /\ y.turn = session.turn
      /\ y.phase = session.phase
  BY <1>1 DEF Keeps, Fields
<1>3. Known(y) = Known(session) /\ \A i : Waiting(y, i) <=> Waiting(session, i)
  BY <1>2 DEF Known, Waiting
<1>4. session.closing = <<>> /\ session.request = {} /\ ~TurnOpen(session)
  BY <1>0 DEF ProcTyped, TurnShape
<1>5. ToSet(session.waiting) \subseteq Sends(Known(y)) \union Plain(Known(y)) /\ session.waiting \in Seq(Sends(Known(y)) \union Ends(Known(y)))
  <2> DEFINE S == Sends(Known(y)) \union Plain(Known(y))
             T == Sends(Known(y)) \union Ends(Known(y))
  <2>1. S \subseteq T
    BY DEF Plain
  <2>2. session.waiting \in Seq(S)
    BY <1>0, <1>3 DEF QueuesTyped
  <2> HIDE DEF S, T
  <2>3. ToSet(session.waiting) \subseteq S
    BY <2>2, SetOf
  <2>4. session.waiting \in Seq(T)
    BY <2>1, <2>2, <2>3, SetOf
  <2> QED BY <2>3, <2>4 DEF S, T
<1>6. Entries(y, Q) = Entries(session, {})
  BY <1>1, <1>2, SetOfNone DEF Entries
<1>7. HandTyped(y, Q)
  BY <1>5 DEF HandTyped, Plain
<1> HIDE DEF Q
<1>8. IsSession(y) /\ InputsTyped(y) /\ SubsTyped(y)
  BY <1>0, <1>1, FrameTyped
<1>9. TurnTyped(y) /\ HeldTyped(y)
  BY <1>0, <1>1, <1>3, FrameTurn, FrameHeld
<1>10. QueuesTyped(y)
  <2> DEFINE S == Sends(Known(y)) \union Plain(Known(y))
             T == Sends(Known(y))
             E == Ends(Known(y))
  <2>1. y.outbox \in Seq(T) /\ y.closing \in Seq(E)
    BY <1>0, <1>2, <1>3 DEF QueuesTyped
  <2>2. y.waiting \in Seq(S)
    <3> HIDE DEF S
    <3> QED BY <1>1
  <2> QED BY <2>1, <2>2 DEF QueuesTyped
<1>11. ProcTyped(y)
  BY <1>0, <1>1, <1>2, <1>4 DEF ProcTyped
<1>12. LockKept(y, Q)
  BY <1>0, <1>2, <1>6 DEF LockKept
<1>13. ClosedRests(y)
  BY <1>0, <1>1, <1>2, <1>3, SetOfNone DEF ClosedRests
<1>14. Asked(y)
  BY <1>0, <1>1, <1>3, FrameAsked
<1>15. NoneLost(y, Q)
  BY <1>0, <1>2, <1>3, <1>6 DEF NoneLost, Placed
<1>16. TurnShape(y) /\ Limited(y)
  BY <1>0, <1>2, <1>4 DEF TurnShape, Limited, TurnOpen
<1>17. Quiet(y)
  BY <1>0, <1>1, FrameShape
<1>18. Good(y, Q)
  BY <1>7, <1>8, <1>9, <1>10, <1>11, <1>12, <1>13, <1>14, <1>15, <1>16, <1>17 DEF Good, Base, Core
<1>19. Ended(y)
  BY <1>1, <1>2, <1>4 DEF Ended, TurnOpen
<1>20. y.status = "closed" => \A w \in ToSet(session.waiting) : w.kind = "write" /\ ~Waiting(y, w.input)
  BY <1>0, <1>2, <1>3 DEF ClosedRests
<1> QED BY <1>0, <1>1, <1>2, <1>5, <1>18, <1>19, <1>20 DEF Q

LEMMA OpenedKeeps ==
  ASSUME SessionInv, Opened
  PROVE  After(session')
<1> DEFINE y == [session EXCEPT !.proc = "up", !.waiting = <<>>]
           z == Drain(y, "go", session.waiting)
<1>1. session' = Finish(z) /\ session.proc = "opening"
  BY DEF Opened
<1>2. Good(y, {} \union ToSet(session.waiting)) /\ y.proc = "up"
  BY <1>1, WaitingTaken
<1>3. session.waiting \in Seq(Sends(Known(y)) \union Ends(Known(y)))
  BY <1>1, WaitingTaken
<1>4. y.status = "closed" => \A w \in ToSet(session.waiting) : w.kind = "write" /\ ~Waiting(y, w.input)
  BY <1>1, WaitingTaken
<1> HIDE DEF y
<1>5. Good(z, {})
  BY <1>2, <1>3, <1>4, DrainGoes
<1> HIDE DEF z
<1> QED BY <1>1, <1>5, FinishAfter

\* What an exit of the process that opens leaves to those who wait for it.
LEMMA OpeningEnds ==
  ASSUME NEW y, NEW Q, Good(y, {} \union Q), Ended(y), y.outbox = <<>>,
         NEW z, z = EndRunningWork(CancelAll(y), Retirement("crashed", "none"))
  PROVE  Good(z, {} \union Q) /\ Ended(z) /\ Rests(z, Q) /\ Known(z) = Known(y)
<1> DEFINE c == CancelAll(y)
           r == Retirement("crashed", "none")
<1>1. Base(y, {} \union Q) /\ Quiet(y)
  BY DEF Good
<1>2. /\ Keeps(y, c, {"timers", "grace"}) /\ Base(c, {} \union Q) /\ Known(c) = Known(y) /\ Quiet(c)
  BY <1>1, CancelAllKeeps
<1>3. r.carry = <<>>
  BY RetirementTyped DEF Reasons
<1>4. z = EndRunningWork(c, r)
  OBVIOUS
<1> HIDE DEF c, r
<1>5. WorkEnded(c, z, r) /\ Core(z, {} \union Q) /\ Quiet(z)
  BY <1>2, <1>4, EndRunningWorkKeeps DEF Base
<1>6. \A i \in Input : ~Waiting(z, i)
  BY <1>3, <1>5, SetOfNone DEF WorkEnded
<1>7. /\ z.turn = NoTurn /\ z.phase # "turn" /\ z.closing = y.closing /\ z.waiting = y.waiting /\ z.request = y.request
      /\ z.outbox = <<>> /\ Known(z) = Known(y)
  BY <1>2, <1>5 DEF WorkEnded, Keeps, Fields
<1>8. Asked(z) /\ NoneLost(z, {} \union Q)
  BY <1>6 DEF Asked, NoneLost
<1>9. TurnShape(z) /\ Limited(z)
  BY <1>7 DEF TurnShape, Limited, TurnOpen
<1>10. Ended(z) /\ Rests(z, Q)
  BY <1>6, <1>7 DEF Ended, Rests
<1> QED BY <1>5, <1>7, <1>8, <1>9, <1>10 DEF Good, Base

LEMMA OpenFailsKeeps ==
  ASSUME SessionInv, OpenFails
  PROVE  After(session')
<1> DEFINE y == [session EXCEPT !.proc = "none", !.waiting = <<>>]
           gone == EndRunningWork(CancelAll(y), Retirement("crashed", "none"))
           Q == ToSet(session.waiting)
<1>1. /\ session.proc = "opening"
      /\ \/ session' = Finish(Drain(y, "drop", session.waiting))
         \/ session' = Finish(Drain(gone, "drop", session.waiting))
  BY DEF OpenFails
<1>2. Good(y, {} \union Q) /\ Ended(y) /\ y.outbox = <<>>
  BY <1>1, WaitingTaken
<1>3. session.waiting \in Seq(Sends(Known(y)) \union Ends(Known(y)))
  BY <1>1, WaitingTaken
<1>4. Q \subseteq Sends(Known(y)) \union Plain(Known(y))
  BY <1>1, WaitingTaken
<1>5. \A i : ~Carries(Q, i)
  <2>1. ASSUME NEW r \in Q, r.kind = "retire" PROVE r.carry = <<>>
    BY <1>4, <2>1 DEF Sends, Plain
  <2> QED BY <2>1, SetOfNone DEF Carries
<1> HIDE DEF y
<1>6. Rests(y, Q)
  BY <1>2, <1>5, SetOfNone DEF Rests
<1>7. Good(gone, {} \union Q) /\ Ended(gone) /\ Rests(gone, Q) /\ Known(gone) = Known(y)
  BY <1>2, OpeningEnds
<1> HIDE DEF gone
<1>8. Good(Drain(y, "drop", session.waiting), {})
  BY <1>2, <1>3, <1>6, DrainDrops
<1>9. Good(Drain(gone, "drop", session.waiting), {})
  BY <1>3, <1>7, DrainDrops
<1> QED BY <1>1, <1>8, <1>9, FinishAfter

LEMMA CloseDoneKeeps ==
  ASSUME SessionInv, CloseDone
  PROVE  After(session')
<1>1. session' = Finish(Closed(session)) /\ session.closing # <<>>
  BY DEF CloseDone
<1>2. Good(session, {}) /\ session.outbox = <<>>
  BY DEF SessionInv, After
<1>3. Good(Closed(session), {})
  BY <1>1, <1>2, ClosedKeeps
<1> QED BY <1>1, <1>3, FinishAfter

\* The session has heard of its process.
LEMMA HeardKeeps ==
  ASSUME SessionInv, Hears
  PROVE  /\ Good(Heard, {}) /\ Keeps(session, Heard, {"timers"}) /\ Known(Heard) = Known(session)
         /\ Heard.status = "open" /\ Heard.proc \in {"up", "closing"} /\ Heard.turn = session.turn
         /\ Heard.request = session.request /\ Heard.given = session.given /\ Heard.sub = session.sub
         /\ Heard.outbox = <<>> /\ Heard.closing = session.closing /\ Heard.roster = session.roster
         /\ Heard.input = session.input
<1>1. session.status = "open" /\ session.proc \in {"up", "closing"} /\ Good(session, {}) /\ session.outbox = <<>>
  BY DEF Hears, SessionInv, After
<1> DEFINE y == Heard
<1>2. Good(y, {}) /\ Keeps(session, y, {"timers"})
  BY <1>1, MarkActivityKeeps DEF Heard
<1> HIDE DEF y
<1>3. /\ y.status = "open" /\ y.proc \in {"up", "closing"} /\ y.turn = session.turn
      /\ y.request = session.request /\ y.given = session.given /\ y.sub = session.sub
      /\ y.outbox = <<>> /\ y.closing = session.closing /\ y.roster = session.roster /\ y.input = session.input
  BY <1>1, <1>2 DEF Keeps, Fields
<1>4. Known(y) = Known(session)
  BY <1>3 DEF Known
<1> QED BY <1>2, <1>3, <1>4 DEF y

\* A step that leaves the queues as they were.
LEMMA QueuesStay ==
  ASSUME SessionInv, NEW y, Good(y, {}), y.outbox = <<>>, y.closing = session.closing
  PROVE  After(y)
BY SessionIs DEF After

LEMMA RequestAnsweredKeeps ==
  ASSUME SessionInv, NEW i \in Input, RequestAnswered(i)
  PROVE  After(session')
<1> DEFINE x == Heard
           I == {i}
           y == StartInput(x, I)
           z == [y EXCEPT !.request = @ \ {i}]
           u == Unlock(z, {i})
<1>1. session' = u /\ Hears
  BY DEF RequestAnswered
<1>2. Good(x, {}) /\ x.outbox = <<>> /\ x.closing = session.closing
  BY <1>1, HeardKeeps
<1> HIDE DEF x
<1>3. Base(x, {}) /\ TurnShape(x) /\ Limited(x) /\ Quiet(x) /\ I \subseteq Input
  BY <1>2 DEF Good
<1> HIDE DEF I
<1>4. Base(y, {}) /\ TurnShape(y) /\ Started(x, y, I)
  BY <1>3, StartInputKeeps
<1>5. Limited(y) /\ Quiet(y)
  BY <1>3, StartInputKeeps
<1> HIDE DEF y
<1>6. ~Waiting(y, i) /\ Keeps(x, y, {"input", "turn"})
  BY <1>4 DEF Started, I
<1>7. Base(u, {}) /\ Keeps(y, u, {"request", "lock"})
  BY <1>4, <1>6, RequestDrops
<1>8. TurnShape(u) /\ Limited(u) /\ Quiet(u)
  BY <1>4, <1>5, <1>6, RequestDrops
<1> HIDE DEF u
<1>9. u.outbox = <<>> /\ u.closing = session.closing
  BY <1>2, <1>6, <1>7 DEF Keeps, Fields
<1>10. After(u)
  BY <1>7, <1>8, <1>9, QueuesStay DEF Good
<1> QED BY <1>1, <1>10

LEMMA RequestFailsKeeps ==
  ASSUME SessionInv, NEW i \in Input, RequestFails(i)
  PROVE  After(session')
<1> DEFINE z == [session EXCEPT !.request = @ \ {i}]
           u == FailWrite(z, {i})
<1>1. session' = u /\ i \in session.request /\ Good(session, {}) /\ session.outbox = <<>>
  BY DEF RequestFails, SessionInv, After
<1>2. Good(u, {}) /\ Keeps(session, u, {"request", "input", "why", "untold", "pending", "lock"})
  BY <1>1, RequestsFail
<1> HIDE DEF u
<1>3. u.outbox = <<>> /\ u.closing = session.closing
  BY <1>1, <1>2 DEF Keeps, Fields
<1> QED BY <1>1, <1>2, <1>3, QueuesStay

LEMMA TurnStartsKeeps ==
  ASSUME SessionInv, TurnStarts
  PROVE  After(session')
<1> DEFINE x == Heard
<1>1. Hears /\ Driver # "executor" /\ ~TurnOpen(session)
  BY DEF TurnStarts
<1>2. PICK k \in (IF NativeQueue THEN 1 .. Len(session.given) ELSE {Len(session.given)} \ {0}) :
        LET I == ToSet(SubSeq(session.given, 1, k))
            seen == IF NativeQueue THEN StartInput(Heard, I) ELSE Heard
        IN  session' = StartTurn([seen EXCEPT !.given = SubSeq(@, k + 1, Len(@))], I)
  BY DEF TurnStarts
<1> DEFINE I == ToSet(SubSeq(session.given, 1, k))
           rest == SubSeq(session.given, k + 1, Len(session.given))
           seen == IF NativeQueue THEN StartInput(x, I) ELSE x
           y == [seen EXCEPT !.given = rest]
           u == StartTurn(y, I)
<1>3. /\ Good(x, {}) /\ x.outbox = <<>> /\ x.closing = session.closing /\ x.given = session.given
      /\ Known(x) = Known(session) /\ x.status = "open" /\ x.proc \in {"up", "closing"}
  BY <1>1, HeardKeeps
<1>4. session.given \in Seq(Known(session)) /\ Known(session) \subseteq Input
  BY SessionIs DEF HeldTyped, Known
<1>5. k \in Nat /\ k <= Len(session.given)
  <2>1. Len(session.given) \in Nat
    BY <1>4
  <2> QED BY <1>2, <2>1
<1>6. SubSeq(session.given, 1, k) \in Seq(Known(session)) /\ rest \in Seq(Known(session))
  BY <1>4, <1>5, SetOfPart
<1>7. ToSet(session.given) = I \union ToSet(rest)
  BY <1>4, <1>5, SetOfPart
<1>8. I \subseteq Known(session)
  <2> DEFINE part == SubSeq(session.given, 1, k)
             K == Known(session)
  <2>1. part \in Seq(K)
    BY <1>6
  <2> HIDE DEF part, K
  <2>2. ToSet(part) \subseteq K
    BY <2>1, SetOf
  <2> QED BY <2>2 DEF part, K
<1>9. session' = StartTurn([seen EXCEPT !.given = SubSeq(seen.given, k + 1, Len(seen.given))], I)
  BY <1>2
<1> HIDE DEF x, I, rest
<1>10. Base(x, {}) /\ TurnShape(x) /\ Limited(x) /\ Quiet(x) /\ Asked(x) /\ I \subseteq Input
  BY <1>3, <1>4, <1>8 DEF Good, Base
<1>11. /\ Base(seen, {}) /\ TurnShape(seen) /\ Quiet(seen) /\ Keeps(x, seen, {"input", "turn"}) /\ Known(seen) = Known(x)
       /\ \A i \in I : Waiting(seen, i) => i \in x.request
  <2>1. CASE Driver = "claude"
    <3> DEFINE v == StartInput(x, I)
    <3>1. Base(v, {}) /\ TurnShape(v) /\ Started(x, v, I)
      BY <1>10, StartInputKeeps
    <3>2. Quiet(v)
      BY <1>10, StartInputKeeps
    <3>3. seen = v
      BY <2>1 DEF NativeQueue
    <3> HIDE DEF v, seen
    <3> QED BY <1>10, <3>1, <3>2, <3>3 DEF Started
  <2>2. CASE Driver # "claude"
    <3>1. seen = x
      BY <2>2 DEF NativeQueue
    <3> HIDE DEF seen
    <3>2. Keeps(x, x, {"input", "turn"})
      <4>1. IsSession(x)
        BY <1>10 DEF Base, Core
      <4> QED BY <4>1 DEF Keeps
    <3>3. \A i \in I : Waiting(x, i) => i \in x.request
      BY <1>3, <1>7, <1>10, <2>2 DEF Asked
    <3> QED BY <1>10, <3>1, <3>2, <3>3
  <2> QED BY <2>1, <2>2
<1> HIDE DEF seen
<1>12. /\ seen.given = session.given /\ seen.request = x.request /\ seen.status = "open" /\ seen.proc \in {"up", "closing"}
       /\ seen.outbox = <<>> /\ seen.closing = session.closing
  BY <1>3, <1>11 DEF Keeps, Fields
<1>13. session' = u
  BY <1>9, <1>12 DEF rest
<1>14. Keeps(seen, y, {"given"}) /\ y.given = rest
  BY <1>11 DEF Keeps, IsSession, Fields
<1> HIDE DEF y
<1>15. rest \in Seq(Known(seen)) /\ ToSet(y.given) \subseteq ToSet(seen.given)
  BY <1>3, <1>6, <1>7, <1>11, <1>12, <1>14
<1>16. \A i \in Input : Waiting(seen, i) /\ i \in ToSet(seen.given) => i \in ToSet(y.given) \/ i \in seen.request
  BY <1>7, <1>11, <1>12, <1>14
<1> DEFINE N == {}
<1>17. HandTyped(seen, N) /\ N \subseteq N /\ Base(seen, N)
  BY <1>11 DEF HandTyped
<1> HIDE DEF N
<1>18. Base(y, N) /\ Known(y) = Known(seen)
  BY <1>14, <1>15, <1>16, <1>17, GivenKeeps
<1>19. \A i : Waiting(y, i) <=> Waiting(seen, i)
  BY <1>14, <1>15, <1>16, <1>17, GivenKeeps
<1>20. Quiet(y)
  BY <1>11, <1>14, FrameShape
<1>21. y.request = x.request /\ y.status = "open" /\ y.proc \in {"up", "closing"} /\ y.outbox = <<>> /\ y.closing = session.closing
  BY <1>12, <1>14 DEF Keeps, Fields
<1>22. I \subseteq Known(y) /\ \A i \in I : Waiting(y, i) => i \in y.request
  BY <1>3, <1>8, <1>11, <1>18, <1>19, <1>21
<1>23. Base(u, N) /\ TurnShape(u) /\ Limited(u) /\ TurnBegan(y, u)
  BY <1>18, <1>21, <1>22, StartTurnKeeps
<1>24. Quiet(u)
  BY <1>18, <1>20, <1>21, <1>22, StartTurnKeeps
<1> HIDE DEF u
<1>25. u.outbox = <<>> /\ u.closing = session.closing
  BY <1>21, <1>23 DEF TurnBegan, Keeps, Fields
<1>26. After(u)
  BY <1>23, <1>24, <1>25, QueuesStay DEF Good, N
<1> QED BY <1>13, <1>26

LEMMA ContinuesKeeps ==
  ASSUME SessionInv, Continues
  PROVE  After(session')
<1> DEFINE x == Heard
           I == {}
           u == StartTurn(x, I)
<1>1. session' = u /\ Hears
  BY DEF Continues
<1>2. Good(x, {}) /\ x.outbox = <<>> /\ x.closing = session.closing /\ x.status = "open" /\ x.proc \in {"up", "closing"}
  BY <1>1, HeardKeeps
<1>3. Base(x, {}) /\ Quiet(x) /\ I \subseteq Known(x) /\ \A i \in I : Waiting(x, i) => i \in x.request
  BY <1>2 DEF Good
<1> HIDE DEF x, I
<1>4. Base(u, {}) /\ TurnShape(u) /\ Limited(u) /\ TurnBegan(x, u)
  BY <1>2, <1>3, StartTurnKeeps
<1>5. Quiet(u)
  BY <1>2, <1>3, StartTurnKeeps
<1> HIDE DEF u
<1>6. u.outbox = <<>> /\ u.closing = session.closing
  BY <1>2, <1>4 DEF TurnBegan, Keeps, Fields
<1>7. After(u)
  BY <1>4, <1>5, <1>6, QueuesStay DEF Good
<1> QED BY <1>1, <1>7

LEMMA InputSteeredKeeps ==
  ASSUME SessionInv, NEW i \in Input, InputSteered(i)
  PROVE  After(session')
<1> DEFINE x == Heard
           I == {i}
           y == StartInput(x, I)
           left == Only(y.given, Input \ {i})
           u == [y EXCEPT !.given = left]
<1>1. session' = u /\ Hears
  BY DEF InputSteered
<1>2. Good(x, {}) /\ x.outbox = <<>> /\ x.closing = session.closing
  BY <1>1, HeardKeeps
<1> HIDE DEF x
<1>3. Base(x, {}) /\ TurnShape(x) /\ Limited(x) /\ Quiet(x) /\ I \subseteq Input
  BY <1>2 DEF Good
<1> HIDE DEF I
<1>4. Base(y, {}) /\ TurnShape(y) /\ Started(x, y, I)
  BY <1>3, StartInputKeeps
<1>5. Limited(y) /\ Quiet(y)
  BY <1>3, StartInputKeeps
<1> HIDE DEF y
<1>6. ~Waiting(y, i) /\ Keeps(x, y, {"input", "turn"})
  BY <1>4 DEF Started, I
<1>7. IsSession(y) /\ y.given \in Seq(Known(y))
  BY <1>4 DEF Base, Core, HeldTyped
<1>8. left \in Seq(Known(y)) /\ ToSet(left) = ToSet(y.given) \intersect (Input \ {i})
  BY <1>7, OnlySound
<1> HIDE DEF left
<1>9. Keeps(y, u, {"given"}) /\ u.given = left
  BY <1>7 DEF Keeps, IsSession, Fields
<1> HIDE DEF u
<1> DEFINE N == {}
<1>10. HandTyped(y, N) /\ N \subseteq N /\ Base(y, N)
  BY <1>4 DEF HandTyped
<1> HIDE DEF N
<1>11. ToSet(u.given) \subseteq ToSet(y.given) /\ \A j \in Input : Waiting(y, j) /\ j \in ToSet(y.given) => j \in ToSet(u.given)
  BY <1>6, <1>8, <1>9
<1>12. Base(u, N)
  BY <1>8, <1>9, <1>10, <1>11, GivenKeeps
<1>13. TurnShape(u) /\ Limited(u) /\ Quiet(u)
  BY <1>4, <1>5, <1>9, FrameShape
<1>14. u.outbox = <<>> /\ u.closing = session.closing
  BY <1>2, <1>6, <1>9 DEF Keeps, Fields
<1>15. After(u)
  BY <1>12, <1>13, <1>14, QueuesStay DEF Good, N
<1> QED BY <1>1, <1>15

\* A rejected input leaves the provider and the interrupt it was part of.
LEMMA InputRejectedKeeps ==
  ASSUME SessionInv, NEW i \in Input, InputRejected(i)
  PROVE  After(session')
<1> DEFINE x == Heard
           left == Only(x.given, Input \ {i})
           v == [x EXCEPT !.given = left]
           y == ForgetPendingInterrupt(v, {i})
           u == SetInputs(y, {i}, "rejected")
           r == Bearer(<<i>>)
           N == {}
           G == N \union {r}
<1>1. session' = (IF Waiting(y, i) THEN u ELSE y) /\ Hears /\ i \in ToSet(session.given)
  BY DEF InputRejected
<1>2. Good(x, {}) /\ x.outbox = <<>> /\ x.closing = session.closing /\ x.given = session.given
  BY <1>1, HeardKeeps
<1> HIDE DEF x
<1>3. Base(x, N) /\ TurnShape(x) /\ Limited(x) /\ Quiet(x) /\ IsSession(x) /\ HeldTyped(x)
  BY <1>2 DEF Good, Base, Core
<1>4. x.given \in Seq(Known(x))
  BY <1>3 DEF HeldTyped
<1>5. i \in Known(x)
  BY <1>1, <1>2, <1>4, SetOf
<1>6. left \in Seq(Known(x)) /\ ToSet(left) = ToSet(x.given) \intersect (Input \ {i})
  BY <1>4, OnlySound
<1> HIDE DEF left
<1>7. Keeps(x, v, {"given"}) /\ v.given = left
  BY <1>3 DEF Keeps, IsSession, Fields
<1> HIDE DEF v
<1>8. r \in Ends(Known(x)) /\ r.kind = "retire" /\ r.then = "carry" /\ r.carry = <<i>>
  <2>1. <<i>> \in Seq(Known(x))
    BY <1>5, SetOfOne
  <2> QED BY <2>1, BearerTyped
<1> HIDE DEF r
<1>9. Carries(G, i) /\ ToSet(r.carry) = {i}
  BY <1>8, SetOfOne DEF Carries
<1>10. HandTyped(x, G) /\ N \subseteq G
  BY <1>8 DEF HandTyped
<1> HIDE DEF G, N
<1>11. \A j \in Input : Waiting(x, j) /\ j \in ToSet(x.given) => j \in ToSet(v.given) \/ j \in x.request \/ Carries(G, j)
  BY <1>6, <1>7, <1>9
<1>12. v.given \in Seq(Known(x)) /\ ToSet(v.given) \subseteq ToSet(x.given)
  BY <1>6, <1>7
<1>13. Base(v, G) /\ Known(v) = Known(x)
  BY <1>3, <1>7, <1>10, <1>11, <1>12, GivenKeeps
<1>14. TurnShape(v) /\ Limited(v) /\ Quiet(v)
  BY <1>3, <1>7, FrameShape
<1>15. HeldTyped(v) /\ IsSession(v) /\ NoneLost(v, G) /\ LockKept(v, G) /\ HandTyped(v, G)
  BY <1>13 DEF Base, Core
<1>16. Keeps(v, y, {"pending"}) /\ y.pending.inputs \in Seq(Known(v))
  BY <1>15, ForgetDoes
<1> HIDE DEF y
<1>17. Known(y) = Known(v) /\ (\A j : Waiting(y, j) => Waiting(v, j)) /\ HeldTyped(y)
  <2>1. /\ y.input = v.input /\ y.held = v.held /\ y.front = v.front /\ y.given = v.given /\ y.request = v.request
    BY <1>16 DEF Keeps, Fields
  <2>2. Known(y) = Known(v)
    BY <2>1 DEF Known
  <2> QED BY <1>15, <1>16, <2>1, <2>2 DEF Waiting, HeldTyped
<1>18. NoneLost(y, G)
  BY <1>15, <1>16, <1>17, FrameLost
<1>19. Keeps(v, y, {"held", "front", "pending"})
  BY <1>16 DEF Keeps
<1>20. Base(y, G)
  BY <1>13, <1>15, <1>17, <1>18, <1>19, MovesKeep
<1>21. TurnShape(y) /\ Limited(y) /\ Quiet(y)
  BY <1>14, <1>16, FrameShape
<1>22. IsSession(y) /\ InputsTyped(y)
  BY <1>20 DEF Base, Core
<1>23. y.outbox = <<>> /\ y.closing = session.closing
  BY <1>2, <1>7, <1>16 DEF Keeps, Fields
<1>24. ASSUME NEW z, Base(z, G), TurnShape(z), Limited(z), Quiet(z), ~Waiting(z, i), z.outbox = <<>>, z.closing = session.closing
       PROVE  After(z)
  <2>1. HandTyped(z, N \union {r}) /\ Base(z, N \union {r})
    BY <1>24 DEF Base, Core, G
  <2>2. HandTyped(z, N)
    BY DEF HandTyped, N
  <2>3. \A j \in ToSet(r.carry) : j \in Input => ~Waiting(z, j) \/ Placed(z, N, j)
    BY <1>9, <1>24
  <2>4. Base(z, N)
    BY <1>8, <2>1, <2>2, <2>3, HandDrops
  <2> QED BY <1>24, <2>4, QueuesStay DEF Good, N
<1>25. CASE Waiting(y, i)
  <2>1. Keeps(y, u, {"input"}) /\ u.input = [j \in Input |-> IF j \in {i} THEN "rejected" ELSE y.input[j]]
    BY <1>22, SetInputsDoes
  <2>2. session' = u
    BY <1>1, <1>25
  <2> HIDE DEF u
  <2>3. u.input \in [Input -> Inputs] /\ ~Waiting(u, i)
    BY <1>22, <2>1 DEF InputsTyped, Inputs, Waiting
  <2>4. Known(u) = Known(y) /\ \A j \in Input : Waiting(u, j) => Waiting(y, j)
    BY <1>25, <2>1 DEF Known, Waiting
  <2>5. Base(u, G)
    BY <1>20, <2>1, <2>3, <2>4, InputsEnd
  <2>6. TurnShape(u) /\ Limited(u) /\ Quiet(u)
    BY <1>21, <2>1, FrameShape
  <2>7. u.outbox = <<>> /\ u.closing = session.closing
    BY <1>23, <2>1 DEF Keeps, Fields
  <2> QED BY <1>24, <2>2, <2>3, <2>5, <2>6, <2>7
<1>26. CASE ~Waiting(y, i)
  <2>1. session' = y
    BY <1>1, <1>26
  <2> QED BY <1>20, <1>21, <1>23, <1>24, <1>26, <2>1
<1> QED BY <1>25, <1>26

LEMMA TurnCompletesKeeps ==
  ASSUME SessionInv, TurnCompletes
  PROVE  After(session')
<1> DEFINE x == Heard
           y == CompleteTurn(x)
<1>1. session' = Finish(y) /\ Hears
  BY DEF TurnCompletes
<1>2. Good(x, {}) /\ x.status = "open"
  BY <1>1, HeardKeeps
<1> HIDE DEF x
<1>3. Good(y, {})
  BY <1>2, CompleteTurnKeeps
<1> HIDE DEF y
<1> QED BY <1>1, <1>3, FinishAfter

LEMMA SubagentStartsKeeps ==
  ASSUME SessionInv, NEW n \in Native, SubagentStarts(n)
  PROVE  After(session')
<1> DEFINE x == Heard
           y == [x EXCEPT !.sub[n] = "running", !.news = @ \ {n}]
<1>1. session' = Finish(AfterSubagentChange(y)) /\ Hears
  BY DEF SubagentStarts
<1>2. Good(x, {}) /\ Keeps(session, x, {"timers"}) /\ session.status = "open"
  BY <1>1, HeardKeeps DEF Hears
<1> HIDE DEF x
<1>3. IsSession(x) /\ SubsTyped(x)
  BY <1>2 DEF Good, Base, Core
<1>4. Keeps(x, y, {"sub", "news"}) /\ y.sub = [x.sub EXCEPT ![n] = "running"]
  BY <1>3 DEF Keeps, IsSession, Fields
<1> HIDE DEF y
<1>5. y.roster = x.roster /\ Keeps(x, y, {"sub", "roster"} \union Loose)
  BY <1>4 DEF Keeps, Fields, Loose
<1>6. SubsTyped(y)
  BY <1>3, <1>4, <1>5 DEF SubsTyped, Subs
<1> QED BY <1>1, <1>2, <1>5, <1>6, SubagentsChange

LEMMA SubagentEndsKeeps ==
  ASSUME SessionInv, NEW n \in Native, NEW state \in {"idle", "failed", "stopped"}, SubagentEnds(n, state)
  PROVE  After(session')
<1> DEFINE x == Heard
           heard == IF TurnOpen(session) THEN x.news ELSE x.news \union {n}
           told == IF state = "stopped" THEN x.untold \union {n} ELSE x.untold
           y == [x EXCEPT !.sub[n] = state, !.news = heard, !.untold = told]
<1>1. session' = Finish(AfterSubagentChange(y)) /\ Hears
  BY DEF SubagentEnds
<1>2. Good(x, {}) /\ Keeps(session, x, {"timers"}) /\ session.status = "open"
  BY <1>1, HeardKeeps DEF Hears
<1> HIDE DEF x, heard, told
<1>3. IsSession(x) /\ SubsTyped(x)
  BY <1>2 DEF Good, Base, Core
<1>4. Keeps(x, y, {"sub", "news", "untold"}) /\ y.sub = [x.sub EXCEPT ![n] = state]
  BY <1>3 DEF Keeps, IsSession, Fields
<1> HIDE DEF y
<1>5. y.roster = x.roster /\ Keeps(x, y, {"sub", "roster"} \union Loose)
  BY <1>4 DEF Keeps, Fields, Loose
<1>6. SubsTyped(y)
  BY <1>3, <1>4, <1>5 DEF SubsTyped, Subs
<1> QED BY <1>1, <1>2, <1>5, <1>6, SubagentsChange

LEMMA RosterReportedKeeps ==
  ASSUME SessionInv, NEW N \in SUBSET Native, RosterReported(N)
  PROVE  After(session')
<1> DEFINE x == Heard
           y == [x EXCEPT !.roster = N]
<1>1. session' = Finish(AfterSubagentChange(y)) /\ Hears
  BY DEF RosterReported
<1>2. Good(x, {}) /\ Keeps(session, x, {"timers"}) /\ session.status = "open"
  BY <1>1, HeardKeeps DEF Hears
<1> HIDE DEF x
<1>3. IsSession(x) /\ SubsTyped(x)
  BY <1>2 DEF Good, Base, Core
<1>4. Keeps(x, y, {"roster"}) /\ y.roster = N
  BY <1>3 DEF Keeps, IsSession, Fields
<1> HIDE DEF y
<1>5. y.sub = x.sub /\ Keeps(x, y, {"sub", "roster"} \union Loose)
  BY <1>4 DEF Keeps, Fields, Loose
<1>6. SubsTyped(y)
  BY <1>3, <1>4, <1>5 DEF SubsTyped, Subs
<1> QED BY <1>1, <1>2, <1>5, <1>6, SubagentsChange

LEMMA ProcessGoes ==
  ASSUME NEW x, IsSession(x), NEW y, y = [x EXCEPT !.proc = "none", !.given = <<>>, !.request = {}]
  PROVE  Keeps(x, y, {"proc", "given", "request"}) /\ y.proc = "none" /\ y.given = <<>> /\ y.request = {}
BY DEF Keeps, IsSession, Fields

\* The process is gone: whoever waited for a request has the lock in hand.
LEMMA ExitLeaves ==
  ASSUME SessionInv, session.status = "open", session.proc = "up",
         NEW y, y = [CancelAll(session) EXCEPT !.proc = "none", !.given = <<>>, !.request = {}]
  PROVE  /\ Core(y, Calls(session.request)) /\ Quiet(y) /\ Keeps(session, y, {"timers", "grace", "proc", "given", "request"})
         /\ y.proc = "none" /\ y.given = <<>> /\ y.request = {}
<1> DEFINE R == session.request
           W == Calls(R)
           c == CancelAll(session)
<1>0. /\ IsSession(session) /\ InputsTyped(session) /\ SubsTyped(session) /\ TurnTyped(session) /\ HeldTyped(session)
      /\ QueuesTyped(session) /\ ProcTyped(session) /\ LockKept(session, {}) /\ Quiet(session) /\ session.outbox = <<>>
  BY SessionIs DEF Base
<1>1. Keeps(session, c, {"timers", "grace"}) /\ c.timers = {} /\ c.grace = NoGrace
  BY <1>0, CancelAllDoes
<1>2. y = [c EXCEPT !.proc = "none", !.given = <<>>, !.request = {}]
  OBVIOUS
<1> HIDE DEF c
<1>3. Keeps(c, y, {"proc", "given", "request"}) /\ y.proc = "none" /\ y.given = <<>> /\ y.request = {}
  <2>1. IsSession(c)
    BY <1>1 DEF Keeps
  <2> QED BY <1>2, <2>1, ProcessGoes
<1>4. Keeps(session, y, {"timers", "grace", "proc", "given", "request"})
  BY <1>1, <1>3 DEF Keeps
<1>5. y.timers = {} /\ y.grace = NoGrace
  BY <1>1, <1>3 DEF Keeps, Fields
<1>6. /\ y.input = session.input /\ y.waiting = session.waiting /\ y.closing = session.closing /\ y.outbox = session.outbox
      /\ y.status = session.status /\ y.lock = session.lock /\ y.held = session.held /\ y.front = session.front
      /\ y.turn = session.turn /\ y.turns = session.turns /\ y.phase = session.phase /\ y.settled = session.settled
      /\ y.pending = session.pending
  BY <1>4 DEF Keeps, Fields
<1>7. Known(y) = Known(session)
  BY <1>6 DEF Known
<1>8. IsSession(y) /\ InputsTyped(y) /\ SubsTyped(y)
  BY <1>0, <1>4, FrameTyped
<1>9. TurnTyped(y)
  BY <1>0, <1>5, <1>6, <1>7 DEF TurnTyped
<1>10. HeldTyped(y)
  <2> DEFINE K == Known(session)
  <2>1. y.held \in Seq(K) /\ y.front \in Seq(K) /\ y.pending.inputs \in Seq(K)
    BY <1>0, <1>6 DEF HeldTyped
  <2>2. y.given \in Seq(K)
    <3> HIDE DEF K
    <3> QED BY <1>3
  <2> QED BY <1>3, <1>7, <2>1, <2>2 DEF HeldTyped
<1>11. QueuesTyped(y)
  BY <1>0, <1>4, <1>7, FrameQueues
<1>12. HandTyped(y, W)
  <2>1. R \subseteq Known(y)
    BY <1>0, <1>7 DEF HeldTyped
  <2>2. W \subseteq Sends(Known(y))
    BY <2>1 DEF Calls, Sends, Deliveries
  <2> QED BY <2>2 DEF HandTyped
<1>13. ProcTyped(y)
  BY <1>0, <1>3, <1>6 DEF ProcTyped
<1>14. LockKept(y, W)
  <2>1. Entries(session, {}) \subseteq Entries(y, W)
    BY <1>6 DEF Entries
  <2>2. W \subseteq Entries(y, W)
    BY DEF Entries
  <2>3. \A i \in R : Writes(W, i)
    BY CallsTyped
  <2> HIDE DEF R, W
  <2>4. \A i \in R : Writes(Entries(y, W), i)
    BY <2>2, <2>3 DEF Writes
  <2>5. \A i : Writes(Entries(session, {}), i) => Writes(Entries(y, W), i)
    BY <2>1 DEF Writes
  <2>6. Unlocks(Entries(session, {})) => Unlocks(Entries(y, W))
    BY <2>1 DEF Unlocks
  <2> QED BY <1>0, <1>6, <2>4, <2>5, <2>6 DEF LockKept, R
<1>15. ClosedRests(y)
  BY <1>6 DEF ClosedRests
<1>16. Quiet(y)
  BY <1>0, <1>4, FrameShape
<1> QED BY <1>3, <1>4, <1>8, <1>9, <1>10, <1>11, <1>12, <1>13, <1>14, <1>15, <1>16 DEF Core

LEMMA ProcessExitsKeeps ==
  ASSUME SessionInv, ProcessExits
  PROVE  After(session')
<1> DEFINE y == [CancelAll(session) EXCEPT !.proc = "none", !.given = <<>>, !.request = {}]
           r == Retirement("crashed", "none")
           R == session.request
           W == Calls(R)
           z == EndRunningWork(y, r)
           u == FailWrite(z, R)
<1>1. session' = u /\ session.status = "open" /\ session.proc \in {"up", "closing"} /\ session.closing = <<>>
  BY DEF ProcessExits, Hears
<1>2. session.proc = "up" /\ session.outbox = <<>> /\ R \subseteq Input
  BY <1>1, SessionIs DEF ProcTyped, HeldTyped, Known
<1>3. Core(y, W) /\ Quiet(y) /\ Keeps(session, y, {"timers", "grace", "proc", "given", "request"})
  BY <1>1, <1>2, ExitLeaves
<1> HIDE DEF y
<1>4. r.carry = <<>>
  BY RetirementTyped DEF Reasons
<1> HIDE DEF r, W
<1>5. WorkEnded(y, z, r) /\ Core(z, W) /\ Quiet(z)
  BY <1>3, EndRunningWorkKeeps
<1> HIDE DEF z
<1>6. \A i \in Input : ~Waiting(z, i)
  BY <1>4, <1>5, SetOfNone DEF WorkEnded
<1> HIDE DEF R
<1>7. Keeps(z, u, {"input", "why", "untold", "pending", "lock"}) /\ Core(u, {}) /\ Quiet(u)
  BY <1>2, <1>5, CallsFail DEF W
<1>8. \A i \in Input : ~Waiting(u, i)
  BY <1>2, <1>5, <1>6, CallsFail DEF W
<1> HIDE DEF u
<1>9. u.turn = NoTurn /\ u.phase # "turn"
  BY <1>5, <1>7 DEF WorkEnded, Keeps, Fields
<1>10. u.outbox = <<>> /\ u.closing = session.closing
  BY <1>1, <1>2, <1>3, <1>5, <1>7 DEF WorkEnded, Keeps, Fields
<1>11. Asked(u) /\ NoneLost(u, {})
  BY <1>8 DEF Asked, NoneLost
<1>12. TurnShape(u) /\ Limited(u)
  BY <1>9 DEF TurnShape, Limited, TurnOpen
<1>13. After(u)
  BY <1>7, <1>10, <1>11, <1>12, QueuesStay DEF Good, Base
<1> QED BY <1>1, <1>13

-----------------------------------------------------------------------------
(* Timers. *)

LEMMA LimitFires ==
  ASSUME SessionInv, NEW t \in Timer, t \in session.timers, NEW why \in Reasons
  PROVE  After(Finish(Retire(session, Retirement(why, "none"))))
<1>1. session.status = "open" /\ IsSession(session)
  BY SessionIs DEF ProcTyped, ClosedRests
<1>2. Keeps(session, session, Loose)
  BY <1>1 DEF Keeps
<1> QED BY <1>1, <1>2, QuietlyRetires

LEMMA LimitsKeep ==
  ASSUME SessionInv, IdleFires \/ StallFires \/ BackgroundMaxFires \/ TurnInactivityFires
  PROVE  After(session')
<1>1. CASE IdleFires
  BY <1>1, LimitFires DEF IdleFires, Expire, Timer, Reasons
<1>2. CASE StallFires
  BY <1>2, LimitFires DEF StallFires, Expire, Timer, Reasons
<1>3. CASE BackgroundMaxFires
  BY <1>3, LimitFires DEF BackgroundMaxFires, Expire, Timer, Reasons
<1>4. CASE TurnInactivityFires
  BY <1>4, LimitFires DEF TurnInactivityFires, Expire, Timer, Reasons
<1> QED BY <1>1, <1>2, <1>3, <1>4

LEMMA SettleFiresKeeps ==
  ASSUME SessionInv, SettleFires
  PROVE  After(session')
<1> DEFINE y == Cancel(session, {"settle"})
           z == OnSettled(y)
<1>1. session' = Finish(z) /\ "settle" \in session.timers
  BY DEF SettleFires, Expire
<1>2. session.status = "open" /\ IsSession(session) /\ Base(session, {}) /\ TurnTyped(session) /\ HeldTyped(session)
      /\ TurnShape(session) /\ Limited(session) /\ Quiet(session)
  BY <1>1, SessionIs DEF ProcTyped, ClosedRests
<1>3. Keeps(session, y, {"timers"}) /\ y.timers = session.timers \ {"settle"}
  BY <1>2, CancelDoes
<1> HIDE DEF y
<1>4. /\ y.phase = session.phase /\ y.settled = session.settled /\ y.grace = session.grace /\ y.pending = session.pending
      /\ y.turn = session.turn /\ y.proc = session.proc /\ y.input = session.input
  BY <1>3 DEF Keeps, Fields
<1>5. Keeps(session, y, Policy) /\ Known(y) = Known(session)
  BY <1>3, <1>4 DEF Keeps, Policy, Known
<1>6. PolicyTyped(y)
  BY <1>2, <1>3, <1>4, <1>5 DEF PolicyTyped, TurnTyped, HeldTyped
<1>7. Base(y, {}) /\ y.status = "open"
  BY <1>2, <1>5, <1>6, PolicyKeeps
<1>8. TurnShape(y) /\ Quiet(y)
  BY <1>2, <1>3, FrameShape
<1>9. Limited(y)
  BY <1>2, <1>3, <1>4 DEF Limited, TurnOpen
<1>10. Good(z, {})
  BY <1>7, <1>8, <1>9, OnSettledKeeps DEF Good
<1> HIDE DEF z
<1> QED BY <1>1, <1>10, FinishAfter

LEMMA GraceFiresKeeps ==
  ASSUME SessionInv, GraceFires
  PROVE  After(session')
<1> DEFINE y == [session EXCEPT !.grace = NoGrace]
           r == Retirement("user_stop", "none")
<1>1. session.grace # NoGrace
  BY DEF GraceFires
<1>2. session.status = "open" /\ IsSession(session) /\ Base(session, {}) /\ TurnTyped(session) /\ HeldTyped(session)
      /\ TurnShape(session) /\ Limited(session) /\ Quiet(session)
  BY <1>1, SessionIs DEF ProcTyped, ClosedRests
<1>3. Keeps(session, y, {"grace"}) /\ y.grace = NoGrace
  BY <1>2 DEF Keeps, IsSession, Fields
<1>4. \/ session' = y
      \/ session.turn.id = session.grace.turn /\ session' = Finish(RetireForInterrupt(y))
      \/ session' = Finish(Retire(y, r))
  BY DEF GraceFires
<1> HIDE DEF y
<1>5. /\ y.phase = session.phase /\ y.settled = session.settled /\ y.timers = session.timers /\ y.pending = session.pending
      /\ y.turn = session.turn /\ y.input = session.input
  BY <1>3 DEF Keeps, Fields
<1>6. Keeps(session, y, Policy) /\ Known(y) = Known(session)
  BY <1>3, <1>5 DEF Keeps, Policy, Known
<1>7. PolicyTyped(y)
  BY <1>2, <1>3, <1>5, <1>6 DEF PolicyTyped, TurnTyped, HeldTyped
<1>8. Base(y, {}) /\ y.status = "open"
  BY <1>2, <1>6, <1>7, PolicyKeeps
<1>9. TurnShape(y) /\ Limited(y) /\ Quiet(y)
  BY <1>2, <1>3, FrameShape
<1>10. Good(y, {})
  BY <1>8, <1>9 DEF Good
<1>11. CASE session' = y
  BY <1>3, <1>10, <1>11, StaysAfter
<1>12. CASE session.turn.id = session.grace.turn /\ session' = Finish(RetireForInterrupt(y))
  <2>1. TurnOpen(y)
    BY <1>1, <1>2, <1>5, <1>12 DEF TurnTyped, TurnOpen, NoTurn
  <2>2. Good(RetireForInterrupt(y), {})
    BY <1>8, <1>10, <2>1, RetireForInterruptKeeps
  <2> QED BY <1>12, <2>2, FinishAfter
<1>13. CASE session' = Finish(Retire(y, r))
  <2>1. r \in Ends(Known(y)) /\ r.carry = <<>>
    BY RetirementTyped DEF Reasons
  <2> HIDE DEF r
  <2>2. Base(y, {} \union {r})
    BY <1>8, <2>1, Retires
  <2>3. Good(Retire(y, r), {})
    BY <1>8, <1>9, <2>1, <2>2, RetireKeeps
  <2> QED BY <1>13, <2>3, FinishAfter
<1> QED BY <1>4, <1>11, <1>12, <1>13

-----------------------------------------------------------------------------
(* Restarts. *)

\* A session as it is before its first step.
Blank(y, s) ==
         /\ y = [f \in Fields |-> y[f]] /\ y.setup = s
         /\ y.status = "open" /\ y.phase = "idle" /\ y.settled = TRUE /\ y.turn = NoTurn /\ y.turns = 0
         /\ y.input = [i \in Input |-> "none"] /\ y.delivery = [i \in Input |-> "queue"]
         /\ y.sub = [n \in Native \union Delegated |-> "none"]
         /\ y.proc = "none" /\ y.waiting = <<>> /\ y.closing = <<>> /\ y.outbox = <<>>
         /\ y.held = <<>> /\ y.front = <<>> /\ y.pending = NoPending /\ y.given = <<>> /\ y.request = {}
         /\ y.timers = {} /\ y.grace = NoGrace /\ y.roster = None /\ y.lock = None

LEMMA NewSessionIs ==
  ASSUME NEW s, NEW y, y = NewSession(s)
  PROVE  Blank(y, s)
<1> DEFINE a == [i \in Input |-> "none"]
           b == [i \in Input |-> "queue"]
           c == [n \in Native \union Delegated |-> "none"]
           d == CHOOSE v \in Config : TRUE
           e == [i \in Input |-> 0]
           g == [i \in Input |-> {}]
<1>1. y = [setup |-> s, status |-> "open", phase |-> "idle", settled |-> TRUE, turn |-> NoTurn, turns |-> 0,
           input |-> a, why |-> a, delivery |-> b, sub |-> c, untold |-> {},
           proc |-> "none", waiting |-> <<>>, closing |-> <<>>, outbox |-> <<>>,
           held |-> <<>>, front |-> <<>>, pending |-> NoPending, config |-> d, deferred |-> None,
           timers |-> {}, grace |-> NoGrace, roster |-> None, news |-> {}, results |-> {}, handoffs |-> 0,
           lock |-> None, evict |-> FALSE, down |-> FALSE,
           given |-> <<>>, request |-> {}, sent |-> e, tells |-> g, restarts |-> 0]
  BY DEF NewSession
<1> HIDE DEF a, b, c, d, e, g
<1>2. y = [f \in Fields |-> y[f]]
  BY <1>1 DEF Fields
<1>3. /\ y.setup = s /\ y.status = "open" /\ y.phase = "idle" /\ y.settled = TRUE /\ y.turn = NoTurn /\ y.turns = 0
      /\ y.input = a /\ y.delivery = b /\ y.sub = c
  BY <1>1
<1>4. /\ y.proc = "none" /\ y.waiting = <<>> /\ y.closing = <<>> /\ y.outbox = <<>>
      /\ y.held = <<>> /\ y.front = <<>> /\ y.pending = NoPending /\ y.given = <<>> /\ y.request = {}
      /\ y.timers = {} /\ y.grace = NoGrace /\ y.roster = None /\ y.lock = None
  BY <1>1
<1> QED BY <1>2, <1>3, <1>4 DEF a, b, c, Blank

\* A session with no process and nothing in its queues.
LEMMA FreshIsCore ==
  ASSUME NEW y, IsSession(y), y.status = "open", y.proc = "none", y.waiting = <<>>, y.closing = <<>>, y.outbox = <<>>,
         y.held = <<>>, y.front = <<>>, y.given = <<>>, y.pending = NoPending, y.request = {}, y.lock = None,
         InputsTyped(y), SubsTyped(y), TurnTyped(y)
  PROVE  Core(y, {})
<1> DEFINE K == Known(y)
<1>1. HeldTyped(y)
  <2>1. y.pending.inputs = <<>>
    BY DEF NoPending
  <2> HIDE DEF K
  <2>2. y.held \in Seq(K) /\ y.front \in Seq(K) /\ y.given \in Seq(K) /\ y.pending.inputs \in Seq(K)
    BY <2>1
  <2> QED BY <2>2 DEF HeldTyped, K
<1>2. QueuesTyped(y)
  <2> DEFINE S == Sends(K) \union Plain(K)
             T == Sends(K)
             E == Ends(K)
  <2> HIDE DEF S, T, E
  <2>1. y.waiting \in Seq(S) /\ y.closing \in Seq(E) /\ y.outbox \in Seq(T)
    OBVIOUS
  <2> QED BY <2>1 DEF QueuesTyped, S, T, E
<1>3. HandTyped(y, {}) /\ ProcTyped(y)
  BY DEF HandTyped, ProcTyped
<1>4. LockKept(y, {})
  BY ToldApart DEF LockKept
<1>5. ClosedRests(y)
  BY DEF ClosedRests
<1> QED BY <1>1, <1>2, <1>3, <1>4, <1>5 DEF Core

LEMMA NewIsGood ==
  ASSUME session = NewSession(session.setup)
  PROVE  After(session)
<1>0. Blank(session, session.setup)
  <2> DEFINE s == session.setup
  <2>1. session = NewSession(s)
    OBVIOUS
  <2> HIDE DEF s
  <2>2. Blank(session, s)
    BY <2>1, NewSessionIs
  <2> QED BY <2>2 DEF s
<1>1. IsSession(session)
  BY <1>0 DEF IsSession, Blank
<1>2. /\ session.status = "open" /\ session.phase = "idle" /\ session.turn = NoTurn /\ session.turns = 0 /\ session.settled = TRUE
      /\ session.timers = {} /\ session.grace = NoGrace /\ session.roster = None /\ session.lock = None /\ session.proc = "none"
  BY <1>0 DEF Blank
<1>3. /\ session.waiting = <<>> /\ session.closing = <<>> /\ session.outbox = <<>>
      /\ session.held = <<>> /\ session.front = <<>> /\ session.pending = NoPending /\ session.given = <<>> /\ session.request = {}
  BY <1>0 DEF Blank
<1>4. /\ session.input = [i \in Input |-> "none"] /\ session.delivery = [i \in Input |-> "queue"]
      /\ session.sub = [n \in Native \union Delegated |-> "none"]
  BY <1>0 DEF Blank
<1>5. InputsTyped(session) /\ SubsTyped(session)
  BY <1>2, <1>4 DEF InputsTyped, SubsTyped, Inputs, Subs, Deliveries
<1>6. TurnTyped(session)
  <2>1. session.turn = [id |-> 0, inputs |-> {}]
    BY <1>2 DEF NoTurn
  <2>2. session.turn.id = 0 /\ session.turn.inputs = {}
    BY <2>1
  <2>3. session.turn = [id |-> session.turn.id, inputs |-> session.turn.inputs]
    BY <2>1, <2>2
  <2>4. session.settled \in BOOLEAN
    BY <1>2, Zenon
  <2>5. session.turns \in Nat /\ session.turn.id \in Nat /\ session.turn.id <= session.turns /\ session.turn.inputs \subseteq Known(session)
    BY <1>2, <2>2
  <2>6. session.phase \in {"idle", "turn", "background"} /\ session.timers \subseteq Timer /\ session.grace = NoGrace
    BY <1>2
  <2> QED BY <2>3, <2>4, <2>5, <2>6 DEF TurnTyped
<1>7. Core(session, {})
  BY <1>1, <1>2, <1>3, <1>5, <1>6, FreshIsCore
<1>8. \A i \in Input : ~Waiting(session, i)
  BY <1>4 DEF Waiting
<1>9. Asked(session) /\ NoneLost(session, {})
  BY <1>8 DEF Asked, NoneLost
<1>10. TurnShape(session) /\ Limited(session)
  BY <1>2 DEF TurnShape, Limited, TurnOpen
<1>11. Quiet(session)
  BY <1>2, <1>4 DEF Quiet, Live, Running
<1> QED BY <1>3, <1>7, <1>9, <1>10, <1>11 DEF After, Good, Base

\* What a new host process reads of the session.
RestartFields == {"phase", "settled", "turn", "turns", "input", "why", "delivery", "sub", "untold", "config", "sent", "tells",
                  "restarts"}
RestartRead(x, y, S) ==
  /\ y = [f \in Fields |-> y[f]] /\ \A f \in Fields : f \in RestartFields \/ y[f] = x[f]
  /\ y.phase = session.phase /\ y.settled = session.settled /\ y.turn = session.turn /\ y.turns = session.turns
  /\ y.input = session.input /\ y.delivery = session.delivery /\ y.sub = S

LEMMA RestartReads ==
  ASSUME NEW x, x = [f \in Fields |-> x[f]], NEW S, NEW U, NEW n
  PROVE  RestartRead(x, [x EXCEPT !.phase = session.phase, !.settled = session.settled, !.turn = session.turn,
                                  !.turns = session.turns, !.input = session.input, !.why = session.why,
                                  !.delivery = session.delivery, !.sub = S, !.untold = U, !.config = session.config,
                                  !.sent = session.sent, !.tells = session.tells, !.restarts = n], S)
<1> DEFINE a == session.phase
           b == session.settled
           c == session.turn
           d == session.turns
           e == session.input
           g == session.why
           h == session.delivery
           k == session.config
           l == session.sent
           m == session.tells
           y == [x EXCEPT !.phase = a, !.settled = b, !.turn = c, !.turns = d, !.input = e, !.why = g, !.delivery = h,
                          !.sub = S, !.untold = U, !.config = k, !.sent = l, !.tells = m, !.restarts = n]
<1> HIDE DEF a, b, c, d, e, g, h, k, l, m
<1>1. DOMAIN x = Fields
  OBVIOUS
<1>2. DOMAIN y = Fields
  BY <1>1, Zenon
<1>3. y = [f \in Fields |-> y[f]]
  BY <1>1, Zenon
<1>4. \A f \in Fields : f \in RestartFields \/ y[f] = x[f]
  BY <1>1 DEF RestartFields
<1>5. "phase" \in DOMAIN x /\ "settled" \in DOMAIN x /\ "turn" \in DOMAIN x /\ "turns" \in DOMAIN x
  BY <1>1 DEF Fields
<1>6. "input" \in DOMAIN x /\ "delivery" \in DOMAIN x /\ "sub" \in DOMAIN x
  BY <1>1 DEF Fields
<1>7. y.phase = a /\ y.settled = b
  BY <1>5
<1>8. y.turn = c /\ y.turns = d
  BY <1>5
<1>9. y.input = e /\ y.delivery = h /\ y.sub = S
  BY <1>6
<1> HIDE DEF y
<1>10. RestartRead(x, y, S)
  BY <1>3, <1>4, <1>7, <1>8, <1>9 DEF RestartRead, a, b, c, d, e, h
<1> QED BY <1>10, Zenon DEF y, a, b, c, d, e, g, h, k, l, m

RestartLeft(y) == Core(y, {}) /\ Quiet(y) /\ y.outbox = <<>> /\ y.closing = <<>> /\ y.request = {} /\ y.proc = "none"

LEMMA RestartLeaves ==
  ASSUME SessionInv, NEW x, Blank(x, session.setup), NEW y,
         RestartRead(x, y, [n \in Native \union Delegated |-> IF n \in Running(session, Delegated) THEN "stopped" ELSE session.sub[n]])
  PROVE  RestartLeft(y)
<1> DEFINE S == [n \in Native \union Delegated |-> IF n \in Running(session, Delegated) THEN "stopped" ELSE session.sub[n]]
<1>10. /\ y = [f \in Fields |-> y[f]] /\ \A f \in Fields : f \in RestartFields \/ y[f] = x[f]
      /\ y.phase = session.phase /\ y.settled = session.settled /\ y.turn = session.turn /\ y.turns = session.turns
      /\ y.input = session.input /\ y.delivery = session.delivery /\ y.sub = S
  BY DEF RestartRead
<1>0. IsSession(session) /\ InputsTyped(session) /\ SubsTyped(session) /\ TurnTyped(session) /\ Quiet(session)
  BY SessionIs
<1>1. /\ y.setup = x.setup /\ y.status = x.status /\ y.proc = x.proc /\ y.waiting = x.waiting /\ y.closing = x.closing
      /\ y.outbox = x.outbox /\ y.held = x.held /\ y.front = x.front /\ y.pending = x.pending /\ y.given = x.given
      /\ y.request = x.request /\ y.timers = x.timers /\ y.grace = x.grace /\ y.roster = x.roster /\ y.lock = x.lock
  BY <1>10 DEF Fields, RestartFields
<1>2. /\ y.setup = session.setup /\ y.status = "open" /\ y.proc = "none" /\ y.waiting = <<>> /\ y.closing = <<>>
      /\ y.outbox = <<>> /\ y.held = <<>> /\ y.front = <<>> /\ y.pending = NoPending /\ y.given = <<>> /\ y.request = {}
      /\ y.timers = {} /\ y.grace = NoGrace /\ y.roster = None /\ y.lock = None
  BY <1>1 DEF Blank
<1>3. IsSession(y)
  BY <1>10, <1>2 DEF IsSession
<1>4. Known(y) = Known(session)
  BY <1>10 DEF Known
<1>5. InputsTyped(y)
  BY <1>0, <1>10 DEF InputsTyped
<1>6. SubsTyped(y)
  BY <1>0, <1>2, <1>10 DEF SubsTyped, Subs
<1>7. TurnTyped(y)
  BY <1>0, <1>2, <1>4, <1>10 DEF TurnTyped
<1>8. Core(y, {})
  BY <1>2, <1>3, <1>5, <1>6, <1>7, FreshIsCore
<1>9. Quiet(y)
  <2>1. Running(y, Native \union Delegated) \subseteq Running(session, Native \union Delegated)
    BY <1>10 DEF Running
  <2> QED BY <1>0, <1>2, <1>10, <2>1 DEF Quiet, Live
<1> QED BY <1>2, <1>8, <1>9 DEF RestartLeft

LEMMA HostRestartsKeeps ==
  ASSUME SessionInv, HostRestarts
  PROVE  After(session')
<1> DEFINE x == NewSession(session.setup)
           S == [n \in Native \union Delegated |-> IF n \in Running(session, Delegated) THEN "stopped" ELSE session.sub[n]]
           U == session.untold \union Running(session, Delegated)
           m == session.restarts + 1
           y == [x EXCEPT
                   !.phase = session.phase, !.settled = session.settled, !.turn = session.turn, !.turns = session.turns,
                   !.input = session.input, !.why = session.why, !.delivery = session.delivery,
                   !.sub = S, !.untold = U, !.config = session.config,
                   !.sent = session.sent, !.tells = session.tells, !.restarts = m]
           r == Retirement("restart", "none")
           u == EndRunningWork(y, r)
<1>1. session' = u
  BY DEF HostRestarts
<1>2. Blank(x, session.setup)
  BY NewSessionIs
<1> HIDE DEF x, S, U, m
<1>3. x = [f \in Fields |-> x[f]]
  BY <1>2 DEF Blank
<1>4. RestartRead(x, y, S)
  BY <1>3, RestartReads, Zenon
<1> HIDE DEF y
<1> DEFINE N == {}
<1>5. RestartLeft(y)
  BY <1>2, <1>4, RestartLeaves DEF S
<1>6. Core(y, N) /\ Quiet(y)
  BY <1>5 DEF RestartLeft
<1>7. y.outbox = <<>> /\ y.closing = <<>>
  BY <1>5 DEF RestartLeft
<1>8. r.carry = <<>>
  BY RetirementTyped DEF Reasons
<1> HIDE DEF r, N
<1>9. WorkEnded(y, u, r) /\ Core(u, N) /\ Quiet(u)
  BY <1>6, EndRunningWorkKeeps
<1> HIDE DEF u
<1>10. (\A i \in Input : ~Waiting(u, i)) /\ u.turn = NoTurn /\ u.phase # "turn"
  BY <1>8, <1>9, SetOfNone DEF WorkEnded
<1>11. u.outbox = <<>> /\ u.closing = <<>>
  BY <1>7, <1>9 DEF WorkEnded, Keeps, Fields
<1>12. Asked(u) /\ NoneLost(u, {})
  BY <1>10 DEF Asked, NoneLost
<1>13. TurnShape(u) /\ Limited(u)
  BY <1>10 DEF TurnShape, Limited, TurnOpen
<1>14. After(u)
  BY <1>9, <1>11, <1>12, <1>13 DEF After, Good, Base, N
<1> QED BY <1>1, <1>14

-----------------------------------------------------------------------------
(* The invariant. *)

LEMMA InitHolds == Init => SessionInv
<1> SUFFICES ASSUME Init PROVE SessionInv
  OBVIOUS
<1>1. PICK x \in Setup : session = NewSession(x)
  BY DEF Init
<1> HIDE DEF After
<1>2. Blank(session, x)
  BY <1>1, NewSessionIs
<1>3. session.setup = x
  BY <1>2 DEF Blank
<1>4. session = NewSession(session.setup)
  BY <1>1, <1>3
<1>5. After(session)
  BY <1>4, NewIsGood
<1> QED BY <1>3, <1>5 DEF SessionInv

LEMMA CallHolds == SessionInv /\ Call => After(session')
<1> SUFFICES ASSUME SessionInv, Call PROVE After(session')
  OBVIOUS
<1>1. CASE \E i \in User, d \in Delivery : SendInput(i, d)
  BY <1>1, SendInputKeeps
<1>2. CASE InterruptTurn
  BY <1>2, InterruptTurnKeeps
<1>3. CASE StopSubagents
  BY <1>3, StopSubagentsKeeps
<1>4. CASE \E c \in Config : Update(c)
  BY <1>4, UpdateKeeps
<1>5. CASE CloseSession
  BY <1>5, CloseSessionKeeps
<1>6. CASE ChooseVictim
  BY <1>6, ChooseVictimKeeps
<1>7. CASE Evict
  BY <1>7, EvictKeeps
<1>8. CASE Shutdown
  BY <1>8, ShutdownKeeps
<1>9. CASE \E n \in Delegated : DelegatedStarted(n)
  BY <1>9, DelegatedStartedKeeps
<1>10. CASE \E n \in Delegated, state \in {"idle", "failed", "stopped"}, collected \in BOOLEAN : DelegatedFinished(n, state, collected)
  BY <1>10, DelegatedFinishedKeeps
<1>11. CASE \E n \in Delegated : CollectDelegated(n)
  BY <1>11, CollectKeeps
<1> QED BY <1>1, <1>2, <1>3, <1>4, <1>5, <1>6, <1>7, <1>8, <1>9, <1>10, <1>11 DEF Call

LEMMA DriverEventHolds == SessionInv /\ DriverEvent => After(session')
<1> SUFFICES ASSUME SessionInv, DriverEvent PROVE After(session')
  OBVIOUS
<1>1. CASE Opened
  BY <1>1, OpenedKeeps
<1>2. CASE OpenFails
  BY <1>2, OpenFailsKeeps
<1>3. CASE CloseDone
  BY <1>3, CloseDoneKeeps
<1>4. CASE \E i \in Input : RequestAnswered(i)
  BY <1>4, RequestAnsweredKeeps
<1>5. CASE \E i \in Input : RequestFails(i)
  BY <1>5, RequestFailsKeeps
<1>6. CASE TurnStarts
  BY <1>6, TurnStartsKeeps
<1>7. CASE Continues
  BY <1>7, ContinuesKeeps
<1>8. CASE \E i \in Input : InputSteered(i)
  BY <1>8, InputSteeredKeeps
<1>9. CASE \E i \in Input : InputRejected(i)
  BY <1>9, InputRejectedKeeps
<1>10. CASE TurnCompletes
  BY <1>10, TurnCompletesKeeps
<1>11. CASE \E n \in Native : SubagentStarts(n)
  BY <1>11, SubagentStartsKeeps
<1>12. CASE \E n \in Native, state \in {"idle", "failed", "stopped"} : SubagentEnds(n, state)
  BY <1>12, SubagentEndsKeeps
<1>13. CASE \E N \in SUBSET Native : RosterReported(N)
  BY <1>13, RosterReportedKeeps
<1>14. CASE ProcessExits
  BY <1>14, ProcessExitsKeeps
<1> QED BY <1>1, <1>2, <1>3, <1>4, <1>5, <1>6, <1>7, <1>8, <1>9, <1>10, <1>11, <1>12, <1>13, <1>14 DEF DriverEvent

\* The setup never changes, so what holds of the next session for this setup holds for its own.
LEMMA NextHolds == SessionInv /\ [Next]_vars => SessionInv'
<1> SUFFICES ASSUME SessionInv, [Next]_vars PROVE SessionInv'
  OBVIOUS
<1>1. After(session')
  <2>1. CASE Call
    BY <2>1, CallHolds
  <2>2. CASE DriverEvent
    BY <2>2, DriverEventHolds
  <2>3. CASE TimerFires
    BY <2>3, LimitsKeep, SettleFiresKeeps, GraceFiresKeeps DEF TimerFires
  <2>4. CASE HostRestarts
    BY <2>4, HostRestartsKeeps
  <2>5. CASE UNCHANGED vars
    <3>1. session' = session
      BY <2>5 DEF vars
    <3> QED BY <3>1 DEF SessionInv
  <2> QED BY <2>1, <2>2, <2>3, <2>4, <2>5 DEF Next
<1>2. session'.setup = session.setup
  BY <1>1 DEF After, Good, Base, Core, IsSession
<1>3. session'.setup \in Setup
  BY <1>2 DEF SessionInv
<1>4. After(session)'
  BY <1>1, <1>2 DEF After, Good, Base, Core, IsSession, Asked, Driver, SlowClose
<1> QED BY <1>3, <1>4 DEF SessionInv

\* The inductive invariant holds in every state the session reaches.
THEOREM SessionInvHolds == Spec => []SessionInv
<1> QED BY InitHolds, NextHolds, PTL DEF Spec

-----------------------------------------------------------------------------
(* What the invariant implies. *)

LEMMA InvTypes == SessionInv => SessionTypeOK
<1> SUFFICES ASSUME SessionInv PROVE SessionTypeOK
  OBVIOUS
<1>1. /\ InputsTyped(session) /\ SubsTyped(session) /\ TurnTyped(session) /\ ProcTyped(session) /\ session.outbox = <<>>
  BY SessionIs
<1>2. session.turn.inputs \subseteq Input /\ session.turn.id \in 0 .. session.turns
  BY <1>1 DEF TurnTyped, Known
<1>3. session.phase \in {"idle", "turn", "background"} /\ session.timers \subseteq Timer
  BY <1>1 DEF TurnTyped
<1>4. /\ session.input \in [Input -> {"none", "accepted", "started", "completed", "rejected", "interrupted"}]
      /\ session.sub \in [Native \union Delegated -> {"none", "running", "idle", "failed", "stopped"}]
  BY <1>1 DEF InputsTyped, SubsTyped, Inputs, Subs
<1>5. /\ session.status \in {"open", "closed"} /\ session.proc \in {"none", "opening", "up", "closing"}
      /\ session.closing # <<>> <=> session.proc = "closing"
      /\ session.waiting # <<>> => session.proc = "opening"
  BY <1>1 DEF ProcTyped
<1> QED BY <1>1, <1>2, <1>3, <1>4, <1>5 DEF SessionTypeOK

LEMMA InvWatches == SessionInv => TurnWatched
BY SessionIs DEF TurnWatched, TurnShape, Limited

LEMMA InvQuiets == SessionInv => SettledIsQuiet
<1> SUFFICES ASSUME SessionInv, session.settled, NEW n \in Native \union Delegated
             PROVE  /\ session.sub[n] # "running"
                    /\ session.roster # None /\ n \in session.roster => session.sub[n] = "idle"
  BY DEF SettledIsQuiet
<1>1. Live(session) = {}
  BY SessionIs DEF Quiet
<1> QED BY <1>1 DEF Live, Running

LEMMA InvWrites ==
  ASSUME SessionInv, NEW i, Writes(Entries(session, {}), i)
  PROVE  i \in InFlight(session) /\ session.waiting # <<>>
<1>1. PICK w \in Entries(session, {}) : w.kind = "write" /\ w.input = i
  BY DEF Writes
<1>2. session.outbox = <<>> /\ session.closing \in Seq(Ends(Known(session)))
  BY SessionIs DEF QueuesTyped
<1>3. ToSet(session.closing) \subseteq Ends(Known(session))
  BY <1>2, SetOf
<1>4. w \in ToSet(session.waiting)
  BY <1>1, <1>2, <1>3, SetOfNone DEF Entries, Ends
<1> QED BY <1>1, <1>4, SetOfNone DEF InFlight

LEMMA InvStrandsNone == SessionInv => NothingStranded
<1> SUFFICES ASSUME SessionInv, NEW i \in Input, Waiting(session, i)
             PROVE  \/ i \in ToSet(session.held) \union ToSet(session.front) \union ToSet(session.given)
                    \/ i \in InFlight(session) \union Carried(session) \union session.turn.inputs
  BY DEF NothingStranded
<1>1. Placed(session, {}, i)
  BY SessionIs DEF Base, NoneLost
<1>2. CASE i \in ToSet(session.held) \/ i \in ToSet(session.front) \/ i \in ToSet(session.given) \/ i \in session.request
  BY <1>2 DEF InFlight
<1>3. CASE Writes(Entries(session, {}), i)
  BY <1>3, InvWrites
<1>4. CASE Carries(Entries(session, {}), i)
  <2> DEFINE S == Sends(Known(session)) \union Ends(Known(session))
  <2>1. PICK r \in Entries(session, {}) : r.kind = "retire" /\ i \in ToSet(r.carry)
    BY <1>4 DEF Carries
  <2>2. session.waiting \in Seq(Sends(Known(session)) \union Plain(Known(session))) /\ session.closing \in Seq(Ends(Known(session)))
        /\ session.outbox = <<>>
    BY SessionIs DEF QueuesTyped
  <2>3. ToSet(session.waiting) \subseteq S /\ ToSet(session.closing) \subseteq S
    BY <2>2, SetOf DEF Plain
  <2> HIDE DEF S
  <2>4. session.waiting \in Seq(S) /\ session.closing \in Seq(S)
    BY <2>2, <2>3, SetOf
  <2>5. ToSet(session.closing \o session.waiting) = ToSet(session.closing) \union ToSet(session.waiting)
    BY <2>4, SetOfConcat
  <2>6. r \in ToSet(session.closing \o session.waiting)
    BY <2>1, <2>2, <2>5, SetOfNone DEF Entries
  <2>7. i \in Carried(session)
    BY <2>1, <2>6 DEF Carried
  <2> QED BY <2>7
<1> QED BY <1>1, <1>2, <1>3, <1>4 DEF Placed

LEMMA InvReturns == SessionInv => CallsReturn
<1> SUFFICES ASSUME SessionInv, session.lock # None
             PROVE  session.lock \in InFlight(session) \/ session.closing # <<>> \/ session.waiting # <<>>
  BY DEF CallsReturn
<1>1. LockKept(session, {}) /\ session.outbox = <<>>
  BY SessionIs
<1>2. CASE session.lock \in Input
  <2>1. session.lock \in session.request \/ Writes(Entries(session, {}), session.lock)
    BY <1>1, <1>2 DEF LockKept
  <2>2. CASE session.lock \in session.request
    BY <2>2 DEF InFlight
  <2>3. CASE Writes(Entries(session, {}), session.lock)
    BY <2>3, InvWrites
  <2> QED BY <2>1, <2>2, <2>3
<1>3. CASE session.lock = "call"
  <2>1. Unlocks(Entries(session, {}))
    BY <1>1, <1>3 DEF LockKept
  <2> QED BY <1>1, <2>1, SetOfNone DEF Unlocks, Entries
<1> QED BY <1>1, <1>2, <1>3 DEF LockKept

\* The session keeps its shape: the type invariant of the class (SessionTypeOK).
THEOREM SessionTypeCorrect == Spec => []SessionTypeOK
<1> QED BY SessionInvHolds, InvTypes, PTL

\* Whatever the host, the provider and the timers do, an open turn has a process and, until that
\* process is asked to close, an armed inactivity limit (TurnWatched).
THEOREM TurnsAreWatched == Spec => []TurnWatched
<1> QED BY SessionInvHolds, InvWatches, PTL

\* subagents.settled is never true while a sub-agent runs, in the tree or by the roster (SettledIsQuiet).
THEOREM SettledMeansQuiet == Spec => []SettledIsQuiet
<1> QED BY SessionInvHolds, InvQuiets, PTL

\* An accepted input is always held, with the provider, being written or carried over a retirement (NothingStranded).
THEOREM NoInputStranded == Spec => []NothingStranded
<1> QED BY SessionInvHolds, InvStrandsNone, PTL

\* The call that holds the session's lock always waits for something that is under way (CallsReturn).
THEOREM EveryCallReturns == Spec => []CallsReturn
<1> QED BY SessionInvHolds, InvReturns, PTL

===============================================================================
