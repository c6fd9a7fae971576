--------------------------- MODULE SequenceLemmas ---------------------------
(***************************************************************************)
(* What Append, Head, Tail and \o do to the range of a sequence, and the   *)
(* number of times an element occurs in it: lemmas on queues of functors   *)
(* and of messages that several components' proofs use.                    *)
(***************************************************************************)
EXTENDS SequenceTheorems, FiniteSetTheorems, TLAPS

\* Append adds one element to the range.
LEMMA RangeOfAppend ==
  ASSUME NEW S, NEW seq \in Seq(S), NEW elt \in S
  PROVE  Range(Append(seq, elt)) = Range(seq) \cup {elt}
  <1> DEFINE longer == Append(seq, elt)
  <1>1. /\ longer \in Seq(S)
        /\ Len(longer) = Len(seq) + 1
        /\ \A i \in 1 .. Len(seq) : longer[i] = seq[i]
        /\ longer[Len(seq) + 1] = elt
    BY AppendProperties
  <1>2. /\ DOMAIN longer = 1 .. Len(longer)
        /\ DOMAIN seq = 1 .. Len(seq)
        /\ Len(seq) \in Nat
    BY <1>1, LenProperties
  <1> HIDE DEF longer
  <1>3. DOMAIN longer = (1 .. Len(seq)) \cup {Len(seq) + 1}
    BY <1>1, <1>2
  <1>4. Range(longer) = Range(seq) \cup {elt}
    BY <1>1, <1>2, <1>3 DEF Range
  <1>5. QED
    BY <1>4 DEF longer

\* The head and the rest make up the range.
LEMMA RangeOfHeadTail ==
  ASSUME NEW S, NEW seq \in Seq(S), seq # << >>
  PROVE  Range(seq) = {Head(seq)} \cup Range(Tail(seq))
  <1> DEFINE rest == Tail(seq)
  <1>1. /\ rest \in Seq(S)
        /\ Len(rest) = Len(seq) - 1
        /\ \A i \in 1 .. Len(rest) : rest[i] = seq[i + 1]
    BY HeadTailProperties
  <1>2. /\ DOMAIN rest = 1 .. Len(rest)
        /\ DOMAIN seq = 1 .. Len(seq)
        /\ Len(seq) \in Nat \ {0}
    BY <1>1, LenProperties, EmptySeq
  <1>3. Head(seq) = seq[1]
    OBVIOUS
  <1> HIDE DEF rest
  <1>4. Range(seq) \subseteq {Head(seq)} \cup Range(rest)
    <2> SUFFICES ASSUME NEW i \in 1 .. Len(seq), i # 1
                 PROVE  seq[i] \in Range(rest)
      BY <1>2, <1>3 DEF Range
    <2>1. i - 1 \in 1 .. Len(rest) /\ (i - 1) + 1 = i
      BY <1>1, <1>2
    <2>2. QED
      BY <1>1, <1>2, <2>1 DEF Range
  <1>5. {Head(seq)} \cup Range(rest) \subseteq Range(seq)
    <2>1. \A i \in 1 .. Len(rest) : i + 1 \in 1 .. Len(seq)
      BY <1>1, <1>2
    <2>2. 1 \in 1 .. Len(seq)
      BY <1>2
    <2>3. QED
      BY <1>1, <1>2, <1>3, <2>1, <2>2 DEF Range
  <1>6. QED
    BY <1>4, <1>5 DEF rest

\* What is in either of two sequences is in the two put together.
LEMMA RangeOfConcat ==
  ASSUME NEW S, NEW s \in Seq(S), NEW t \in Seq(S)
  PROVE  Range(s) \cup Range(t) \subseteq Range(s \o t)
  <1> DEFINE both == s \o t
  <1>1. /\ both \in Seq(S)
        /\ Len(both) = Len(s) + Len(t)
        /\ \A i \in 1 .. Len(s) + Len(t) :
             both[i] = IF i <= Len(s) THEN s[i] ELSE t[i - Len(s)]
    BY ConcatProperties
  <1>2. /\ DOMAIN both = 1 .. Len(s) + Len(t)
        /\ DOMAIN s = 1 .. Len(s)
        /\ DOMAIN t = 1 .. Len(t)
        /\ Len(s) \in Nat /\ Len(t) \in Nat
    BY <1>1, LenProperties
  <1> HIDE DEF both
  <1>3. ASSUME NEW i \in DOMAIN s
        PROVE  i \in DOMAIN both /\ both[i] = s[i]
    BY <1>1, <1>2
  <1>4. ASSUME NEW i \in DOMAIN t
        PROVE  Len(s) + i \in DOMAIN both /\ both[Len(s) + i] = t[i]
    <2>1. Len(s) + i \in 1 .. Len(s) + Len(t) /\ ~ (Len(s) + i <= Len(s))
      BY <1>2
    <2>2. (Len(s) + i) - Len(s) = i
      BY <1>2
    <2>3. QED
      BY <1>1, <1>2, <2>1, <2>2
  <1>5. Range(s) \cup Range(t) \subseteq Range(both)
    BY <1>3, <1>4 DEF Range
  <1>6. QED
    BY <1>5 DEF both

\* Where an element occurs in a sequence.
Occurrences(seq, elt) == {i \in DOMAIN seq : seq[i] = elt}

\* An element occurs a finite number of times.
LEMMA OccurrencesFinite ==
  ASSUME NEW S, NEW seq \in Seq(S), NEW elt
  PROVE  /\ IsFiniteSet(Occurrences(seq, elt))
         /\ Cardinality(Occurrences(seq, elt)) \in Nat
  <1>1. DOMAIN seq = 1 .. Len(seq) /\ Len(seq) \in Nat
    BY LenProperties
  <1>2. IsFiniteSet(DOMAIN seq)
    BY <1>1, FS_Interval
  <1>3. Occurrences(seq, elt) \in SUBSET DOMAIN seq
    BY DEF Occurrences
  <1>4. QED
    BY <1>2, <1>3, FS_Subset, FS_CardinalityType

\* Append adds an occurrence of its element, and no other.
LEMMA OccurrencesAppend ==
  ASSUME NEW S, NEW seq \in Seq(S), NEW new \in S, NEW elt
  PROVE  Cardinality(Occurrences(Append(seq, new), elt))
           = Cardinality(Occurrences(seq, elt))
               + (IF new = elt THEN 1 ELSE 0)
  <1>1. /\ DOMAIN Append(seq, new) = (1 .. Len(seq)) \cup {Len(seq) + 1}
        /\ DOMAIN seq = 1 .. Len(seq)
        /\ Len(seq) \in Nat
        /\ \A i \in 1 .. Len(seq) : Append(seq, new)[i] = seq[i]
        /\ Append(seq, new)[Len(seq) + 1] = new
    BY AppendProperties, LenProperties
  <1>2. Len(seq) + 1 \notin Occurrences(seq, elt)
    BY <1>1 DEF Occurrences
  <1>3. Occurrences(Append(seq, new), elt)
          = IF new = elt THEN Occurrences(seq, elt) \cup {Len(seq) + 1}
                         ELSE Occurrences(seq, elt)
    BY <1>1 DEF Occurrences
  <1>4. /\ IsFiniteSet(Occurrences(seq, elt))
        /\ Cardinality(Occurrences(seq, elt)) \in Nat
    BY OccurrencesFinite
  <1>5. Cardinality(Occurrences(seq, elt) \cup {Len(seq) + 1})
          = Cardinality(Occurrences(seq, elt)) + 1
    BY <1>2, <1>4, FS_AddElement
  <1>6. CASE new = elt
    BY <1>3, <1>5, <1>6, Zenon
  <1>7. CASE new # elt
    <2>1. Occurrences(Append(seq, new), elt) = Occurrences(seq, elt)
      BY <1>3, <1>7
    <2>2. QED
      BY <1>4, <1>7, <2>1
  <1>8. QED
    BY <1>6, <1>7

\* Tail takes away the occurrence at the head.
LEMMA OccurrencesTail ==
  ASSUME NEW S, NEW seq \in Seq(S), seq # << >>, NEW elt
  PROVE  Cardinality(Occurrences(seq, elt))
           = Cardinality(Occurrences(Tail(seq), elt))
               + (IF Head(seq) = elt THEN 1 ELSE 0)
  <1> DEFINE rest == Tail(seq)
             Before == Occurrences(rest, elt)
             After == Occurrences(seq, elt) \ {1}
             next == [i \in Before |-> i + 1]
  <1>1. /\ rest \in Seq(S)
        /\ DOMAIN rest = 1 .. Len(seq) - 1
        /\ DOMAIN seq = 1 .. Len(seq)
        /\ Len(seq) \in Nat \ {0}
        /\ \A i \in 1 .. Len(seq) - 1 : rest[i] = seq[i + 1]
        /\ Head(seq) = seq[1]
    BY HeadTailProperties, LenProperties, EmptySeq
  <1> HIDE DEF rest
  <1>2. next \in Bijection(Before, After)
    <2>1. ASSUME NEW i \in Before PROVE i \in Int /\ i + 1 \in After
      BY <1>1 DEF Occurrences
    <2>2. next \in [Before -> After]
      BY <2>1
    <2>3. \A i, j \in Before : next[i] = next[j] => i = j
      BY <2>1
    <2>4. ASSUME NEW k \in After PROVE \E i \in Before : next[i] = k
      <3>1. k - 1 \in 1 .. Len(seq) - 1 /\ (k - 1) + 1 = k /\ seq[k] = elt
        BY <1>1 DEF Occurrences
      <3>2. k - 1 \in Before
        BY <1>1, <3>1 DEF Occurrences
      <3>3. QED
        BY <3>1, <3>2
    <2> HIDE DEF Before, After, next
    <2>5. next \in Injection(Before, After)
      BY <2>2, <2>3 DEF Injection, IsInjective
    <2>6. next \in Surjection(Before, After)
      BY <2>2, <2>4 DEF Surjection
    <2>7. QED
      BY <2>5, <2>6 DEF Bijection
  <1>3. IsFiniteSet(Before) /\ IsFiniteSet(Occurrences(seq, elt))
    BY <1>1, OccurrencesFinite
  <1>4. Cardinality(After) = Cardinality(Before)
    BY <1>2, <1>3, FS_Bijection DEF ExistsBijection
  <1>5. /\ Cardinality(After)
             = IF 1 \in Occurrences(seq, elt)
               THEN Cardinality(Occurrences(seq, elt)) - 1
               ELSE Cardinality(Occurrences(seq, elt))
        /\ Cardinality(Occurrences(seq, elt)) \in Nat
    BY <1>3, FS_RemoveElement, OccurrencesFinite
  <1>6. 1 \in Occurrences(seq, elt) <=> Head(seq) = elt
    BY <1>1 DEF Occurrences
  <1>7. QED
    BY <1>4, <1>5, <1>6 DEF rest
=============================================================================
