----------------------------- MODULE ListLemmas -----------------------------
(***************************************************************************)
(* Facts about the kernel's linked lists, which the models keep as         *)
(* sequences: what a list holds after a node is unlinked (list_head_del),  *)
(* taken from the head or added at the tail.                               *)
(***************************************************************************)
EXTENDS KernelList, Integers, Sequences, FiniteSets, FiniteSetTheorems, SequenceTheorems, TLAPS

\* Unlinking a node moves the later ones up by one and loses no other.
LEMMA UnlinkedProperties ==
    ASSUME NEW S, NEW w \in Seq(S), NEW i \in 1..Len(w)
    PROVE  /\ Unlinked(w, i) \in Seq(S) /\ Len(w) \in Nat /\ Len(Unlinked(w, i)) = Len(w) - 1
           /\ \A k \in 1..Len(Unlinked(w, i)) :
                 Unlinked(w, i)[k] = IF k < i THEN w[k] ELSE w[k + 1]
  <1> DEFINE a == SubSeq(w, 1, i - 1)
             b == SubSeq(w, i + 1, Len(w))
             r == Unlinked(w, i)
  <1>1. /\ Len(w) \in Nat /\ i \in Nat \ {0} /\ i <= Len(w)
        /\ \A k \in 1..Len(w) : w[k] \in S
    OBVIOUS
  <1>2. a \in Seq(S) /\ Len(a) = i - 1 /\ \A k \in 1..i - 1 : a[k] = w[k]
    BY <1>1, SubSeqProperties
  <1>3. b \in Seq(S) /\ Len(b) = Len(w) - i /\ \A k \in 1..Len(w) - i : b[k] = w[k + i]
    BY <1>1, SubSeqProperties
  <1>4. r = a \o b
    BY DEF Unlinked
  <1> HIDE DEF a, b, r
  <1>5. /\ r \in Seq(S) /\ Len(r) = Len(a) + Len(b)
        /\ \A k \in 1..Len(a) + Len(b) : r[k] = IF k <= Len(a) THEN a[k] ELSE b[k - Len(a)]
    BY <1>2, <1>3, <1>4, ConcatProperties
  <1>6. Len(r) = Len(w) - 1
    BY <1>1, <1>2, <1>3, <1>5
  <1>7. ASSUME NEW k \in 1..Len(r)
        PROVE  r[k] = IF k < i THEN w[k] ELSE w[k + 1]
    <2>1. k \in Nat \ {0} /\ k <= Len(w) - 1 /\ k \in 1..Len(a) + Len(b)
      BY <1>1, <1>5, <1>6
    <2>2. CASE k < i
      <3>1. k <= i - 1 /\ k \in 1..i - 1
        BY <1>1, <2>1, <2>2
      <3> QED
        BY <1>2, <1>5, <2>1, <2>2, <3>1
    <2>3. CASE ~(k < i)
      <3>1. ~(k <= i - 1) /\ k - (i - 1) \in 1..Len(w) - i /\ (k - (i - 1)) + i = k + 1
        BY <1>1, <2>1, <2>3
      <3>2. r[k] = b[k - (i - 1)]
        BY <1>2, <1>5, <2>1, <3>1
      <3>3. b[k - (i - 1)] = w[(k - (i - 1)) + i]
        BY <1>3, <3>1
      <3> QED
        BY <2>3, <3>1, <3>2, <3>3
    <2> QED
      BY <2>2, <2>3
  <1> QED
    BY <1>1, <1>5, <1>6, <1>7 DEF r

\* A list without repeats that loses a node holds all the others, once.
LEMMA UnlinkedElems ==
    ASSUME NEW S, NEW w \in Seq(S), NEW i \in 1..Len(w), NoRepeats(w)
    PROVE  NoRepeats(Unlinked(w, i)) /\ Elems(Unlinked(w, i)) = Elems(w) \ {w[i]}
  <1> DEFINE r == Unlinked(w, i)
  <1>1. /\ Len(w) \in Nat /\ Len(r) = Len(w) - 1 /\ i \in Nat /\ 1 <= i /\ i <= Len(w)
        /\ \A k \in 1..Len(r) : r[k] = IF k < i THEN w[k] ELSE w[k + 1]
    BY UnlinkedProperties
  <1> HIDE DEF r
  <1> DEFINE at(k) == IF k < i THEN k ELSE k + 1
  <1>2. \A k \in 1..Len(r) : at(k) \in 1..Len(w) /\ at(k) # i /\ r[k] = w[at(k)]
    BY <1>1
  <1>3. \A k \in 1..Len(w) : k # i => \E j \in 1..Len(r) : at(j) = k
    <2> SUFFICES ASSUME NEW k \in 1..Len(w), k # i
                 PROVE  \E j \in 1..Len(r) : at(j) = k
      OBVIOUS
    <2>1. CASE k < i
      BY <1>1, <2>1
    <2>2. CASE ~(k < i)
      <3>1. k - 1 \in 1..Len(r) /\ at(k - 1) = k
        BY <1>1, <2>2
      <3> QED
        BY <3>1
    <2> QED
      BY <2>1, <2>2
  <1>4. \A j, k \in 1..Len(r) : at(j) = at(k) => j = k
    BY <1>1
  <1> HIDE DEF at
  <1>5. NoRepeats(r)
    BY <1>2, <1>4 DEF NoRepeats
  <1>6. Elems(r) \subseteq Elems(w) \ {w[i]}
    BY <1>2 DEF Elems, NoRepeats
  <1>7. Elems(w) \ {w[i]} \subseteq Elems(r)
    BY <1>2, <1>3 DEF Elems
  <1> QED
    BY <1>5, <1>6, <1>7 DEF r

\* Without takes exactly t off a list.
LEMMA WithoutProperties ==
    ASSUME NEW S, NEW w \in Seq(S), NEW t
    PROVE  /\ Without(w, t) \in Seq(S)
           /\ NoRepeats(w) => /\ NoRepeats(Without(w, t)) /\ Elems(Without(w, t)) = Elems(w) \ {t}
           /\ Len(w) \in Nat /\ Len(Without(w, t)) \in Nat /\ Len(Without(w, t)) <= Len(w)
           /\ t \in Elems(w) => Len(Without(w, t)) = Len(w) - 1
  <1>0. Len(w) \in Nat
    OBVIOUS
  <1>1. CASE \E i \in 1..Len(w) : w[i] = t
    <2> DEFINE i == CHOOSE i \in 1..Len(w) : w[i] = t
    <2>1. i \in 1..Len(w) /\ w[i] = t
      BY <1>1
    <2> HIDE DEF i
    <2>2. Without(w, t) = Unlinked(w, i)
      BY <1>1 DEF Without, i
    <2>3. /\ Unlinked(w, i) \in Seq(S) /\ Len(Unlinked(w, i)) = Len(w) - 1
          /\ NoRepeats(w) => NoRepeats(Unlinked(w, i)) /\ Elems(Unlinked(w, i)) = Elems(w) \ {w[i]}
      BY <2>1, UnlinkedProperties, UnlinkedElems
    <2> QED
      BY <1>0, <2>1, <2>2, <2>3
  <1>2. CASE ~ \E i \in 1..Len(w) : w[i] = t
    BY <1>0, <1>2 DEF Without, Elems
  <1> QED
    BY <1>1, <1>2

\* A node added at the tail.
LEMMA AppendedElems ==
    ASSUME NEW S, NEW w \in Seq(S), NEW x \in S
    PROVE  /\ Append(w, x) \in Seq(S) /\ Len(Append(w, x)) = Len(w) + 1
           /\ Elems(Append(w, x)) = Elems(w) \cup {x}
           /\ NoRepeats(w) /\ x \notin Elems(w) => NoRepeats(Append(w, x))
  <1> DEFINE r == Append(w, x)
  <1>1. /\ r \in Seq(S) /\ Len(w) \in Nat /\ Len(r) = Len(w) + 1 /\ r[Len(w) + 1] = x
        /\ \A k \in 1..Len(w) : r[k] = w[k]
    BY AppendProperties
  <1> HIDE DEF r
  <1>2. \A k \in 1..Len(r) : k = Len(w) + 1 \/ k \in 1..Len(w)
    BY <1>1
  <1>3. 1..Len(w) \subseteq 1..Len(r) /\ Len(w) + 1 \in 1..Len(r)
    BY <1>1
  <1>4. Elems(r) = Elems(w) \cup {x}
    BY <1>1, <1>2, <1>3 DEF Elems
  <1>5. ASSUME NoRepeats(w), x \notin Elems(w) PROVE NoRepeats(r)
    BY <1>1, <1>2, <1>5 DEF NoRepeats, Elems
  <1> QED
    BY <1>1, <1>4, <1>5 DEF r

\* The head taken off.
LEMMA TailElems ==
    ASSUME NEW S, NEW w \in Seq(S), w # << >>
    PROVE  /\ Head(w) \in S /\ Head(w) \in Elems(w) /\ Head(w) = w[1] /\ 1 \in 1..Len(w)
           /\ Tail(w) \in Seq(S) /\ Len(w) \in Nat /\ Len(Tail(w)) = Len(w) - 1
           /\ Elems(Tail(w)) \subseteq Elems(w) /\ Elems(w) \subseteq Elems(Tail(w)) \cup {Head(w)}
           /\ NoRepeats(w) => NoRepeats(Tail(w)) /\ Elems(Tail(w)) = Elems(w) \ {Head(w)}
  <1> DEFINE r == Tail(w)
  <1>1. /\ r \in Seq(S) /\ Len(w) \in Nat /\ Len(w) >= 1 /\ Len(r) = Len(w) - 1 /\ Head(w) = w[1]
        /\ \A k \in 1..Len(r) : r[k] = w[k + 1]
    BY HeadTailProperties, EmptySeq
  <1> HIDE DEF r
  <1>2. 1 \in 1..Len(w) /\ \A k \in 1..Len(r) : k + 1 \in 1..Len(w) /\ k + 1 # 1
    BY <1>1
  <1>3. \A k \in 1..Len(w) : k = 1 \/ (k - 1 \in 1..Len(r) /\ r[k - 1] = w[k])
    BY <1>1
  <1>4. Elems(r) \subseteq Elems(w) /\ Elems(w) \subseteq Elems(r) \cup {w[1]}
    BY <1>1, <1>2, <1>3 DEF Elems
  <1>5. ASSUME NoRepeats(w) PROVE NoRepeats(r) /\ w[1] \notin Elems(r)
    BY <1>1, <1>2, <1>5 DEF NoRepeats, Elems
  <1>6. w[1] \in Elems(w) /\ w[1] \in S
    BY <1>2 DEF Elems
  <1> QED
    BY <1>1, <1>2, <1>4, <1>5, <1>6 DEF r

\* A list without repeats is as long as the set of what it holds.
LEMMA LengthIsCardinality ==
    ASSUME NEW S, NEW w \in Seq(S), NoRepeats(w)
    PROVE  IsFiniteSet(Elems(w)) /\ Cardinality(Elems(w)) = Len(w)
  <1>1. Len(w) \in Nat /\ w \in [1..Len(w) -> S]
    OBVIOUS
  <1>2. IsFiniteSet(1..Len(w)) /\ Cardinality(1..Len(w)) = Len(w)
    BY <1>1, FS_Interval
  <1> DEFINE g == [k \in 1..Len(w) |-> w[k]]
  <1>3. g \in Surjection(1..Len(w), Elems(w)) /\ g \in Injection(1..Len(w), Elems(w))
    BY DEF Surjection, Injection, IsInjective, Elems, NoRepeats
  <1> HIDE DEF g
  <1> QED
    BY <1>2, <1>3, FS_Surjection

\* What is on a list of members of S is a member of S.
LEMMA ElemsInside ==
    ASSUME NEW S, NEW w \in Seq(S)
    PROVE  Elems(w) \subseteq S
  BY DEF Elems
=============================================================================
