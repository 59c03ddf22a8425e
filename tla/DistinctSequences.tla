------------------------- MODULE DistinctSequences -------------------------
(***************************************************************************)
(* Lemmas about sequences without repetition: what the operations on a     *)
(* queue or a window return, and which elements they leave.                *)
(***************************************************************************)
EXTENDS Integers, Sequences, SequencesExt, SequenceTheorems, TLAPS

Distinct(s) == \A i, j \in 1 .. Len(s) : s[i] = s[j] => i = j

\* The elements of a sequence are what its places hold.
LEMMA Members ==
    ASSUME NEW R, NEW s \in Seq(R), NEW x
    PROVE  x \in ToSet(s) <=> \E i \in 1 .. Len(s) : s[i] = x
<1>1. DOMAIN s = 1 .. Len(s)
  OBVIOUS
<1> QED BY <1>1, Zenon DEF ToSet


\* ToSet and Distinct of the sequences the actions build: nothing.
LEMMA NoMembers ==
    ASSUME NEW R
    PROVE  /\ <<>> \in Seq(R)
           /\ Distinct(<<>>)
           /\ ToSet(<<>>) = {}
<1>1. <<>> \in Seq(R) /\ Len(<<>>) = 0
  BY EmptySeq
<1>2. 1 .. Len(<<>>) = {}
  BY <1>1
<1>3. Distinct(<<>>)
  BY <1>2 DEF Distinct
<1>4. ToSet(<<>>) = {}
  BY <1>1, <1>2, Members
<1> QED BY <1>1, <1>3, <1>4

\* A request joins the end of a queue or window it is not in.
LEMMA Joining ==
    ASSUME NEW R, NEW s \in Seq(R), NEW r \in R, Distinct(s), r \notin ToSet(s)
    PROVE  /\ Append(s, r) \in Seq(R)
           /\ Distinct(Append(s, r))
           /\ ToSet(Append(s, r)) = ToSet(s) \cup {r}
<1>1. /\ Append(s, r) \in Seq(R)
      /\ Len(Append(s, r)) = Len(s) + 1
      /\ \A i \in 1 .. Len(s) : Append(s, r)[i] = s[i]
      /\ Append(s, r)[Len(s) + 1] = r
  OBVIOUS
<1>2. Distinct(Append(s, r))
  BY <1>1 DEF Distinct, ToSet
<1>3. ToSet(Append(s, r)) = ToSet(s) \cup {r}
  BY <1>1 DEF ToSet
<1> QED BY <1>1, <1>2, <1>3

\* The oldest request leaves.
LEMMA HeadLeaves ==
    ASSUME NEW R, NEW s \in Seq(R), s # <<>>, Distinct(s)
    PROVE  /\ Tail(s) \in Seq(R)
           /\ Distinct(Tail(s))
           /\ Head(s) \in ToSet(s)
           /\ Head(s) \in R
           /\ ToSet(Tail(s)) = ToSet(s) \ {Head(s)}
<1>1. /\ Tail(s) \in Seq(R)
      /\ Len(s) \in Nat \ {0}
      /\ Len(Tail(s)) = Len(s) - 1
      /\ \A i \in 1 .. Len(s) - 1 : Tail(s)[i] = s[i + 1]
      /\ Head(s) = s[1]
  OBVIOUS
<1>2. Distinct(Tail(s))
  BY <1>1 DEF Distinct
<1>3. Head(s) \in ToSet(s) /\ Head(s) \in R
  BY <1>1 DEF ToSet
<1>4. ASSUME NEW x \in ToSet(s), x # Head(s)
      PROVE  x \in ToSet(Tail(s))
  <2>1. PICK i \in 1 .. Len(s) : x = s[i]
    BY Members
  <2>2. i - 1 \in 1 .. Len(s) - 1 /\ Tail(s)[i - 1] = s[i]
    BY <2>1, <1>1, <1>4
  <2> QED BY <2>1, <2>2, <1>1, Members
<1>5. ASSUME NEW x \in ToSet(Tail(s))
      PROVE  x \in ToSet(s) /\ x # Head(s)
  BY <1>1 DEF ToSet, Distinct
<1> QED BY <1>1, <1>2, <1>3, <1>4, <1>5

\* Who leaves from behind the first leaves the first in place.
LEMMA HeadStays ==
    ASSUME NEW R, NEW s \in Seq(R), NEW i \in 1 .. Len(s), i # 1
    PROVE  RemoveAt(s, i) # <<>> /\ Head(RemoveAt(s, i)) = Head(s)
<1> DEFINE a == SubSeq(s, 1, i - 1)
           b == SubSeq(s, i + 1, Len(s))
<1>1. a \in Seq(R) /\ Len(a) = i - 1 /\ \A j \in 1 .. i - 1 : a[j] = s[j]
  OBVIOUS
<1>2. b \in Seq(R) /\ Len(b) \in Nat
  OBVIOUS
<1>3. RemoveAt(s, i) = a \o b
  BY DEF RemoveAt
<1>4. 1 \in 1 .. Len(a) /\ a[1] = Head(s)
  BY <1>1
<1> HIDE DEF a, b
<1>5. a \o b \in Seq(R) /\ Len(a \o b) = Len(a) + Len(b) /\ (a \o b)[1] = a[1] /\ Len(a) \in Nat \ {0}
  <2>1. /\ Len(a \o b) = Len(a) + Len(b)
        /\ \A j \in 1 .. Len(a) + Len(b) : (a \o b)[j] = IF j <= Len(a) THEN a[j] ELSE b[j - Len(a)]
    BY <1>1, <1>2, ConcatProperties
  <2>2. Len(a) \in Nat \ {0} /\ 1 \in 1 .. Len(a) + Len(b) /\ 1 <= Len(a)
    BY <1>1, <1>2, <1>4
  <2> QED
    BY <1>1, <1>2, <2>1, <2>2
<1> QED
  BY <1>2, <1>3, <1>4, <1>5

\* A request leaves from the middle.
LEMMA OneLeaves ==
    ASSUME NEW R, NEW s \in Seq(R), NEW i \in 1 .. Len(s), Distinct(s)
    PROVE  /\ RemoveAt(s, i) \in Seq(R)
           /\ Distinct(RemoveAt(s, i))
           /\ ToSet(RemoveAt(s, i)) = ToSet(s) \ {s[i]}
<1>1. /\ RemoveAt(s, i) \in Seq(R)
      /\ Len(RemoveAt(s, i)) = Len(s) - 1
      /\ \A j \in 1 .. Len(s) - 1 : RemoveAt(s, i)[j] = IF j < i THEN s[j] ELSE s[j + 1]
  <2> DEFINE a == SubSeq(s, 1, i - 1)
             b == SubSeq(s, i + 1, Len(s))
  <2>1. /\ a \in Seq(R) /\ Len(a) = i - 1
        /\ \A j \in 1 .. i - 1 : a[j] = s[j]
    OBVIOUS
  <2>2. /\ b \in Seq(R) /\ Len(b) = Len(s) - i
        /\ \A j \in 1 .. Len(s) - i : b[j] = s[j + i]
    OBVIOUS
  <2>3. RemoveAt(s, i) = a \o b
    BY DEF RemoveAt
  <2> HIDE DEF a, b
  <2>4. /\ a \o b \in Seq(R)
        /\ Len(a \o b) = Len(s) - 1
        /\ \A j \in 1 .. Len(s) - 1 : (a \o b)[j] = IF j < i THEN a[j] ELSE b[j - i + 1]
    <3>1. /\ a \o b \in Seq(R)
          /\ Len(a \o b) = Len(a) + Len(b)
          /\ \A j \in 1 .. Len(a) + Len(b) :
                (a \o b)[j] = IF j <= Len(a) THEN a[j] ELSE b[j - Len(a)]
      BY <2>1, <2>2, ConcatProperties
    <3>2. Len(a) + Len(b) = Len(s) - 1
      BY <2>1, <2>2
    <3>3. ASSUME NEW j \in 1 .. Len(s) - 1
          PROVE  (a \o b)[j] = IF j < i THEN a[j] ELSE b[j - i + 1]
      <4>1. (j <= Len(a) <=> j < i) /\ j - Len(a) = j - i + 1
        BY <2>1
      <4> QED BY <3>1, <3>2, <4>1
    <3> QED BY <3>1, <3>2, <3>3
  <2>5. ASSUME NEW j \in 1 .. Len(s) - 1
        PROVE  RemoveAt(s, i)[j] = IF j < i THEN s[j] ELSE s[j + 1]
    <3>1. CASE j < i
      BY <3>1, <2>1, <2>3, <2>4
    <3>2. CASE j >= i
      <4>1. j - i + 1 \in 1 .. Len(s) - i /\ (j - i + 1) + i = j + 1
        BY <3>2
      <4> QED BY <3>2, <4>1, <2>2, <2>3, <2>4
    <3> QED BY <3>1, <3>2
  <2> QED BY <2>3, <2>4, <2>5
<1>2. Distinct(RemoveAt(s, i))
  BY <1>1 DEF Distinct
<1>3. ASSUME NEW x \in ToSet(s), x # s[i]
      PROVE  x \in ToSet(RemoveAt(s, i))
  <2>1. PICK k \in 1 .. Len(s) : x = s[k]
    BY Members
  <2>2. CASE k < i
    BY <2>1, <2>2, <1>1, Members
  <2>3. CASE k > i
    <3>0. k - 1 \in 1 .. Len(s) - 1 /\ ~(k - 1 < i) /\ (k - 1) + 1 = k
      BY <2>3
    <3>1. k - 1 \in 1 .. Len(s) - 1 /\ RemoveAt(s, i)[k - 1] = s[k]
      BY <3>0, <1>1
    <3> QED BY <3>1, <2>1, <1>1, Members
  <2> QED BY <2>1, <2>2, <2>3, <1>3
<1>4. ASSUME NEW x \in ToSet(RemoveAt(s, i))
      PROVE  x \in ToSet(s) /\ x # s[i]
  BY <1>1 DEF ToSet, Distinct
<1> QED BY <1>1, <1>2, <1>3, <1>4

\* The first n requests leave together.
LEMMA PrefixLeaves ==
    ASSUME NEW R, NEW s \in Seq(R), NEW n \in 1 .. Len(s), Distinct(s)
    PROVE  /\ SubSeq(s, 1, n) \in Seq(R)
           /\ SubSeq(s, n + 1, Len(s)) \in Seq(R)
           /\ Distinct(SubSeq(s, n + 1, Len(s)))
           /\ s[n] \in ToSet(SubSeq(s, 1, n))
           /\ ToSet(SubSeq(s, 1, n)) \subseteq ToSet(s)
           /\ ToSet(SubSeq(s, n + 1, Len(s))) = ToSet(s) \ ToSet(SubSeq(s, 1, n))
<1> DEFINE p == SubSeq(s, 1, n)
           q == SubSeq(s, n + 1, Len(s))
<1>1. p \in Seq(R) /\ Len(p) = n /\ \A j \in 1 .. n : p[j] = s[j]
  OBVIOUS
<1>2. q \in Seq(R) /\ Len(q) = Len(s) - n /\ \A j \in 1 .. Len(s) - n : q[j] = s[j + n]
  OBVIOUS
<1> HIDE DEF p, q
<1>3. ASSUME NEW x
      PROVE  /\ x \in ToSet(p) <=> \E j \in 1 .. n : s[j] = x
             /\ x \in ToSet(q) <=> \E j \in 1 .. Len(s) - n : s[j + n] = x
             /\ x \in ToSet(s) <=> \E j \in 1 .. Len(s) : s[j] = x
  <2>1. x \in ToSet(p) <=> \E j \in 1 .. Len(p) : p[j] = x
    BY <1>1, Members
  <2>2. x \in ToSet(q) <=> \E j \in 1 .. Len(q) : q[j] = x
    BY <1>2, Members
  <2>3. x \in ToSet(s) <=> \E j \in 1 .. Len(s) : s[j] = x
    BY Members
  <2> QED BY <2>1, <2>2, <2>3, <1>1, <1>2
<1>4. Distinct(q)
  <2> SUFFICES ASSUME NEW i \in 1 .. Len(q), NEW j \in 1 .. Len(q), q[i] = q[j]
               PROVE  i = j
    BY DEF Distinct
  <2>1. /\ i + n \in 1 .. Len(s) /\ j + n \in 1 .. Len(s)
        /\ s[i + n] = s[j + n]
    BY <1>2
  <2>2. i + n = j + n
    BY <2>1 DEF Distinct
  <2> QED BY <2>2, <1>2
<1>5. s[n] \in ToSet(p) /\ ToSet(p) \subseteq ToSet(s)
  BY <1>3
<1>6. ASSUME NEW x \in ToSet(q)
      PROVE  x \in ToSet(s) /\ x \notin ToSet(p)
  <2>1. PICK j \in 1 .. Len(s) - n : x = s[j + n]
    BY <1>3
  <2>2. j + n \in 1 .. Len(s) /\ \A k \in 1 .. n : k # j + n
    OBVIOUS
  <2>3. \A k \in 1 .. n : s[k] # s[j + n]
    BY <2>2 DEF Distinct
  <2> QED BY <1>3, <2>1, <2>2, <2>3
<1>7. ASSUME NEW x \in ToSet(s), x \notin ToSet(p)
      PROVE  x \in ToSet(q)
  <2>1. PICK k \in 1 .. Len(s) : x = s[k]
    BY <1>3
  <2>2. k > n
    BY <1>3, <1>7, <2>1
  <2>3. k - n \in 1 .. Len(s) - n /\ (k - n) + n = k
    BY <2>2
  <2> QED BY <1>3, <2>1, <2>3
<1> QED BY <1>1, <1>2, <1>4, <1>5, <1>6, <1>7 DEF p, q

\* What joins the end of a sequence, whatever was in it.
LEMMA AppendMembers ==
    ASSUME NEW R, NEW s \in Seq(R), NEW r \in R
    PROVE  ToSet(Append(s, r)) = ToSet(s) \cup {r} /\ Append(s, r) # <<>>
<1>1. /\ Append(s, r) \in Seq(R) /\ Len(Append(s, r)) = Len(s) + 1
      /\ Append(s, r)[Len(s) + 1] = r
      /\ \A i \in 1 .. Len(s) : Append(s, r)[i] = s[i]
  OBVIOUS
<1>2. ASSUME NEW x
      PROVE  x \in ToSet(Append(s, r)) <=> x \in ToSet(s) \/ x = r
  <2>1. x \in ToSet(s) <=> \E i \in 1 .. Len(s) : s[i] = x
    BY Members
  <2>2. x \in ToSet(Append(s, r)) <=> \E i \in 1 .. Len(Append(s, r)) : Append(s, r)[i] = x
    BY <1>1, Members
  <2>3. Len(s) \in Nat
    OBVIOUS
  <2> QED
    BY <1>1, <2>1, <2>2, <2>3
<1>3. Len(<<>>) = 0 /\ Len(s) \in Nat
  OBVIOUS
<1>4. Append(s, r) # <<>>
  BY <1>1, <1>3
<1> QED
  BY <1>2, <1>4

\* An element goes before a sequence it is not in.
LEMMA Leading ==
    ASSUME NEW R, NEW s \in Seq(R), NEW r \in R, Distinct(s), r \notin ToSet(s)
    PROVE  /\ <<r>> \o s \in Seq(R) /\ <<r>> \o s # <<>>
           /\ Head(<<r>> \o s) = r
           /\ Distinct(<<r>> \o s)
           /\ ToSet(<<r>> \o s) = ToSet(s) \cup {r}
<1> DEFINE q == <<r>> \o s
<1>1. /\ q \in Seq(R) /\ Len(q) = Len(s) + 1 /\ Len(s) \in Nat
      /\ q[1] = r
      /\ \A i \in 1 .. Len(s) : q[i + 1] = s[i]
  OBVIOUS
<1> HIDE DEF q
<1>2. q # <<>> /\ Head(q) = r
  <2>1. Len(q) # 0
    BY <1>1
  <2>2. q # <<>>
    BY <2>1, EmptySeq
  <2> QED
    BY <1>1, <2>2
<1>3. \A i \in 1 .. Len(q) : i = 1 \/ (i - 1 \in 1 .. Len(s) /\ q[i] = s[i - 1])
  <2> SUFFICES ASSUME NEW i \in 1 .. Len(q), i # 1
               PROVE  i - 1 \in 1 .. Len(s) /\ q[i] = s[i - 1]
    OBVIOUS
  <2>1. i - 1 \in 1 .. Len(s) /\ (i - 1) + 1 = i
    BY <1>1
  <2> QED
    BY <1>1, <2>1
<1>4. \A i \in 1 .. Len(s) : s[i] # r
  BY Members
<1>5. Distinct(q)
  <2> SUFFICES ASSUME NEW i \in 1 .. Len(q), NEW j \in 1 .. Len(q), q[i] = q[j]
               PROVE  i = j
    BY DEF Distinct
  <2>1. CASE i = 1 \/ j = 1
    BY <1>1, <1>3, <1>4, <2>1
  <2>2. CASE i # 1 /\ j # 1
    <3>1. i - 1 \in 1 .. Len(s) /\ j - 1 \in 1 .. Len(s) /\ s[i - 1] = s[j - 1]
      BY <1>3, <2>2
    <3>2. i - 1 = j - 1
      BY <3>1 DEF Distinct
    <3> QED
      BY <3>2, <1>1
  <2> QED
    BY <2>1, <2>2
<1>6. ASSUME NEW x
      PROVE  x \in ToSet(q) <=> x \in ToSet(s) \/ x = r
  <2>1. x \in ToSet(s) <=> \E i \in 1 .. Len(s) : s[i] = x
    BY Members
  <2>2. x \in ToSet(q) <=> \E i \in 1 .. Len(q) : q[i] = x
    BY <1>1, Members
  <2>3. 1 \in 1 .. Len(q) /\ \A i \in 1 .. Len(s) : i + 1 \in 1 .. Len(q)
    BY <1>1
  <2> QED
    BY <1>1, <1>3, <2>1, <2>2, <2>3
<1> QED
  BY <1>1, <1>2, <1>5, <1>6 DEF q
=============================================================================
