------------------------------ MODULE QueueLemmas -----------------------------
(***************************************************************************)
(* What the operations of a queue do to the set of its elements and to the *)
(* fact that none is in it twice.  The proofs about the modules reason     *)
(* about Range(q) and IsInjective(q) only, and never about positions.      *)
(***************************************************************************)
EXTENDS Sequences, Integers, FiniteSets, Functions,
        SequenceTheorems, FunctionTheorems, FiniteSetTheorems, TLAPS

(* The empty queue.                                                        *)
LEMMA RangeEmpty == Range(<<>>) = {} /\ IsInjective(<<>>)
  BY DEF Range, IsInjective

(* Appending adds the element, and no duplicate when it was not there.     *)
LEMMA RangeAppend ==
  ASSUME NEW S, NEW q \in Seq(S), NEW x \in S
  PROVE  /\ Range(Append(q, x)) = Range(q) \cup {x}
         /\ IsInjective(q) /\ x \notin Range(q) => IsInjective(Append(q, x))
<1> DEFINE r == Append(q, x)
<1>1. /\ Len(q) \in Nat
      /\ DOMAIN q = 1 .. Len(q)
      /\ DOMAIN r = 1 .. Len(q) + 1
      /\ \A i \in 1 .. Len(q) : r[i] = q[i]
      /\ r[Len(q) + 1] = x
  OBVIOUS
<1> HIDE DEF r
<1>2. Range(r) = Range(q) \cup {x}
  BY <1>1 DEF Range
<1>3. ASSUME IsInjective(q), x \notin Range(q) PROVE IsInjective(r)
  BY <1>1, <1>3 DEF Range, IsInjective
<1> QED
  BY <1>2, <1>3 DEF r

(* Taking the head of a queue without duplicates leaves all the others.    *)
LEMMA RangeTail ==
  ASSUME NEW S, NEW q \in Seq(S), q # <<>>
  PROVE  /\ Range(q) = {Head(q)} \cup Range(Tail(q))
         /\ IsInjective(q) => Head(q) \notin Range(Tail(q)) /\ IsInjective(Tail(q))
<1> DEFINE r == Tail(q)
           h == Head(q)
<1>1. /\ Len(q) \in Nat /\ Len(q) > 0
      /\ DOMAIN q = 1 .. Len(q)
      /\ DOMAIN r = 1 .. Len(q) - 1
      /\ \A i \in 1 .. Len(q) - 1 : r[i] = q[i + 1]
      /\ h = q[1]
  OBVIOUS
<1> HIDE DEF r, h
<1>2. Range(q) \subseteq {h} \cup Range(r)
  <2> SUFFICES ASSUME NEW i \in 1 .. Len(q) PROVE q[i] \in {h} \cup Range(r)
    BY <1>1 DEF Range
  <2>1. CASE i = 1
    BY <1>1, <2>1
  <2>2. CASE i # 1
    <3>1. i - 1 \in 1 .. Len(q) - 1 /\ r[i - 1] = q[i]
      BY <1>1, <2>2
    <3> QED
      BY <1>1, <3>1 DEF Range
  <2> QED
    BY <2>1, <2>2
<1>3. {h} \cup Range(r) \subseteq Range(q)
  BY <1>1 DEF Range
<1>4. ASSUME IsInjective(q) PROVE h \notin Range(r) /\ IsInjective(r)
  <2>1. \A i, j \in 1 .. Len(q) : q[i] = q[j] => i = j
    BY <1>1, <1>4 DEF IsInjective
  <2>2. ASSUME NEW i \in 1 .. Len(q) - 1 PROVE r[i] # h
    <3>1. i + 1 \in 1 .. Len(q) /\ 1 \in 1 .. Len(q) /\ i + 1 # 1
      BY <1>1
    <3> QED
      BY <1>1, <2>1, <3>1
  <2>3. ASSUME NEW i \in 1 .. Len(q) - 1, NEW j \in 1 .. Len(q) - 1, r[i] = r[j]
        PROVE  i = j
    <3>1. i + 1 \in 1 .. Len(q) /\ j + 1 \in 1 .. Len(q)
      BY <1>1
    <3>2. i + 1 = j + 1
      BY <1>1, <2>1, <2>3, <3>1
    <3> QED
      BY <1>1, <3>2
  <2>4. h \notin Range(r)
    BY <1>1, <2>2 DEF Range
  <2>5. IsInjective(r)
    BY <1>1, <2>3 DEF IsInjective
  <2> QED
    BY <2>4, <2>5
<1> QED
  BY <1>2, <1>3, <1>4 DEF r, h

(* One queue behind the other holds nothing twice exactly when neither     *)
(* does and they have nothing in common.                                   *)
LEMMA RangeConcat ==
  ASSUME NEW S, NEW q \in Seq(S), NEW r \in Seq(S)
  PROVE  /\ Range(q \o r) = Range(q) \cup Range(r)
         /\ IsInjective(q \o r)
              <=> IsInjective(q) /\ IsInjective(r) /\ Range(q) \cap Range(r) = {}
<1> DEFINE c == q \o r
           m == Len(q)
           n == Len(r)
<1>1. /\ m \in Nat /\ n \in Nat
      /\ DOMAIN q = 1 .. m /\ DOMAIN r = 1 .. n
      /\ DOMAIN c = 1 .. m + n
  OBVIOUS
<1>2. \A i \in 1 .. m : c[i] = q[i]
  OBVIOUS
<1>3. \A i \in 1 .. n : c[m + i] = r[i]
  OBVIOUS
<1>4. Range(c) = Range(q) \cup Range(r)
  BY RangeConcatenation
<1> HIDE DEF c, m, n
<1>5. \A i \in 1 .. m + n : i \in 1 .. m \/ (i - m \in 1 .. n /\ i = m + (i - m))
  BY <1>1
<1>6. \A i \in 1 .. n : m + i \in 1 .. m + n /\ m + i \notin 1 .. m
  BY <1>1
<1>7. ASSUME IsInjective(c)
      PROVE  IsInjective(q) /\ IsInjective(r) /\ Range(q) \cap Range(r) = {}
  <2>1. \A i, j \in 1 .. m + n : c[i] = c[j] => i = j
    BY <1>1, <1>7 DEF IsInjective
  <2>2. IsInjective(q)
    BY <1>1, <1>2, <2>1 DEF IsInjective
  <2>3. \A i, j \in 1 .. n : m + i = m + j => i = j
    BY <1>1
  <2>4. IsInjective(r)
    BY <1>1, <1>3, <1>6, <2>1, <2>3 DEF IsInjective
  <2>5. \A i \in 1 .. m, j \in 1 .. n : q[i] # r[j]
    <3> SUFFICES ASSUME NEW i \in 1 .. m, NEW j \in 1 .. n, q[i] = r[j] PROVE FALSE
      OBVIOUS
    <3>1. i \in 1 .. m + n /\ m + j \in 1 .. m + n /\ i # m + j
      BY <1>1
    <3>2. c[i] = c[m + j]
      BY <1>2, <1>3
    <3> QED
      BY <2>1, <3>1, <3>2
  <2> QED
    BY <1>1, <2>2, <2>4, <2>5 DEF Range
<1>8. ASSUME IsInjective(q), IsInjective(r), Range(q) \cap Range(r) = {}
      PROVE  IsInjective(c)
  <2>1. \A i, j \in 1 .. m : q[i] = q[j] => i = j
    BY <1>1, <1>8 DEF IsInjective
  <2>2. \A i, j \in 1 .. n : r[i] = r[j] => i = j
    BY <1>1, <1>8 DEF IsInjective
  <2>3. \A i \in 1 .. m, j \in 1 .. n : q[i] # r[j]
    BY <1>1, <1>8 DEF Range
  <2> SUFFICES ASSUME NEW i \in 1 .. m + n, NEW j \in 1 .. m + n, c[i] = c[j] PROVE i = j
    BY <1>1 DEF IsInjective
  <2>4. CASE i \in 1 .. m /\ j \in 1 .. m
    BY <1>2, <2>1, <2>4
  <2>5. CASE i \in 1 .. m /\ j \notin 1 .. m
    <3>1. j - m \in 1 .. n /\ c[j] = r[j - m]
      BY <1>3, <1>5, <2>5
    <3> QED
      BY <1>2, <2>3, <2>5, <3>1
  <2>6. CASE i \notin 1 .. m /\ j \in 1 .. m
    <3>1. i - m \in 1 .. n /\ c[i] = r[i - m]
      BY <1>3, <1>5, <2>6
    <3> QED
      BY <1>2, <2>3, <2>6, <3>1
  <2>7. CASE i \notin 1 .. m /\ j \notin 1 .. m
    <3>1. /\ i - m \in 1 .. n /\ c[i] = r[i - m]
          /\ j - m \in 1 .. n /\ c[j] = r[j - m]
      BY <1>3, <1>5, <2>7
    <3>2. i - m = j - m
      BY <2>2, <3>1
    <3> QED
      BY <1>1, <3>2
  <2> QED
    BY <2>4, <2>5, <2>6, <2>7
<1> QED
  BY <1>4, <1>7, <1>8 DEF c

(* Removing the element at position i of a queue.                          *)
LEMMA RangeWithout ==
  ASSUME NEW S, NEW q \in Seq(S), NEW i \in DOMAIN q, IsInjective(q)
  PROVE  LET r == SubSeq(q, 1, i - 1) \o SubSeq(q, i + 1, Len(q))
         IN  r \in Seq(S) /\ IsInjective(r) /\ Range(r) = Range(q) \ {q[i]}
<1> DEFINE a == SubSeq(q, 1, i - 1)
           b == SubSeq(q, i + 1, Len(q))
           n == Len(q)
<1>1. /\ n \in Nat /\ DOMAIN q = 1 .. n /\ i \in 1 .. n
      /\ \A j \in 1 .. n : q[j] \in S
  OBVIOUS
<1>2. /\ a \in Seq(S) /\ DOMAIN a = 1 .. i - 1
      /\ \A j \in 1 .. i - 1 : a[j] = q[j]
  OBVIOUS
<1>3. /\ b \in Seq(S) /\ DOMAIN b = 1 .. n - i
      /\ \A j \in 1 .. n - i : b[j] = q[i + j]
  OBVIOUS
<1> HIDE DEF a, b, n
<1>4. \A j, k \in 1 .. n : q[j] = q[k] => j = k
  BY <1>1 DEF IsInjective
<1>5. IsInjective(a) /\ IsInjective(b) /\ Range(a) \cap Range(b) = {}
  <2>1. IsInjective(a)
    BY <1>1, <1>2, <1>4 DEF IsInjective
  <2>2. \A j \in 1 .. n - i : i + j \in 1 .. n /\ i + j > i
    BY <1>1
  <2>3. \A j, k \in 1 .. n - i : i + j = i + k => j = k
    BY <1>1
  <2>4. IsInjective(b)
    BY <1>3, <1>4, <2>2, <2>3 DEF IsInjective
  <2>5. \A j \in 1 .. i - 1, k \in 1 .. n - i : a[j] # b[k]
    BY <1>1, <1>2, <1>3, <1>4, <2>2
  <2> QED
    BY <1>2, <1>3, <2>1, <2>4, <2>5 DEF Range
<1>6. Range(a) \cup Range(b) = Range(q) \ {q[i]}
  <2>1. \A j \in 1 .. n - i : i + j \in 1 .. n /\ i + j # i
    BY <1>1
  <2>2. \A j \in 1 .. i - 1 : j \in 1 .. n /\ j # i
    BY <1>1
  <2>3. Range(a) \cup Range(b) \subseteq Range(q) \ {q[i]}
    BY <1>1, <1>2, <1>3, <1>4, <2>1, <2>2 DEF Range
  <2>4. ASSUME NEW j \in 1 .. n, j # i PROVE q[j] \in Range(a) \cup Range(b)
    <3>1. CASE j < i
      <4>1. j \in 1 .. i - 1
        BY <1>1, <3>1
      <4> QED
        BY <1>2, <4>1 DEF Range
    <3>2. CASE ~(j < i)
      <4>1. j - i \in 1 .. n - i /\ i + (j - i) = j
        BY <1>1, <2>4, <3>2
      <4> QED
        BY <1>3, <4>1 DEF Range
    <3> QED
      BY <3>1, <3>2
  <2> QED
    BY <1>1, <2>3, <2>4 DEF Range
<1>7. a \o b \in Seq(S)
  BY <1>2, <1>3
<1>8. IsInjective(a \o b) /\ Range(a \o b) = Range(q) \ {q[i]}
  BY <1>2, <1>3, <1>5, <1>6, RangeConcat
<1> QED
  BY <1>7, <1>8 DEF a, b, n

(* What is in a queue can be counted.                                      *)
LEMMA RangeFinite ==
  ASSUME NEW S, NEW q \in Seq(S)
  PROVE  IsFiniteSet(Range(q))
<1>1. Len(q) \in Nat /\ q \in [1 .. Len(q) -> S]
  BY LenProperties
<1>2. q \in Surjection(1 .. Len(q), Range(q))
  BY <1>1, Fun_RangeProperties
<1>3. IsFiniteSet(1 .. Len(q))
  BY <1>1, FS_Interval
<1> QED
  BY <1>2, <1>3, FS_Surjection
===============================================================================
