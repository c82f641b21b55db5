---------------------------- MODULE DNSServerProofs ----------------------------
(***************************************************************************)
(* Proofs about DNSServer, for all queries, clients and sizes of buffers.  *)
(*                                                                         *)
(* To whom and when a reply is sent is no inductive property: it is sent   *)
(* long after the task has looked at running and has stored the sender.    *)
(* What it relies on without looking again is that stop() holds the mutex  *)
(* until the socket is closed, and that a socket stays closed until the    *)
(* task is back at its loop (Inv).                                         *)
(*                                                                         *)
(* What a reply says follows from what the walks over the bytes make of a  *)
(* name that is written in them.  They are recursive functions, and the    *)
(* proofs are inductions: on the number of labels joined, and from the end *)
(* of the message backwards for what the walks return.  Induction is taken *)
(* as a lemma on sets of numbers, which a set that is not empty having a   *)
(* least number gives; that a recursive function exists at all is proved   *)
(* first, for CHOOSE says nothing of one that does not.                    *)
(***************************************************************************)
EXTENDS DNSServer, SequenceTheorems, WellFoundedInduction, TLAPS

-----------------------------------------------------------------------------
(* Induction.                                                              *)

(* A set of numbers that is not empty has a least one ...                  *)
LEMMA Least ==
    ASSUME NEW T, T \subseteq Nat, T # {}
    PROVE  \E n \in T : \A m \in T : n <= m
<1>1. IsWellFoundedOn(OpToRel(<, Nat), Nat)
  BY NatLessThanWellFounded, Zenon
<1>2. PICK n \in T : \A m \in T : <<m, n>> \notin OpToRel(<, Nat)
  BY <1>1, WFMin, Zenon
<1>3. \A m \in T : ~(m < n)
  BY <1>2, Zenon DEF OpToRel
<1> QED
  BY <1>3

(* ... and so a set that has 0, and n + 1 with every n, has them all.      *)
LEMMA Induction ==
    ASSUME NEW T, 0 \in T, \A n \in Nat : n \in T => n + 1 \in T
    PROVE  \A n \in Nat : n \in T
<1> SUFFICES ASSUME Nat \ T # {} PROVE FALSE
  OBVIOUS
<1>1. PICK n \in Nat \ T : \A m \in Nat \ T : n <= m
  BY Least
<1>2. n # 0
  OBVIOUS
<1>3. n - 1 \in Nat /\ n - 1 \notin T
  BY <1>1, <1>2
<1> QED
  BY <1>1, <1>3

(* The recursive function of FlattenSeq. *)
Flattened(segments, f) ==
    f = [i \in 1..Len(segments) |->
            IF i = 1 THEN segments[i] ELSE f[i - 1] \o segments[i]]

(* There is one, for it is extended by one place at a time.               *)
LEMMA FlattenExists ==
    ASSUME NEW segments, Len(segments) \in Nat
    PROVE  \E f : Flattened(segments, f)
<1> DEFINE Upto(n, f) == f = [i \in 1..n |-> IF i = 1 THEN segments[i] ELSE f[i - 1] \o segments[i]]
           T == {n \in Nat : \E f : Upto(n, f)}
<1>1. 0 \in T
  <2>1. Upto(0, [i \in 1..0 |-> 0])
    OBVIOUS
  <2> QED
    BY <2>1
<1>2. ASSUME NEW n \in Nat, n \in T PROVE n + 1 \in T
  <2>1. PICK f : Upto(n, f)
    BY <1>2
  <2> DEFINE last == IF n + 1 = 1 THEN segments[n + 1] ELSE f[n] \o segments[n + 1]
             g == [i \in 1..n + 1 |-> IF i = n + 1 THEN last ELSE f[i]]
  <2>2. ASSUME NEW i \in 1..n + 1 
        PROVE  g[i] = IF i = 1 THEN segments[i] ELSE g[i - 1] \o segments[i]
    <3>1. CASE i = n + 1
      BY <3>1
    <3>2. CASE i # n + 1
      <4>1. i \in 1..n /\ g[i] = f[i]
        BY <3>2
      <4>2. f[i] = IF i = 1 THEN segments[i] ELSE f[i - 1] \o segments[i]
        BY <2>1, <4>1
      <4>3. i # 1 => g[i - 1] = f[i - 1]
        BY <4>1
      <4> QED
        BY <4>1, <4>2, <4>3
    <3> QED
      BY <3>1, <3>2
  <2>3. Upto(n + 1, g)
    BY <2>2
  <2> HIDE DEF g, Upto
  <2>4. \E h : Upto(n + 1, h)
    BY <2>3, Zenon
  <2>5. n + 1 \in Nat
    OBVIOUS
  <2> QED
    BY <2>4, <2>5, Zenon
<1>3. \A n \in Nat : n \in T
  <2> HIDE DEF T
  <2> QED
    BY <1>1, <1>2, Induction
<1> QED
  BY <1>3 DEF Flattened

(* So FlattenSeq is what it is defined to be.                              *)
LEMMA FlattenIs ==
    ASSUME NEW segments, Len(segments) \in Nat \ {0}
    PROVE  \E f : Flattened(segments, f) /\ FlattenSeq(segments) = f[Len(segments)]
<1>1. Flattened(segments, CHOOSE f : Flattened(segments, f))
  BY FlattenExists, Zenon
<1>2. FlattenSeq(segments) = (CHOOSE f : Flattened(segments, f))[Len(segments)]
  BY Zenon DEF FlattenSeq, Flattened
<1> QED
  BY <1>1, <1>2, Zenon

(* f[i] is what the first i segments make. *)
Joins(S, segments, f) ==
    /\ segments \in Seq(Seq(S))
    /\ f \in [0..Len(segments) -> Seq(S)]
    /\ f[0] = <<>>
    /\ \A i \in 1..Len(segments) : f[i] = f[i - 1] \o segments[i]

(* What FlattenSeq makes of sequences, one more at a time.                 *)
LEMMA FlattenJoins ==
    ASSUME NEW S, NEW segments \in Seq(Seq(S))
    PROVE  \E f : Joins(S, segments, f) /\ FlattenSeq(segments) = f[Len(segments)]
<1> DEFINE n == Len(segments)
<1>0. n \in Nat /\ \A i \in 1..n : segments[i] \in Seq(S)
  OBVIOUS
<1>1. CASE n = 0
  <2> DEFINE f == [i \in 0..0 |-> <<>>]
  <2>1. Joins(S, segments, f)
    BY <1>1 DEF Joins
  <2>2. FlattenSeq(segments) = f[n]
    BY <1>1, EmptySeq DEF FlattenSeq
  <2> QED
    BY <2>1, <2>2
<1>2. CASE n # 0
  <2>1. PICK g : Flattened(segments, g) /\ FlattenSeq(segments) = g[n]
    BY <1>0, <1>2, FlattenIs
  <2> DEFINE f == [i \in 0..n |-> IF i = 0 THEN <<>> ELSE g[i]]
  <2>2. ASSUME NEW i \in 1..n, f[i - 1] \in Seq(S)
        PROVE  f[i] = f[i - 1] \o segments[i] /\ f[i] \in Seq(S)
    <3>1. g[i] = IF i = 1 THEN segments[i] ELSE g[i - 1] \o segments[i]
      BY <2>1 DEF Flattened
    <3>2. CASE i = 1
      <4>1. <<>> \o segments[i] = segments[i]
        BY <1>0, ConcatEmptySeq
      <4> QED
        BY <1>0, <3>1, <3>2, <4>1
    <3>3. CASE i # 1
      <4>0. i \in 0..n /\ i - 1 \in 0..n /\ i # 0 /\ i - 1 # 0
        BY <1>0, <3>3
      <4>a. f[i - 1] = g[i - 1] /\ f[i] = g[i]
        BY <4>0
      <4>b. g[i] = g[i - 1] \o segments[i]
        BY <3>1, <3>3
      <4>1. f[i - 1] = g[i - 1] /\ f[i] = g[i] /\ g[i] = g[i - 1] \o segments[i]
        BY <4>a, <4>b
      <4>2. segments[i] \in Seq(S)
        BY <1>0
      <4> HIDE DEF f
      <4>3. f[i - 1] \o segments[i] \in Seq(S)
        BY <2>2, <4>2, ConcatProperties, Zenon
      <4> QED
        BY <4>1, <4>3
    <3> QED
      BY <3>2, <3>3
  <2> DEFINE T == {i \in Nat : i <= n => f[i] \in Seq(S)}
  <2>3. 0 \in T
    BY EmptySeq
  <2>4. ASSUME NEW i \in Nat, i \in T PROVE i + 1 \in T
    <3>1. CASE i + 1 <= n
      <4>1. i + 1 \in 1..n /\ (i + 1) - 1 = i
        BY <1>0, <3>1
      <4>2. f[i] \in Seq(S)
        BY <1>0, <2>4, <3>1
      <4> HIDE DEF f
      <4>3. f[i + 1] \in Seq(S)
        BY <2>2, <4>1, <4>2
      <4> QED
        BY <4>3
    <3>2. CASE ~(i + 1 <= n)
      BY <3>2
    <3> QED
      BY <3>1, <3>2
  <2>5. \A i \in Nat : i \in T
    <3> HIDE DEF T
    <3> QED
      BY <2>3, <2>4, Induction
  <2>6. \A i \in 0..n : f[i] \in Seq(S)
    <3> HIDE DEF f, n
    <3> QED
      BY <1>0, <2>5
  <2>7. Joins(S, segments, f)
    <3>1. ASSUME NEW i \in 1..n PROVE f[i] = f[i - 1] \o segments[i]
      <4>1. i - 1 \in 0..n
        BY <1>0
      <4> HIDE DEF f
      <4> QED
        BY <2>2, <2>6, <4>1
    <3>2. f \in [0..n -> Seq(S)]
      BY <2>6
    <3>3. f[0] = <<>>
      BY <1>0
    <3> HIDE DEF f
    <3> QED
      BY <3>1, <3>2, <3>3 DEF Joins
  <2>8. FlattenSeq(segments) = f[n]
    BY <1>0, <1>2, <2>1
  <2> QED
    BY <2>7, <2>8
<1> QED
  BY <1>1, <1>2

(* Where the elements of two sequences are when they are joined.           *)
LEMMA ConcatAt ==
    ASSUME NEW S, NEW s, NEW t, s \in Seq(S), t \in Seq(S)
    PROVE  /\ s \o t \in Seq(S)
           /\ Len(s) \in Nat /\ Len(t) \in Nat /\ Len(s \o t) \in Nat
           /\ Len(s \o t) = Len(s) + Len(t)
           /\ \A p \in 1..Len(s) : (s \o t)[p] = s[p]
           /\ \A k \in 1..Len(t) : (s \o t)[Len(s) + k] = t[k]
<1>1. Len(s) \in Nat /\ Len(t) \in Nat
  BY LenProperties
<1>2. /\ s \o t \in Seq(S) /\ Len(s \o t) = Len(s) + Len(t)
      /\ \A i \in 1..Len(s) + Len(t) :
            (s \o t)[i] = IF i <= Len(s) THEN s[i] ELSE t[i - Len(s)]
  BY ConcatProperties, Zenon
<1>3. ASSUME NEW k \in 1..Len(t) PROVE (s \o t)[Len(s) + k] = t[k]
  <2>1. /\ Len(s) + k \in 1..Len(s) + Len(t) /\ ~(Len(s) + k <= Len(s))
        /\ (Len(s) + k) - Len(s) = k
    BY <1>1
  <2> QED
    BY <1>2, <2>1
<1>4. ASSUME NEW p \in 1..Len(s) PROVE (s \o t)[p] = s[p]
  <2>1. p \in 1..Len(s) + Len(t) /\ p <= Len(s)
    BY <1>1
  <2> QED
    BY <1>2, <2>1
<1> QED
  BY <1>1, <1>2, <1>3, <1>4

(* The same for bytes.                                                     *)
LEMMA ConcatBytes ==
    \A s, t \in Seq(0..255) :
       /\ s \o t \in Seq(0..255)
       /\ Len(s) \in Nat /\ Len(t) \in Nat /\ Len(s \o t) = Len(s) + Len(t)
       /\ \A p \in 1..Len(s) : (s \o t)[p] = s[p]
       /\ \A k \in 1..Len(t) : (s \o t)[Len(s) + k] = t[k]
BY ConcatAt

(* The segment m is appended to f[m - 1]. *)
Appended(S, segments, f, m) ==
    /\ f[m - 1] \in Seq(S) /\ f[m] \in Seq(S) /\ segments[m] \in Seq(S)
    /\ f[m] = f[m - 1] \o segments[m]
    /\ Len(f[m - 1]) \in Nat /\ Len(segments[m]) \in Nat /\ Len(f[m]) \in Nat
    /\ Len(f[m]) = Len(f[m - 1]) + Len(segments[m])
    /\ \A p \in 1..Len(f[m - 1]) : f[m][p] = f[m - 1][p]
    /\ \A k \in 1..Len(segments[m]) : f[m][Len(f[m - 1]) + k] = segments[m][k]

(* So it is for each segment that is joined.                               *)
LEMMA JoinsAt ==
    ASSUME NEW S, NEW segments, NEW f, Joins(S, segments, f)
    PROVE  \A m \in 1..Len(segments) : Appended(S, segments, f, m)
<1> TAKE m \in 1..Len(segments)
<1>1. m \in 0..Len(segments) /\ m - 1 \in 0..Len(segments)
  BY LenProperties DEF Joins
<1>2. f[m] \in Seq(S) /\ f[m - 1] \in Seq(S) /\ f[m] = f[m - 1] \o segments[m]
  BY <1>1 DEF Joins
<1>3. segments[m] \in Seq(S)
  BY ElementOfSeq DEF Joins
<1>4. \A s, t \in Seq(S) :
          /\ Len(s) \in Nat /\ Len(t) \in Nat /\ Len(s \o t) \in Nat
          /\ Len(s \o t) = Len(s) + Len(t)
          /\ \A p \in 1..Len(s) : (s \o t)[p] = s[p]
          /\ \A k \in 1..Len(t) : (s \o t)[Len(s) + k] = t[k]
  BY ConcatAt
<1>5. LET s == f[m - 1]
          t == segments[m]
      IN /\ Len(s) \in Nat /\ Len(t) \in Nat /\ Len(s \o t) \in Nat
         /\ Len(s \o t) = Len(s) + Len(t)
         /\ \A p \in 1..Len(s) : (s \o t)[p] = s[p]
         /\ \A k \in 1..Len(t) : (s \o t)[Len(s) + k] = t[k]
  <2>1. f[m - 1] \in Seq(S)
    BY <1>2
  <2> QED
    BY <2>1, <1>3, <1>4, Zenon
<1>6. f[m] = f[m - 1] \o segments[m]
  BY <1>2
<1> QED
  BY <1>2, <1>3, <1>5, <1>6, Zenon DEF Appended

(* Each segment is found in all that is joined, at its place.              *)
LEMMA Places ==
    ASSUME NEW S, NEW segments, NEW f, Joins(S, segments, f),
           NEW i \in 1..Len(segments), NEW j \in i..Len(segments)
    PROVE  /\ Len(f[i]) <= Len(f[j])
           /\ \A k \in 1..Len(segments[i]) : f[j][Len(f[i - 1]) + k] = segments[i][k]
<1>a. \A m \in 1..Len(segments) : Appended(S, segments, f, m)
  BY JoinsAt, Zenon
<1> DEFINE n == Len(segments)
           Found(m) == /\ Len(f[i]) <= Len(f[m])
                       /\ \A k \in 1..Len(segments[i]) : f[m][Len(f[i - 1]) + k] = segments[i][k]
           T == {d \in Nat : i + d <= n => Found(i + d)}
<1>0. n \in Nat /\ i \in 1..n
  BY LenProperties DEF Joins
<1>t. f \in [0..n -> Seq(S)] /\ segments \in [1..n -> Seq(S)]
  BY LenProperties DEF Joins
<1>i. /\ Len(f[i - 1]) \in Nat /\ Len(segments[i]) \in Nat /\ Len(f[i]) \in Nat
      /\ Len(f[i]) = Len(f[i - 1]) + Len(segments[i])
      /\ \A k \in 1..Len(segments[i]) : f[i][Len(f[i - 1]) + k] = segments[i][k]
  BY <1>a, <1>0, Zenon DEF Appended
<1>2. 0 \in T
  <2>1. Found(i)
    BY <1>i
  <2>2. i + 0 = i
    BY <1>0
  <2> HIDE DEF Found, n
  <2> QED
    BY <2>1, <2>2
<1>3. ASSUME NEW d \in Nat, d \in T PROVE d + 1 \in T
  <2> SUFFICES ASSUME i + (d + 1) <= n PROVE Found(i + (d + 1))
    OBVIOUS
  <2>1. Found(i + d)
    BY <1>0, <1>3
  <2> DEFINE m == i + (d + 1)
  <2>2. m \in 1..n /\ m - 1 = i + d
    BY <1>0
  <2> HIDE DEF m
  <2>3. /\ Len(f[m - 1]) \in Nat /\ Len(segments[m]) \in Nat /\ Len(f[m]) \in Nat
        /\ Len(f[m]) = Len(f[m - 1]) + Len(segments[m])
        /\ \A p \in 1..Len(f[m - 1]) : f[m][p] = f[m - 1][p]
    BY <1>a, <2>2, Zenon DEF Appended
  <2>4. Found(m - 1)
    BY <2>1, <2>2, Zenon
  <2>5. Len(f[i]) <= Len(f[m])
    <3>1. Len(f[i]) <= Len(f[m - 1])
      BY <2>4
    <3>2. /\ Len(f[m - 1]) \in Nat /\ Len(segments[m]) \in Nat /\ Len(f[m]) \in Nat
          /\ Len(f[m]) = Len(f[m - 1]) + Len(segments[m])
      BY <2>3
    <3>3. Len(f[i]) \in Nat
      BY <1>i
    <3>4. \A a, b, c, e \in Nat : a <= b /\ e = b + c => a <= e
      OBVIOUS
    <3> HIDE DEF Found, T, n, m
    <3> QED
      BY <3>1, <3>2, <3>3, <3>4, Zenon
  <2>6. ASSUME NEW k \in 1..Len(segments[i]) PROVE f[m][Len(f[i - 1]) + k] = segments[i][k]
    <3>1. Len(f[i - 1]) + k \in 1..Len(f[m - 1])
      BY <1>t, <1>i, <2>3, <2>4
    <3> QED
      BY <2>3, <2>4, <3>1
  <2>7. Found(m)
    BY <2>5, <2>6
  <2> HIDE DEF Found
  <2> QED
    BY <2>7 DEF m
<1>4. \A d \in Nat : d \in T
  <2> HIDE DEF T
  <2> QED
    BY <1>2, <1>3, Induction
<1>5. j - i \in Nat /\ i + (j - i) = j /\ j <= n
  BY <1>0
<1>6. Found(j)
  <2>1. i + (j - i) <= n => Found(i + (j - i))
    BY <1>4, <1>5
  <2> HIDE DEF Found, n
  <2> QED
    BY <2>1, <1>5
<1> QED
  BY <1>6

-----------------------------------------------------------------------------
(* Names as they are written in messages.                                  *)

(* A name as NameAssumption has it. *)
Proper(labels) ==
    /\ labels \in Seq(Seq(1..255))
    /\ \A i \in 1..Len(labels) : Len(labels[i]) \in 1..63

(* The labels stand in the bytes, each behind its length, a 0 behind all.  *)
Spelled(labels, bytes, mark) ==
    /\ mark \in [1..Len(labels) + 1 -> 1..Len(bytes)]
    /\ mark[1] = 1
    /\ bytes[mark[Len(labels) + 1]] = 0
    /\ \A i \in 1..Len(labels) :
          /\ bytes[mark[i]] = Len(labels[i])
          /\ mark[i + 1] = mark[i] + Len(labels[i]) + 1
          /\ \A k \in 1..Len(labels[i]) : bytes[mark[i] + k] = labels[i][k]

(* The labels with their lengths in front. *)
Encoded(labels) == [i \in DOMAIN labels |-> <<Len(labels[i])>> \o labels[i]]

(* What that says of the labels, ...                                       *)
LEMMA ProperLabels ==
    ASSUME NEW labels, Proper(labels)
    PROVE  /\ labels \in Seq(Seq(1..255)) /\ labels \in Seq(Seq(0..255))
           /\ Len(labels) \in Nat /\ DOMAIN labels = 1..Len(labels)
<1>1. labels \in Seq(Seq(1..255))
  BY DEF Proper
<1>2. Seq(1..255) \subseteq Seq(0..255)
  <2>1. 1..255 \subseteq 0..255
    OBVIOUS
  <2> QED
    BY <2>1, SeqMonotonic
<1>3. labels \in Seq(Seq(0..255))
  BY <1>1, <1>2, SeqMonotonic
<1> QED
  BY <1>1, <1>3, LenProperties

(* ... of each one's bytes, ...                                            *)
LEMMA LabelBytes ==
    ASSUME NEW labels, Proper(labels), NEW i \in 1..Len(labels)
    PROVE  labels[i] \in Seq(1..255) /\ labels[i] \in Seq(0..255)
BY ProperLabels, ElementOfSeq

(* ... and of its size.                                                    *)
LEMMA LabelSize ==
    ASSUME NEW labels, Proper(labels)
    PROVE  \A i \in 1..Len(labels) :
              Len(labels[i]) \in 1..63 /\ Len(labels[i]) \in 0..255 /\ Len(labels[i]) \in Nat
<1> TAKE i \in 1..Len(labels)
<1>1. Len(labels[i]) \in 1..63
  BY Zenon DEF Proper
<1>2. ASSUME NEW x \in 1..63 PROVE x \in 0..255 /\ x \in Nat
  OBVIOUS
<1>3. PICK x \in 1..63 : x = Len(labels[i])
  BY <1>1, Zenon
<1>4. x \in 1..63 /\ x \in 0..255 /\ x \in Nat
  BY <1>2
<1> QED
  BY <1>3, <1>4, Zenon

(* The length is the first byte.                                           *)
LEMMA EncodedAt ==
    ASSUME NEW labels, Proper(labels)
    PROVE  /\ Encoded(labels) \in Seq(Seq(0..255)) /\ Len(Encoded(labels)) = Len(labels)
           /\ \A i \in 1..Len(labels) :
                 /\ Len(Encoded(labels)[i]) = Len(labels[i]) + 1
                 /\ Encoded(labels)[i][1] = Len(labels[i])
                 /\ \A k \in 1..Len(labels[i]) : Encoded(labels)[i][k + 1] = labels[i][k]
<1>1. Len(labels) \in Nat /\ DOMAIN labels = 1..Len(labels)
  BY ProperLabels
<1>2. ASSUME NEW s \in Seq(0..255), NEW x \in 0..255
      PROVE  /\ <<x>> \o s \in Seq(0..255)
             /\ Len(<<x>> \o s) = Len(s) + 1
             /\ (<<x>> \o s)[1] = x
             /\ \A k \in 1..Len(s) : (<<x>> \o s)[k + 1] = s[k]
  <2>1. <<x>> \in Seq(0..255) /\ Len(<<x>>) = 1 /\ <<x>>[1] = x
    OBVIOUS
  <2>2. /\ <<x>> \o s \in Seq(0..255)
        /\ Len(s) \in Nat
        /\ Len(<<x>> \o s) = Len(<<x>>) + Len(s)
        /\ \A p \in 1..Len(<<x>>) : (<<x>> \o s)[p] = <<x>>[p]
        /\ \A k \in 1..Len(s) : (<<x>> \o s)[Len(<<x>>) + k] = s[k]
    BY <2>1, ConcatAt
  <2>3. Len(<<x>> \o s) = Len(s) + 1
    BY <2>1, <2>2
  <2>4. 1 \in 1..1 /\ \A k \in 1..Len(s) : k + 1 = 1 + k
    BY <2>2
  <2> QED
    BY <2>1, <2>2, <2>3, <2>4, Zenon
<1>3. \A i \in 1..Len(labels) : labels[i] \in Seq(0..255) /\ Len(labels[i]) \in 0..255
  <2>1. \A i \in 1..Len(labels) : labels[i] \in Seq(0..255)
    BY LabelBytes
  <2>2. \A i \in 1..Len(labels) : Len(labels[i]) \in 0..255
    <3>1. \A i \in 1..Len(labels) : /\ Len(labels[i]) \in 1..63
                                   /\ Len(labels[i]) \in 0..255
                                   /\ Len(labels[i]) \in Nat
      BY LabelSize
    <3> QED
      BY <3>1, ZenonT(30)
  <2> QED
    BY <2>1, <2>2, Zenon
<1>4. \A i \in 1..Len(labels) : Encoded(labels)[i] = <<Len(labels[i])>> \o labels[i]
  BY <1>1, Zenon DEF Encoded
<1>5. ASSUME NEW i \in 1..Len(labels)
      PROVE  /\ Encoded(labels)[i] \in Seq(0..255)
             /\ Len(Encoded(labels)[i]) = Len(labels[i]) + 1
             /\ Encoded(labels)[i][1] = Len(labels[i])
             /\ \A k \in 1..Len(labels[i]) : Encoded(labels)[i][k + 1] = labels[i][k]
  <2> DEFINE s == labels[i]
             x == Len(labels[i])
  <2>1. s \in Seq(0..255) /\ x \in 0..255
    BY <1>3
  <2>2. Encoded(labels)[i] = <<x>> \o s
    BY <1>4
  <2>3. /\ <<x>> \o s \in Seq(0..255)
        /\ Len(<<x>> \o s) = Len(s) + 1
        /\ (<<x>> \o s)[1] = x
        /\ \A k \in 1..Len(s) : (<<x>> \o s)[k + 1] = s[k]
    <3> HIDE DEF s, x
    <3> QED
      BY <1>2, <2>1, ZenonT(30)
  <2> QED
    BY <2>2, <2>3, Zenon
<1>6. Encoded(labels) \in [1..Len(labels) -> Seq(0..255)]
  <2>1. Encoded(labels) = [i \in 1..Len(labels) |-> Encoded(labels)[i]]
    BY <1>1, <1>4, Zenon DEF Encoded
  <2> QED
    BY <2>1, <1>5, Zenon
<1>7. Encoded(labels) \in Seq(Seq(0..255)) /\ Len(Encoded(labels)) = Len(labels)
  BY <1>1, <1>6
<1> QED
  BY <1>5, <1>7, Zenon

(* width[i] bytes are taken by the first i labels.  *)
Widths(labels, width) ==
    /\ width \in [0..Len(labels) -> Nat]
    /\ width[0] = 0
    /\ \A i \in 1..Len(labels) :
          /\ width[i] = width[i - 1] + (Len(labels[i]) + 1)
          /\ width[i] <= width[Len(labels)]

(* This is so whatever byte is added to each label.                        *)
LEMMA JoinsWidths ==
    ASSUME NEW S, NEW labels, Proper(labels), NEW segments, NEW f, Joins(S, segments, f),
           Len(segments) = Len(labels),
           \A i \in 1..Len(labels) : Len(segments[i]) = Len(labels[i]) + 1
    PROVE  Widths(labels, [i \in 0..Len(labels) |-> Len(f[i])])
<1> DEFINE n == Len(labels)
           width == [i \in 0..n |-> Len(f[i])]
<1>0. n \in Nat /\ Len(segments) = n
  BY ProperLabels
<1>1. f \in [0..n -> Seq(S)] /\ f[0] = <<>>
  BY DEF Joins
<1>2. width \in [0..n -> Nat]
  BY <1>1, LenProperties
<1>3. width[0] = 0
  BY <1>0, <1>1
<1>4. ASSUME NEW i \in 1..n PROVE width[i] = width[i - 1] + (Len(labels[i]) + 1) /\ width[i] <= width[n]
  <2>0. i \in 0..n /\ i - 1 \in 0..n /\ n \in 0..n /\ n \in i..n
    BY <1>0
  <2>1. i \in 1..Len(segments) /\ n \in i..Len(segments)
    BY <1>0, <2>0
  <2>2. Len(f[i]) = Len(f[i - 1]) + Len(segments[i])
    <3>1. Appended(S, segments, f, i)
      BY <2>1, JoinsAt, Zenon
    <3> QED
      BY <3>1, Zenon DEF Appended
  <2>3. Len(f[i]) <= Len(f[n])
    <3> HIDE DEF n
    <3> QED
      BY <2>1, Places, Zenon
  <2>4. width[i] = Len(f[i]) /\ width[i - 1] = Len(f[i - 1]) /\ width[n] = Len(f[n])
    BY <2>0
  <2> HIDE DEF width
  <2> QED
    BY <2>2, <2>3, <2>4, Zenon
<1> HIDE DEF width
<1>5. Widths(labels, width)
  BY <1>2, <1>3, <1>4 DEF Widths
<1> QED
  BY <1>5, Zenon DEF width

(* A name that is written in a message is spelled there.                   *)
LEMMA EncodeSpells ==
    ASSUME NEW labels, Proper(labels)
    PROVE  /\ \E mark : /\ Spelled(labels, Encode(labels), mark)
                        /\ mark[Len(labels) + 1] = Len(Encode(labels))
           /\ \E width : Widths(labels, width) /\ Len(Encode(labels)) = width[Len(labels)] + 1
           /\ Encode(labels) \in Seq(0..255)
<1> DEFINE n == Len(labels)
           E == Encoded(labels)
<1>0. n \in Nat
  BY ProperLabels
<1>1. PICK e : Joins(0..255, E, e) /\ FlattenSeq(E) = e[n]
  <2>1. E \in Seq(Seq(0..255)) /\ Len(E) = n
    BY EncodedAt
  <2> HIDE DEF E
  <2> QED
    BY <2>1, FlattenJoins
<1> DEFINE w == [i \in 0..n |-> Len(e[i])]
           bytes == Encode(labels)
<1>2. Widths(labels, w)
  BY <1>1, EncodedAt, JoinsWidths, SMTT(30)
<1>3. /\ e[n] \in Seq(0..255) /\ w[n] = Len(e[n])
      /\ bytes = e[n] \o <<0>>
  <2>1. e \in [0..n -> Seq(0..255)]
    BY <1>1, EncodedAt DEF Joins
  <2>2. n \in 0..n
    BY <1>0
  <2>3. bytes = FlattenSeq(E) \o <<0>>
    BY Zenon DEF Encode, Encoded
  <2> QED
    BY <1>1, <2>1, <2>2, <2>3
<1>4. w \in [0..n -> Nat] /\ w[0] = 0 /\ n \in 0..n
  BY <1>0, <1>2 DEF Widths
<1>w. \A i \in 1..n : w[i] = w[i - 1] + (Len(labels[i]) + 1) /\ w[i] <= w[n]
  BY <1>2, Zenon DEF Widths
<1>5. /\ Len(bytes) = w[n] + 1 /\ bytes[w[n] + 1] = 0
      /\ \A p \in 1..w[n] : bytes[p] = e[n][p]
  <2> DEFINE s == e[n]
             z == <<0>>
  <2>1. z \in Seq(0..255) /\ Len(z) = 1 /\ z[1] = 0 /\ 1 \in 1..1
    OBVIOUS
  <2>2. s \in Seq(0..255) /\ bytes = s \o z /\ w[n] = Len(s)
    BY <1>3
  <2> HIDE DEF s, z, bytes, w
  <2>3. /\ Len(s \o z) = Len(s) + Len(z)
        /\ \A p \in 1..Len(s) : (s \o z)[p] = s[p]
        /\ \A k \in 1..Len(z) : (s \o z)[Len(s) + k] = z[k]
    BY <2>1, <2>2, ConcatBytes, ZenonT(30)
  <2>4. \A p \in 1..w[n] : bytes[p] = e[n][p]
    BY <2>2, <2>3, Zenon DEF s
  <2>5. Len(bytes) = w[n] + 1 /\ bytes[w[n] + 1] = 0
    BY <2>1, <2>2, <2>3, Zenon
  <2> QED
    BY <2>4, <2>5
<1>6. ASSUME NEW i \in 1..n
      PROVE  /\ e[n][w[i - 1] + 1] = Len(labels[i])
             /\ \A k \in 1..Len(labels[i]) : e[n][w[i - 1] + (k + 1)] = labels[i][k]
  <2>1. /\ Len(E[i]) = Len(labels[i]) + 1 /\ E[i][1] = Len(labels[i])
        /\ \A k \in 1..Len(labels[i]) : E[i][k + 1] = labels[i][k]
    BY EncodedAt
  <2>2. \A k \in 1..Len(E[i]) : e[n][Len(e[i - 1]) + k] = E[i][k]
    <3>1. i \in 1..Len(E) /\ n \in i..Len(E)
      BY <1>0, EncodedAt
    <3> HIDE DEF n, E
    <3> QED
      BY <1>1, <3>1, Places
  <2>3. w[i - 1] = Len(e[i - 1])
    <3>1. i - 1 \in 0..n
      BY <1>0
    <3> QED
      BY <3>1
  <2>4. Len(labels[i]) \in Nat
    BY LabelSize
  <2>5. 1 \in 1..Len(labels[i]) + 1 /\ \A k \in 1..Len(labels[i]) : k + 1 \in 1..Len(labels[i]) + 1
    BY <2>4
  <2> HIDE DEF w, E
  <2> QED
    BY <2>1, <2>2, <2>3, <2>5, Zenon
<1> DEFINE mark == [i \in 1..n + 1 |-> w[i - 1] + 1]
<1> HIDE DEF w, bytes, E
<1>7. mark[1] = 1 /\ mark[n + 1] = w[n] + 1
  BY <1>0, <1>4
<1>8. ASSUME NEW i \in 1..n
      PROVE  /\ mark[i] = w[i - 1] + 1
             /\ mark[i + 1] = mark[i] + Len(labels[i]) + 1
             /\ w[i - 1] + 1 \in 1..w[n] /\ w[i - 1] \in Nat
             /\ \A k \in 1..Len(labels[i]) : w[i - 1] + (k + 1) \in 1..w[n]
                                             /\ mark[i] + k = w[i - 1] + (k + 1)
  <2>1. Len(labels[i]) \in Nat /\ i - 1 \in 0..n /\ i \in 0..n /\ i + 1 \in 1..n + 1 /\ i \in 1..n + 1
    <3>1. Len(labels[i]) \in Nat
      BY LabelSize
    <3>2. i - 1 \in 0..n /\ i \in 0..n /\ i + 1 \in 1..n + 1 /\ i \in 1..n + 1
      BY <1>0
    <3> QED
      BY <3>1, <3>2, Zenon
  <2>2. w[i - 1] \in Nat /\ w[i] \in Nat /\ w[n] \in Nat
    BY <1>4, <2>1
  <2>3. w[i] = w[i - 1] + (Len(labels[i]) + 1) /\ w[i] <= w[n]
    BY <1>w
  <2>4. mark[i] = w[i - 1] + 1 /\ mark[i + 1] = w[i] + 1
    BY <1>0, <2>1
  <2>5. \A a, b, c, x \in Nat : b = a + (x + 1) /\ b <= c =>
            /\ b + 1 = (a + 1) + x + 1 /\ a + 1 \in 1..c
            /\ \A k \in 1..x : a + (k + 1) \in 1..c /\ (a + 1) + k = a + (k + 1)
    OBVIOUS
  <2> DEFINE a == w[i - 1]
             x == Len(labels[i])
  <2>6. /\ w[i] + 1 = (a + 1) + x + 1 /\ a + 1 \in 1..w[n]
        /\ \A k \in 1..x : a + (k + 1) \in 1..w[n] /\ (a + 1) + k = a + (k + 1)
    <3>1. a \in Nat /\ x \in Nat /\ w[i] = a + (x + 1)
      BY <2>1, <2>2, <2>3
    <3> HIDE DEF mark, a, x
    <3> QED
      BY <1>0, <1>4, <2>1, <2>2, <2>3, <3>1
  <2> HIDE DEF mark
  <2> QED
    BY <2>2, <2>4, <2>6, Zenon
<1>9. mark \in [1..n + 1 -> 1..Len(bytes)]
  <2>1. ASSUME NEW i \in 1..n + 1 PROVE mark[i] \in 1..Len(bytes)
    <3>1. CASE i = n + 1
      BY <1>4, <1>5, <1>7, <3>1
    <3>2. CASE i \in 1..n
      <4>1. w[n] \in Nat
        BY <1>4
      <4> HIDE DEF mark
      <4> QED
        BY <1>5, <1>8, <3>2, <4>1
    <3> QED
      BY <1>0, <3>1, <3>2
  <2> QED
    BY <2>1
<1>10. ASSUME NEW i \in 1..n
      PROVE  /\ bytes[mark[i]] = Len(labels[i])
             /\ \A k \in 1..Len(labels[i]) : bytes[mark[i] + k] = labels[i][k]
  <2> HIDE DEF mark
  <2> QED
    BY <1>5, <1>6, <1>8, ZenonT(60)
<1>11. Spelled(labels, bytes, mark)
  <2> HIDE DEF mark
  <2> QED
    BY <1>5, <1>7, <1>8, <1>9, <1>10 DEF Spelled
<1>12. mark[n + 1] = Len(bytes)
  BY <1>5, <1>7
<1> QED
  <2> HIDE DEF mark
  <2> QED
    <3>1. /\ \E m : Spelled(labels, bytes, m) /\ m[n + 1] = Len(bytes)
          /\ \E width : Widths(labels, width) /\ Len(bytes) = width[n] + 1
          /\ bytes \in Seq(0..255)
      BY <1>2, <1>3, <1>5, <1>11, <1>12
    <3> QED
      BY <3>1, Zenon DEF bytes

(* The labels alone decide the widths.                                     *)
LEMMA WidthsSame ==
    ASSUME NEW labels, Proper(labels), NEW v, NEW w, Widths(labels, v), Widths(labels, w)
    PROVE  v[Len(labels)] = w[Len(labels)]
<1> DEFINE n == Len(labels)
           T == {i \in Nat : i <= n => v[i] = w[i]}
<1>0. n \in Nat
  BY ProperLabels
<1>1. 0 \in T
  BY DEF Widths
<1>2. ASSUME NEW i \in Nat, i \in T PROVE i + 1 \in T
  <2> SUFFICES ASSUME i + 1 <= n PROVE v[i + 1] = w[i + 1]
    OBVIOUS
  <2>1. i + 1 \in 1..n /\ (i + 1) - 1 = i /\ v[i] = w[i]
    BY <1>0, <1>2
  <2>2. \A j \in 1..n : v[j] = v[j - 1] + (Len(labels[j]) + 1) /\ w[j] = w[j - 1] + (Len(labels[j]) + 1)
    BY Zenon DEF Widths
  <2> QED
    BY <2>1, <2>2, Zenon
<1>3. \A i \in Nat : i \in T
  <2> HIDE DEF T
  <2> QED
    BY <1>1, <1>2, Induction
<1> QED
  BY <1>0, <1>3

(* The labels with their dots behind. *)
Dots(labels) == [i \in DOMAIN labels |-> Append(labels[i], Dot)]

(* The dot is the last byte, and Dotted joins them.                        *)
LEMMA DotsAt ==
    ASSUME NEW labels, Proper(labels)
    PROVE  /\ Dots(labels) \in Seq(Seq(1..255)) /\ Len(Dots(labels)) = Len(labels)
           /\ Dotted(labels) = FlattenSeq(Dots(labels))
           /\ \A i \in 1..Len(labels) :
                 /\ Dots(labels)[i] = labels[i] \o <<Dot>>
                 /\ Dots(labels)[i] \in Seq(1..255)
                 /\ Len(Dots(labels)[i]) = Len(labels[i]) + 1
<1> DEFINE n == Len(labels)
<1>1. n \in Nat /\ DOMAIN labels = 1..n
  BY ProperLabels
<1>2. \A s \in Seq(1..255) : /\ Append(s, Dot) \in Seq(1..255)
                             /\ Append(s, Dot) = s \o <<Dot>>
                             /\ Len(Append(s, Dot)) = Len(s) + 1
  BY AppendProperties, AppendIsConcat DEF Dot
<1>3. \A i \in 1..n : labels[i] \in Seq(1..255)
  BY LabelBytes
<1>4. \A i \in 1..n : Dots(labels)[i] = Append(labels[i], Dot)
  BY <1>1, Zenon DEF Dots
<1>5. ASSUME NEW i \in 1..n
      PROVE  /\ Dots(labels)[i] \in Seq(1..255)
             /\ Dots(labels)[i] = labels[i] \o <<Dot>>
             /\ Len(Dots(labels)[i]) = Len(labels[i]) + 1
  BY <1>2, <1>3, <1>4, ZenonT(30)
<1>6. Dots(labels) \in [1..n -> Seq(1..255)]
  <2>1. Dots(labels) = [i \in 1..n |-> Dots(labels)[i]]
    BY <1>1, <1>4, Zenon DEF Dots
  <2> HIDE DEF n
  <2> QED
    BY <2>1, <1>5, Zenon
<1>7. Dots(labels) \in Seq(Seq(1..255)) /\ Len(Dots(labels)) = n
  <2> HIDE DEF n
  <2> QED
    BY <1>1, <1>6
<1>8. Dotted(labels) = FlattenSeq(Dots(labels))
  BY Zenon DEF Dotted, Dots
<1> QED
  BY <1>5, <1>7, <1>8, Zenon

(* The text of a name takes as much room as the name with its closing 0,   *)
(* less one: a dot for each length.                                        *)
LEMMA TextSizeIs ==
    ASSUME NEW labels, Proper(labels)
    PROVE  TextSize(labels) \in Nat /\ Len(Encode(labels)) = TextSize(labels) + 1
<1> DEFINE n == Len(labels)
           D == Dots(labels)
<1>0. n \in Nat
  BY ProperLabels
<1>1. PICK d : Joins(1..255, D, d) /\ FlattenSeq(D) = d[n]
  <2>1. D \in Seq(Seq(1..255)) /\ Len(D) = n
    BY DotsAt
  <2> HIDE DEF D
  <2> QED
    BY <2>1, FlattenJoins
<1> DEFINE v == [i \in 0..n |-> Len(d[i])]
<1>2. Widths(labels, v)
  BY <1>1, DotsAt, JoinsWidths
<1>3. PICK w : Widths(labels, w) /\ Len(Encode(labels)) = w[n] + 1
  BY EncodeSpells, Zenon
<1>4. v[n] = w[n]
  <2> HIDE DEF v
  <2> QED
    BY <1>2, <1>3, WidthsSame, Zenon
<1>5. v[n] \in Nat
  <2> HIDE DEF v
  <2> QED
    BY <1>0, <1>2 DEF Widths
<1>6. v[n] = Len(d[n])
  BY <1>0
<1>7. TextSize(labels) = Len(d[n])
  BY <1>1, DotsAt, Zenon DEF TextSize
<1> QED
  BY <1>3, <1>4, <1>5, <1>6, <1>7, Zenon

(* A message that asks for the name spells it.                             *)
LEMMA PrefixSpells ==
    ASSUME NEW labels, Proper(labels), NEW rest \in Seq(0..255), IsPrefix(Encode(labels), rest)
    PROVE  /\ \E mark : /\ Spelled(labels, rest, mark)
                        /\ mark[Len(labels) + 1] = Len(Encode(labels))
           /\ Len(Encode(labels)) \in 1..Len(rest)
           /\ Encode(labels) = SubSeq(rest, 1, Len(Encode(labels)))
<1> DEFINE bytes == Encode(labels)
           n == Len(labels)
<1>0. n \in Nat
  BY ProperLabels
<1>1. PICK mark : Spelled(labels, bytes, mark) /\ mark[n + 1] = Len(bytes)
  BY EncodeSpells, Zenon
<1>2. bytes \in Seq(0..255)
  BY EncodeSpells, Zenon
<1>3. /\ Len(bytes) \in Nat /\ Len(rest) \in Nat /\ Len(bytes) <= Len(rest)
      /\ bytes = SubSeq(rest, 1, Len(bytes))
  <2> HIDE DEF bytes
  <2>1. SubSeq(bytes, 1, Len(bytes)) = bytes
    BY <1>2, SubSeqFull
  <2>2. Len(bytes) <= Len(rest) /\ SubSeq(bytes, 1, Len(bytes)) = SubSeq(rest, 1, Len(bytes))
    BY Zenon DEF IsPrefix, bytes
  <2> QED
    BY <1>2, <2>1, <2>2, LenProperties
<1> HIDE DEF bytes
<1>4. \A p \in 1..Len(bytes) : bytes[p] = rest[p]
  <2>1. \A i \in 1..Len(bytes) : rest[i] \in 0..255
    <3>1. \A i \in 1..Len(rest) : rest[i] \in 0..255
      BY ElementOfSeq
    <3>2. \A i \in 1..Len(bytes) : i \in 1..Len(rest)
      BY <1>3
    <3> QED
      BY <3>1, <3>2, Zenon
  <2> DEFINE l == Len(bytes)
  <2>2. \A i \in 1..l - 1 + 1 : SubSeq(rest, 1, l)[i] = rest[1 + i - 1]
    <3> HIDE DEF l
    <3>1. l \in Nat
      BY <1>3 DEF l
    <3>2. \A i \in 1..l : rest[i] \in 0..255
      BY <2>1 DEF l
    <3> QED
      BY <3>1, <3>2, SubSeqProperties
  <2>3. \A p \in 1..l : p \in 1..l - 1 + 1 /\ 1 + p - 1 = p
    BY <1>3
  <2>4. \A p \in 1..l : SubSeq(rest, 1, l)[p] = rest[p]
    <3> HIDE DEF l
    <3> QED
      BY <2>2, <2>3, Zenon
  <2> QED
    BY <1>3, <2>4, Zenon
<1>5. /\ mark \in [1..n + 1 -> 1..Len(bytes)] /\ mark[1] = 1
      /\ bytes[mark[n + 1]] = 0
  BY <1>1, Zenon DEF Spelled
<1>6. ASSUME NEW i \in 1..n
      PROVE  /\ bytes[mark[i]] = Len(labels[i])
             /\ mark[i + 1] = mark[i] + Len(labels[i]) + 1
             /\ \A k \in 1..Len(labels[i]) : bytes[mark[i] + k] = labels[i][k]
  BY <1>1, Zenon DEF Spelled
<1>7. /\ n + 1 \in 1..n + 1
      /\ \A i \in 1..n : i \in 1..n + 1 /\ i + 1 \in 1..n + 1
  BY <1>0
<1>8. ASSUME NEW i \in 1..n, NEW k \in 1..Len(labels[i]) PROVE mark[i] + k \in 1..Len(bytes)
  <2>1. Len(labels[i]) \in Nat
    BY LabelSize
  <2>2. mark[i] \in 1..Len(bytes) /\ mark[i + 1] \in 1..Len(bytes)
    BY <1>5, <1>7, Zenon
  <2>3. mark[i + 1] = mark[i] + Len(labels[i]) + 1
    BY <1>6
  <2>4. \A a, b, x, z \in Nat : a \in 1..z /\ b \in 1..z /\ b = a + x + 1 => \A j \in 1..x : a + j \in 1..z
    OBVIOUS
  <2>5. \A a \in 1..Len(bytes) : a \in Nat
    BY <1>3
  <2> HIDE DEF n
  <2> QED
    BY <1>3, <2>1, <2>2, <2>3, <2>4, <2>5, Zenon
<1>9. Spelled(labels, rest, mark)
  <2>1. mark \in [1..n + 1 -> 1..Len(rest)]
    <3>1. \A a \in 1..Len(bytes) : a \in 1..Len(rest)
      BY <1>3
    <3> HIDE DEF n
    <3> QED
      BY <1>5, <3>1
  <2>2. rest[mark[n + 1]] = 0
    BY <1>4, <1>5, <1>7, Zenon
  <2>3. ASSUME NEW i \in 1..n
        PROVE  /\ rest[mark[i]] = Len(labels[i])
               /\ mark[i + 1] = mark[i] + Len(labels[i]) + 1
               /\ \A k \in 1..Len(labels[i]) : rest[mark[i] + k] = labels[i][k]
    <3>1. mark[i] \in 1..Len(bytes)
      BY <1>5, <1>7, Zenon
    <3> QED
      BY <1>4, <1>6, <1>8, <3>1, Zenon
  <2> QED
    BY <1>5, <2>1, <2>2, <2>3, Zenon DEF Spelled
<1>10. Len(bytes) \in 1..Len(rest)
  <2>1. n + 1 \in 1..n + 1
    BY <1>0
  <2>2. mark[n + 1] \in 1..Len(bytes)
    BY <1>5, <2>1, Zenon
  <2> QED
    BY <1>3, <2>2
<1> QED
  <2>1. /\ \E m : Spelled(labels, rest, m) /\ m[n + 1] = Len(bytes)
        /\ Len(bytes) \in 1..Len(rest) /\ bytes = SubSeq(rest, 1, Len(bytes))
    BY <1>1, <1>3, <1>9, <1>10, Zenon
  <2> QED
    BY <2>1, Zenon DEF bytes

-----------------------------------------------------------------------------
(* What the walks over the bytes of a name return.                         *)

(* The loop of Walk, as a function of the position. *)
Walked(rest, at) ==
    at = [p \in 1..Len(rest) + 1 |->
        IF p > Len(rest) THEN EndOfName(FALSE)
        ELSE IF IsPointer(rest[p]) THEN
            IF p < Len(rest) THEN EndOfName(TRUE) ELSE NoName
        ELSE IF rest[p] = 0 THEN EndOfName(FALSE)
        ELSE IF p + rest[p] > Len(rest) THEN NoName
        ELSE LET label == SubSeq(rest, p + 1, p + rest[p])
                 tail == at[p + rest[p] + 1]
             IN [tail EXCEPT !.labels = <<label>> \o @]]

(* There is one: it is known from the end of the message backwards.        *)
LEMMA WalkExists ==
    ASSUME NEW rest \in Seq(0..255)
    PROVE  \E at : Walked(rest, at)
<1> DEFINE l == Len(rest)
           Body(p, next) ==
               IF p > l THEN EndOfName(FALSE)
               ELSE IF IsPointer(rest[p]) THEN
                   IF p < l THEN EndOfName(TRUE) ELSE NoName
               ELSE IF rest[p] = 0 THEN EndOfName(FALSE)
               ELSE IF p + rest[p] > l THEN NoName
               ELSE [next EXCEPT !.labels = <<SubSeq(rest, p + 1, p + rest[p])>> \o @]
           Below(d, at) ==
               at = [p \in 1..l + 1 |-> IF p + d <= l + 1 THEN NoName
                                        ELSE Body(p, at[p + rest[p] + 1])]
           T == {d \in Nat : \E at : Below(d, at)}
<1>0. l \in Nat /\ \A p \in 1..l : rest[p] \in 0..255
  BY LenProperties, ElementOfSeq
<1>1. 0 \in T
  <2> DEFINE at == [p \in 1..l + 1 |-> NoName]
  <2>1. \A p \in 1..l + 1 : p + 0 <= l + 1
    BY <1>0
  <2> HIDE DEF Body
  <2>2. Below(0, at)
    BY <2>1, Zenon
  <2> HIDE DEF Below
  <2> QED
    BY <2>2
<1>2. ASSUME NEW d \in Nat, d \in T PROVE d + 1 \in T
  <2>1. PICK at : Below(d, at)
    BY <1>2
  <2> DEFINE g == [p \in 1..l + 1 |-> IF p + (d + 1) <= l + 1 THEN NoName
                                      ELSE Body(p, at[p + rest[p] + 1])]
  <2>2. ASSUME NEW p \in 1..l + 1, ~(p + d <= l + 1)
        PROVE  g[p] = at[p]
    <3>1. ~(p + (d + 1) <= l + 1)
      BY <1>0, <2>2
    <3> HIDE DEF Body, l
    <3>2. at[p] = Body(p, at[p + rest[p] + 1])
      BY <2>1, <2>2, Zenon
    <3> QED
      BY <3>1, <3>2, Zenon
  <2>3. ASSUME NEW p \in 1..l + 1, ~(p + (d + 1) <= l + 1)
        PROVE  Body(p, at[p + rest[p] + 1]) = Body(p, g[p + rest[p] + 1])
    <3>1. CASE p > l \/ rest[p] = 0 \/ p + rest[p] > l
      <4> HIDE DEF l, g
      <4> QED
        BY <3>1, Zenon
    <3>2. CASE ~(p > l \/ rest[p] = 0 \/ p + rest[p] > l)
      <4>1. p \in 1..l
        BY <1>0, <3>2
      <4>2. rest[p] \in 1..255
        BY <1>0, <3>2, <4>1
      <4>3. p + rest[p] + 1 \in 1..l + 1 /\ ~((p + rest[p] + 1) + d <= l + 1)
        <5> DEFINE r == rest[p]
        <5>1. l \in Nat /\ p \in 1..l /\ r \in 1..255 /\ ~(p + r > l) /\ ~(p + (d + 1) <= l + 1)
          BY <1>0, <2>3, <3>2, <4>1, <4>2
        <5>2. p + r + 1 \in 1..l + 1 /\ ~((p + r + 1) + d <= l + 1)
          <6> HIDE DEF l, r
          <6> QED
            BY <5>1
        <5> QED
          BY <5>2
      <4> HIDE DEF Body, g, l
      <4>4. g[p + rest[p] + 1] = at[p + rest[p] + 1]
        BY <2>2, <4>3, Zenon
      <4> QED
        BY <4>4, Zenon
    <3> QED
      BY <3>1, <3>2
  <2>4. Below(d + 1, g)
    BY <2>3
  <2> HIDE DEF g, Below
  <2> QED
    BY <2>4
<1>3. \A d \in Nat : d \in T
  <2> HIDE DEF T
  <2> QED
    BY <1>1, <1>2, Induction
<1>4. PICK at : Below(l + 1, at)
  <2>1. l + 1 \in Nat
    BY <1>0
  <2> HIDE DEF Below, l
  <2> QED
    BY <1>3, <2>1
<1>5. \A p \in 1..l + 1 : ~(p + (l + 1) <= l + 1)
  BY <1>0
<1>6. at = [p \in 1..l + 1 |-> Body(p, at[p + rest[p] + 1])]
  <2> HIDE DEF Body, l
  <2> QED
    BY <1>4, <1>5, Zenon
<1> QED
  BY <1>6, Zenon DEF Walked

(* So Walk is what it is defined to be.                                    *)
LEMMA WalkIs ==
    ASSUME NEW rest \in Seq(0..255)
    PROVE  \E at : Walked(rest, at) /\ Walk(rest) = at[1]
<1>1. Walked(rest, CHOOSE at : Walked(rest, at))
  BY WalkExists, Zenon
<1>2. Walk(rest) = (CHOOSE at : Walked(rest, at))[1]
  BY Zenon DEF Walk, Walked
<1> QED
  BY <1>1, <1>2, Zenon

(* The label i lies within the message, and is cut out as it is.           *)
LEMMA LabelAt ==
    ASSUME NEW labels, Proper(labels), NEW rest \in Seq(0..255), NEW mark,
           Spelled(labels, rest, mark), NEW i \in 1..Len(labels)
    PROVE  /\ mark[i] \in 1..Len(rest) /\ mark[i + 1] \in 1..Len(rest)
           /\ rest[mark[i]] = Len(labels[i]) /\ Len(labels[i]) \in 1..63
           /\ mark[i + 1] = mark[i] + Len(labels[i]) + 1
           /\ mark[i] + Len(labels[i]) <= Len(rest)
           /\ SubSeq(rest, mark[i] + 1, mark[i] + Len(labels[i])) = labels[i]
<1> DEFINE n == Len(labels)
           m == mark[i]
           x == Len(labels[i])
<1>1. n \in Nat /\ Len(rest) \in Nat /\ x \in 1..63 /\ labels[i] \in Seq(0..255)
  <2>1. n \in Nat /\ Len(rest) \in Nat
    BY ProperLabels, LenProperties
  <2>2. labels[i] \in Seq(0..255)
    BY LabelBytes
  <2>3. x \in 1..63
    BY LabelSize
  <2> QED
    BY <2>1, <2>2, <2>3, Zenon
<1>2. m \in 1..Len(rest) /\ mark[i + 1] \in 1..Len(rest)
  <2>1. i \in 1..n + 1 /\ i + 1 \in 1..n + 1
    BY <1>1
  <2> QED
    BY <2>1, Zenon DEF Spelled
<1>3. /\ rest[m] = x /\ mark[i + 1] = m + x + 1
      /\ \A k \in 1..x : rest[m + k] = labels[i][k]
  BY Zenon DEF Spelled
<1> DEFINE after == mark[i + 1]
           label == SubSeq(rest, m + 1, m + x)
<1>4. m + x <= Len(rest)
  <2>1. after \in 1..Len(rest) /\ after = m + x + 1
    BY <1>2, <1>3
  <2> HIDE DEF m, x, after, n
  <2> QED
    BY <1>1, <1>2, <2>1
<1>5. label = labels[i]
  <2>1. \A j \in m + 1..m + x : rest[j] \in 0..255
    <3>1. \A j \in 1..Len(rest) : rest[j] \in 0..255
      BY ElementOfSeq
    <3>2. \A j \in m + 1..m + x : j \in 1..Len(rest)
      <4> HIDE DEF m, x
      <4> QED
        BY <1>1, <1>2, <1>4
    <3> QED
      BY <3>1, <3>2, Zenon
  <2>2. /\ label \in Seq(0..255) /\ Len(label) = x
        /\ \A k \in 1..x : label[k] = rest[m + k]
    <3>1. m + 1 \in Int /\ m + x \in Int
      <4> HIDE DEF m, x
      <4> QED
        BY <1>1, <1>2
    <3>2. /\ label \in Seq(0..255)
          /\ Len(label) = IF m + 1 <= m + x THEN (m + x) - (m + 1) + 1 ELSE 0
          /\ \A k \in 1..(m + x) - (m + 1) + 1 : label[k] = rest[(m + 1) + k - 1]
      <4> DEFINE a == m + 1
                 b == m + x
      <4>1. a \in Int /\ b \in Int /\ \A j \in a..b : rest[j] \in 0..255
        BY <2>1, <3>1
      <4>2. /\ SubSeq(rest, a, b) \in Seq(0..255)
            /\ Len(SubSeq(rest, a, b)) = IF a <= b THEN b - a + 1 ELSE 0
            /\ \A k \in 1..b - a + 1 : SubSeq(rest, a, b)[k] = rest[a + k - 1]
        <5> HIDE DEF a, b
        <5> QED
          BY <4>1, SubSeqProperties
      <4> HIDE DEF m, x
      <4> QED
        BY <4>2, Zenon
    <3>3. /\ (IF m + 1 <= m + x THEN (m + x) - (m + 1) + 1 ELSE 0) = x
          /\ (m + x) - (m + 1) + 1 = x
          /\ \A k \in 1..x : (m + 1) + k - 1 = m + k
      <4> HIDE DEF m, x, label
      <4> QED
        BY <1>1, <1>2
    <3> HIDE DEF m, x, label
    <3> QED
      BY <3>2, <3>3, Zenon
  <2>3. \A k \in 1..Len(label) : label[k] = labels[i][k]
    <3> HIDE DEF m, x, label
    <3> QED
      BY <1>3, <2>2, Zenon
  <2> DEFINE s == labels[i]
  <2>4. Len(label) = Len(s) /\ s \in Seq(0..255)
    BY <1>1, <2>2
  <2> HIDE DEF label, s
  <2>5. \A k \in 1..Len(label) : label[k] = s[k]
    BY <2>3 DEF s
  <2>6. label = s
    BY <2>2, <2>4, <2>5, SeqEqual, Zenon
  <2> QED
    BY <2>6 DEF s
<1> QED
  BY <1>1, <1>2, <1>3, <1>4, <1>5, Zenon

(* The walk finds the labels, all of them and no more, from the last one   *)
(* back to the first (DnsHelper.cpp:25-67).                                *)
LEMMA WalkRight ==
    ASSUME NEW labels, Proper(labels), NEW rest \in Seq(0..255), NEW mark,
           Spelled(labels, rest, mark)
    PROVE  Walk(rest) = [ok |-> TRUE, labels |-> labels, pointer |-> FALSE]
<1> DEFINE n == Len(labels)
           l == Len(rest)
           Found(i) == [ok |-> TRUE, labels |-> SubSeq(labels, i, n), pointer |-> FALSE]
<1>0. n \in Nat /\ l \in Nat /\ labels \in Seq(Seq(1..255))
  BY ProperLabels, LenProperties
<1>1. PICK at : Walked(rest, at) /\ Walk(rest) = at[1]
  BY WalkIs, Zenon
<1>2. ASSUME NEW p \in 1..l
      PROVE  at[p] = IF IsPointer(rest[p]) THEN
                         IF p < l THEN EndOfName(TRUE) ELSE NoName
                     ELSE IF rest[p] = 0 THEN EndOfName(FALSE)
                     ELSE IF p + rest[p] > l THEN NoName
                     ELSE LET label == SubSeq(rest, p + 1, p + rest[p])
                              tail == at[p + rest[p] + 1]
                          IN [tail EXCEPT !.labels = <<label>> \o @]
  <2>1. p \in 1..l + 1 /\ ~(p > l)
    BY <1>0
  <2> HIDE DEF l
  <2>2. l = Len(rest)
    BY DEF l
  <2> QED
    BY <1>1, <2>1, <2>2, Zenon DEF Walked
<1>3. at[mark[n + 1]] = Found(n + 1)
  <2>1. n + 1 \in 1..n + 1
    BY <1>0
  <2>2. mark[n + 1] \in 1..l /\ rest[mark[n + 1]] = 0
    BY <2>1, Zenon DEF Spelled
  <2>3. ~IsPointer(0)
    BY DEF IsPointer
  <2>4. at[mark[n + 1]] = EndOfName(FALSE)
    <3> HIDE DEF n, l
    <3> QED
      BY <1>2, <2>2, <2>3, Zenon
  <2>5. SubSeq(labels, n + 1, n) = <<>>
    BY <1>0, SubSeqEmpty
  <2> QED
    BY <2>4, <2>5, Zenon DEF EndOfName
<1>4. ASSUME NEW i \in 1..n, at[mark[i + 1]] = Found(i + 1) PROVE at[mark[i]] = Found(i)
  <2> DEFINE m == mark[i]
             x == Len(labels[i])
  <2>1. /\ m \in 1..l /\ rest[m] = x /\ x \in 1..63
        /\ mark[i + 1] = m + x + 1 /\ m + x <= l
        /\ SubSeq(rest, m + 1, m + x) = labels[i]
    BY LabelAt
  <2>2. ~IsPointer(x) /\ x # 0
    <3>1. x \in 1..63
      BY <2>1
    <3> HIDE DEF x
    <3> QED
      BY <3>1 DEF IsPointer
  <2>3. ~(m + x > l)
    <3> HIDE DEF m, x, l
    <3> QED
      BY <1>0, <2>1
  <2>4. at[m] = [at[m + x + 1] EXCEPT !.labels = <<labels[i]>> \o @]
    <3> HIDE DEF m, x, l, n
    <3> QED
      BY <1>2, <2>1, <2>2, <2>3, Zenon
  <2>5. at[m + x + 1] = Found(i + 1)
    BY <1>4, <2>1, Zenon
  <2>6. <<labels[i]>> \o SubSeq(labels, i + 1, n) = SubSeq(labels, i, n)
    <3>1. n \in i..n
      BY <1>0
    <3> QED
      BY <1>0, <3>1, SubSeqRecursiveFirst, Zenon
  <2> DEFINE s == SubSeq(labels, i + 1, n)
             t == SubSeq(labels, i, n)
  <2>7. [[ok |-> TRUE, labels |-> s, pointer |-> FALSE] EXCEPT !.labels = <<labels[i]>> \o @]
        = [ok |-> TRUE, labels |-> t, pointer |-> FALSE]
    <3> HIDE DEF s, t
    <3>1. <<labels[i]>> \o s = t
      BY <2>6 DEF s, t
    <3>2. [ok |-> TRUE, labels |-> s, pointer |-> FALSE].labels = s
      OBVIOUS
    <3>3. [[ok |-> TRUE, labels |-> s, pointer |-> FALSE] EXCEPT !.labels = t]
          = [ok |-> TRUE, labels |-> t, pointer |-> FALSE]
      <4>1. \A a, b : [[ok |-> a, labels |-> s, pointer |-> b] EXCEPT !.labels = t]
                     = [ok |-> a, labels |-> t, pointer |-> b]
        OBVIOUS
      <4> QED
        BY <4>1, Zenon
    <3> QED
      BY <3>1, <3>2, <3>3, Zenon
  <2> HIDE DEF m, x
  <2> QED
    BY <2>4, <2>5, <2>7 DEF m
<1>5. at[mark[1]] = Found(1)
  <2> DEFINE Right(i) == at[mark[i]] = Found(i)
             T == {d \in Nat : d <= n => Right(n + 1 - d)}
  <2> HIDE DEF Found, Right
  <2>1. 0 \in T
    <3>1. n + 1 - 0 = n + 1 /\ Right(n + 1)
      BY <1>0, <1>3 DEF Right
    <3> QED
      BY <3>1
  <2>2. ASSUME NEW d \in Nat, d \in T PROVE d + 1 \in T
    <3> SUFFICES ASSUME d + 1 <= n PROVE Right(n + 1 - (d + 1))
      OBVIOUS
    <3>1. Right(n + 1 - d)
      BY <1>0, <2>2
    <3> DEFINE i == n + 1 - (d + 1)
    <3>2. i \in 1..n /\ i + 1 = n + 1 - d
      BY <1>0
    <3> HIDE DEF i, n
    <3>3. Right(i)
      BY <1>4, <3>1, <3>2, Zenon DEF Right
    <3> QED
      BY <3>3 DEF i
  <2>3. \A d \in Nat : d \in T
    <3> HIDE DEF T
    <3> QED
      BY <2>1, <2>2, Induction
  <2>4. Right(n + 1 - n) /\ n + 1 - n = 1
    BY <1>0, <2>3
  <2>5. Right(1)
    BY <2>4, Zenon
  <2> QED
    BY <2>5, Zenon DEF Right
<1>6. mark[1] = 1
  BY Zenon DEF Spelled
<1>7. SubSeq(labels, 1, n) = labels
  BY <1>0, SubSeqFull
<1> QED
  BY <1>1, <1>5, <1>6, <1>7, Zenon

(* The loop of TypeAt. *)
Typing(rest, at) ==
    at = [p \in Nat \ {0} |->
        IF p > Len(rest) THEN Len(rest) + 1
        ELSE IF rest[p] = 0 THEN p + 1
        ELSE IF IsPointer(rest[p]) THEN p + 2
        ELSE at[p + rest[p] + 1]]

(* There is one, for the same reason.                                      *)
LEMMA TypingExists ==
    ASSUME NEW rest \in Seq(0..255)
    PROVE  \E at : Typing(rest, at)
<1> DEFINE l == Len(rest)
           Body(p, next) ==
               IF p > l THEN l + 1
               ELSE IF rest[p] = 0 THEN p + 1
               ELSE IF IsPointer(rest[p]) THEN p + 2
               ELSE next
           Below(d, at) ==
               at = [p \in Nat \ {0} |-> IF p + d <= l THEN 0 ELSE Body(p, at[p + rest[p] + 1])]
           T == {d \in Nat : \E at : Below(d, at)}
<1>0. l \in Nat /\ \A p \in 1..l : rest[p] \in 0..255
  BY LenProperties, ElementOfSeq
<1>1. 0 \in T
  <2> DEFINE at == [p \in Nat \ {0} |-> IF p + 0 <= l THEN 0 ELSE l + 1]
  <2>1. ASSUME NEW p \in Nat \ {0}, NEW next, ~(p + 0 <= l) PROVE l + 1 = Body(p, next)
    <3>1. p > l
      BY <1>0, <2>1
    <3> HIDE DEF l
    <3> QED
      BY <3>1, Zenon
  <2> HIDE DEF Body
  <2>2. \A p \in Nat \ {0} : at[p] = IF p + 0 <= l THEN 0 ELSE Body(p, at[p + rest[p] + 1])
    BY <2>1, Zenon
  <2>3. Below(0, at)
    <3>1. at = [p \in Nat \ {0} |-> at[p]]
      BY Zenon
    <3> HIDE DEF at
    <3> QED
      BY <2>2, <3>1, Zenon
  <2> HIDE DEF Below
  <2> QED
    BY <2>3
<1>2. ASSUME NEW d \in Nat, d \in T PROVE d + 1 \in T
  <2>1. PICK at : Below(d, at)
    BY <1>2
  <2> DEFINE g == [p \in Nat \ {0} |-> IF p + (d + 1) <= l THEN 0 ELSE Body(p, at[p + rest[p] + 1])]
  <2>2. ASSUME NEW p \in Nat \ {0}, ~(p + d <= l)
        PROVE  g[p] = at[p]
    <3>1. ~(p + (d + 1) <= l)
      BY <1>0, <2>2
    <3> HIDE DEF Body, l
    <3>2. at[p] = Body(p, at[p + rest[p] + 1])
      BY <2>1, <2>2, Zenon
    <3> QED
      BY <3>1, <3>2, Zenon
  <2>3. ASSUME NEW p \in Nat \ {0}, ~(p + (d + 1) <= l)
        PROVE  Body(p, at[p + rest[p] + 1]) = Body(p, g[p + rest[p] + 1])
    <3>1. CASE p > l \/ rest[p] = 0
      <4> HIDE DEF l, g
      <4> QED
        BY <3>1, Zenon
    <3>2. CASE ~(p > l \/ rest[p] = 0)
      <4>1. p \in 1..l
        BY <1>0, <3>2
      <4>2. rest[p] \in 1..255
        BY <1>0, <3>2, <4>1
      <4>3. p + rest[p] + 1 \in Nat \ {0} /\ ~((p + rest[p] + 1) + d <= l)
        <5> DEFINE r == rest[p]
        <5>1. l \in Nat /\ r \in 1..255 /\ ~(p + (d + 1) <= l)
          BY <1>0, <2>3, <4>2
        <5>2. p + r + 1 \in Nat \ {0} /\ ~((p + r + 1) + d <= l)
          <6> HIDE DEF l, r
          <6> QED
            BY <5>1
        <5> QED
          BY <5>2
      <4> HIDE DEF Body, g, l
      <4>4. g[p + rest[p] + 1] = at[p + rest[p] + 1]
        BY <2>2, <4>3, Zenon
      <4> QED
        BY <4>4, Zenon
    <3> QED
      BY <3>1, <3>2
  <2>4. Below(d + 1, g)
    BY <2>3
  <2> HIDE DEF g, Below
  <2> QED
    BY <2>4
<1>3. \A d \in Nat : d \in T
  <2> HIDE DEF T
  <2> QED
    BY <1>1, <1>2, Induction
<1>4. PICK at : Below(l, at)
  <2> HIDE DEF Below, l
  <2> QED
    BY <1>0, <1>3
<1>5. \A p \in Nat \ {0} : ~(p + l <= l)
  BY <1>0
<1>6. at = [p \in Nat \ {0} |-> Body(p, at[p + rest[p] + 1])]
  <2> HIDE DEF Body, l
  <2> QED
    BY <1>4, <1>5, Zenon
<1> QED
  BY <1>6, Zenon DEF Typing

(* So TypeAt is what it is defined to be.                                  *)
LEMMA TypeAtIs ==
    ASSUME NEW rest \in Seq(0..255)
    PROVE  \E at : Typing(rest, at) /\ TypeAt(rest) = at[1]
<1>1. Typing(rest, CHOOSE at : Typing(rest, at))
  BY TypingExists, Zenon
<1>2. TypeAt(rest) = (CHOOSE at : Typing(rest, at))[1]
  BY Zenon DEF TypeAt, Typing
<1> QED
  BY <1>1, <1>2, Zenon

(* The type is found behind the 0 of the name (DnsHelper.cpp:89-107).      *)
LEMMA TypeAtRight ==
    ASSUME NEW labels, Proper(labels), NEW rest \in Seq(0..255), NEW mark,
           Spelled(labels, rest, mark)
    PROVE  TypeAt(rest) = mark[Len(labels) + 1] + 1
<1> DEFINE n == Len(labels)
           l == Len(rest)
           end == mark[n + 1] + 1
<1>0. n \in Nat /\ l \in Nat
  BY ProperLabels, LenProperties
<1>1. PICK at : Typing(rest, at) /\ TypeAt(rest) = at[1]
  BY TypeAtIs, Zenon
<1>2. ASSUME NEW p \in 1..l
      PROVE  at[p] = IF rest[p] = 0 THEN p + 1
                     ELSE IF IsPointer(rest[p]) THEN p + 2
                     ELSE at[p + rest[p] + 1]
  <2>1. p \in Nat \ {0} /\ ~(p > l)
    BY <1>0
  <2> HIDE DEF l
  <2>2. l = Len(rest)
    BY DEF l
  <2> QED
    BY <1>1, <2>1, <2>2, Zenon DEF Typing
<1>3. at[mark[n + 1]] = end
  <2>1. n + 1 \in 1..n + 1
    BY <1>0
  <2>2. mark[n + 1] \in 1..l /\ rest[mark[n + 1]] = 0
    BY <2>1, Zenon DEF Spelled
  <2> HIDE DEF n, l
  <2> QED
    BY <1>2, <2>2, Zenon
<1>4. ASSUME NEW i \in 1..n PROVE at[mark[i]] = at[mark[i + 1]]
  <2> DEFINE m == mark[i]
             x == Len(labels[i])
  <2>1. m \in 1..l /\ rest[m] = x /\ x \in 1..63 /\ mark[i + 1] = m + x + 1
    BY LabelAt
  <2>2. ~IsPointer(x) /\ x # 0
    <3>1. x \in 1..63
      BY <2>1
    <3> HIDE DEF x
    <3> QED
      BY <3>1 DEF IsPointer
  <2> HIDE DEF m, x, l, n
  <2>3. at[m] = at[m + x + 1]
    BY <1>2, <2>1, <2>2, Zenon
  <2> QED
    BY <2>1, <2>3, Zenon DEF m
<1>5. at[mark[1]] = end
  <2> DEFINE Right(i) == at[mark[i]] = end
             T == {d \in Nat : d <= n => Right(n + 1 - d)}
  <2> HIDE DEF end, Right
  <2>1. 0 \in T
    <3>1. n + 1 - 0 = n + 1 /\ Right(n + 1)
      BY <1>0, <1>3 DEF Right
    <3> QED
      BY <3>1
  <2>2. ASSUME NEW d \in Nat, d \in T PROVE d + 1 \in T
    <3> SUFFICES ASSUME d + 1 <= n PROVE Right(n + 1 - (d + 1))
      OBVIOUS
    <3>1. Right(n + 1 - d)
      BY <1>0, <2>2
    <3> DEFINE i == n + 1 - (d + 1)
    <3>2. i \in 1..n /\ i + 1 = n + 1 - d
      BY <1>0
    <3> HIDE DEF i, n
    <3>3. Right(i)
      BY <1>4, <3>1, <3>2, Zenon DEF Right
    <3> QED
      BY <3>3 DEF i
  <2>3. \A d \in Nat : d \in T
    <3> HIDE DEF T
    <3> QED
      BY <2>1, <2>2, Induction
  <2>4. Right(n + 1 - n) /\ n + 1 - n = 1
    BY <1>0, <2>3
  <2>5. Right(1)
    BY <2>4, Zenon
  <2> QED
    BY <2>5, Zenon DEF Right
<1>6. mark[1] = 1
  BY Zenon DEF Spelled
<1> QED
  BY <1>1, <1>5, <1>6, Zenon

(* A message that asks for a name: where its type is, and what is parsed.  *)
LEMMA AskedFor ==
    ASSUME NEW labels, Proper(labels), NEW rest \in Seq(0..255), IsPrefix(Encode(labels), rest)
    PROVE  /\ Walk(rest) = [ok |-> TRUE, labels |-> labels, pointer |-> FALSE]
           /\ TypeAt(rest) = Len(Encode(labels)) + 1
<1>1. PICK mark : Spelled(labels, rest, mark) /\ mark[Len(labels) + 1] = Len(Encode(labels))
  BY PrefixSpells, Zenon
<1>2. Walk(rest) = [ok |-> TRUE, labels |-> labels, pointer |-> FALSE]
  BY <1>1, WalkRight, Zenon
<1>3. TypeAt(rest) = mark[Len(labels) + 1] + 1
  BY <1>1, TypeAtRight, Zenon
<1> QED
  BY <1>1, <1>2, <1>3, Zenon

(* The parser finds the name, if it fits the buffer, and else none         *)
(* (DnsHelper.cpp:21-71).                                                  *)
LEMMA ParsesName ==
    ASSUME NEW labels, Proper(labels), NEW rest \in Seq(0..255), IsPrefix(Encode(labels), rest)
    PROVE  IF Len(Encode(labels)) <= DomainSize
           THEN ParseName(rest) = [ok |-> TRUE, labels |-> labels, pointer |-> FALSE]
           ELSE ParseName(rest) = NoName
<1> DEFINE name == [ok |-> TRUE, labels |-> labels, pointer |-> FALSE]
           long == Len(Encode(labels))
           size == TextSize(labels)
<1>1. name.ok /\ name.labels = labels
  OBVIOUS
<1>2. Walk(rest) = name
  BY AskedFor, Zenon
<1>3. rest # <<>>
  <2>1. long \in 1..Len(rest)
    BY PrefixSpells, Zenon
  <2>2. Len(rest) \in Nat
    BY LenProperties
  <2> HIDE DEF long
  <2>3. Len(rest) # 0
    BY <2>1, <2>2
  <2> QED
    BY <2>3, EmptySeq
<1>4. size < DomainSize <=> long <= DomainSize
  <2>1. size \in Nat /\ long = size + 1
    BY TextSizeIs, Zenon
  <2> HIDE DEF long, size
  <2> QED
    BY <2>1, SizeAssumption
<1>5. ParseName(rest) = IF rest # <<>> /\ name.ok /\ TextSize(name.labels) < DomainSize
                        THEN name ELSE NoName
  BY <1>2, Zenon DEF ParseName
<1> HIDE DEF name, long
<1>6. ParseName(rest) = IF size < DomainSize THEN name ELSE NoName
  BY <1>1, <1>3, <1>5, Zenon
<1>7. IF long <= DomainSize THEN ParseName(rest) = name ELSE ParseName(rest) = NoName
  <2> HIDE DEF size
  <2> QED
    BY <1>4, <1>6, Zenon
<1> QED
  BY <1>7, Zenon DEF name, long

-----------------------------------------------------------------------------
(* The text of a name, and the probes in it.                               *)

(* The labels with dots in front, as Written has them. *)
Leading(labels) == [i \in DOMAIN labels |-> <<Dot>> \o labels[i]]

(* The dot is the first byte.                                              *)
LEMMA LeadingAt ==
    ASSUME NEW labels, Proper(labels)
    PROVE  /\ Leading(labels) \in Seq(Seq(1..255)) /\ Len(Leading(labels)) = Len(labels)
           /\ \A i \in 1..Len(labels) : Leading(labels)[i] = <<Dot>> \o labels[i]
<1> DEFINE n == Len(labels)
           z == <<Dot>>
<1>1. n \in Nat /\ DOMAIN labels = 1..n
  BY ProperLabels
<1>2. \A i \in 1..n : labels[i] \in Seq(1..255)
  BY LabelBytes
<1>3. z \in Seq(1..255)
  BY DEF Dot
<1>4. \A i \in 1..n : Leading(labels)[i] = z \o labels[i]
  BY <1>1, Zenon DEF Leading
<1> HIDE DEF z
<1>5. \A i \in 1..n : z \o labels[i] \in Seq(1..255)
  BY <1>2, <1>3, ConcatProperties
<1>6. Leading(labels) \in [1..n -> Seq(1..255)]
  <2>1. Leading(labels) = [i \in 1..n |-> Leading(labels)[i]]
    BY <1>1, <1>4, Zenon DEF Leading, z
  <2>2. \A i \in 1..n : Leading(labels)[i] \in Seq(1..255)
    BY <1>4, <1>5, Zenon
  <2> HIDE DEF n
  <2> QED
    BY <2>1, <2>2, Zenon
<1>7. Leading(labels) \in Seq(Seq(1..255)) /\ Len(Leading(labels)) = n
  <2> HIDE DEF n
  <2> QED
    BY <1>1, <1>6
<1> QED
  BY <1>4, <1>7, Zenon DEF z

(* A z moves past what is joined to a and to b. *)
Past(z, a, b, l) == z \o a = b \o z => z \o (a \o (l \o z)) = (b \o (z \o l)) \o z

(* It moves past one more l.                                               *)
LEMMA DotsPast == \A z, a, b, l \in Seq(1..255) : Past(z, a, b, l)
<1> TAKE z, a, b, l \in Seq(1..255)
<1>1. l \o z \in Seq(1..255) /\ b \o z \in Seq(1..255)
  BY ConcatProperties
<1>2. (z \o a) \o (l \o z) = z \o (a \o (l \o z))
  <2>1. \A u \in Seq(1..255) : (z \o a) \o u = z \o (a \o u)
    BY ConcatAssociative, SMTT(30)
  <2> QED
    BY <1>1, <2>1
<1>3. ((b \o z) \o l) \o z = (b \o z) \o (l \o z)
  <2>1. \A u \in Seq(1..255) : (u \o l) \o z = u \o (l \o z)
    BY ConcatAssociative, SMTT(30)
  <2> QED
    BY <1>1, <2>1
<1>4. (b \o z) \o l = b \o (z \o l)
  BY ConcatAssociative, SMTT(30)
<1> QED
  BY <1>2, <1>3, <1>4 DEF Past

(* Dots behind the labels or in front of them: the same text, moved by   *)
(* one.                                                                    *)
LEMMA DotsMoved ==
    ASSUME NEW labels, Proper(labels)
    PROVE  /\ Dotted(labels) \in Seq(1..255) /\ FlattenSeq(Leading(labels)) \in Seq(1..255)
           /\ <<Dot>> \o Dotted(labels) = FlattenSeq(Leading(labels)) \o <<Dot>>
<1> DEFINE n == Len(labels)
           z == <<Dot>>
           D == Dots(labels)
           W == Leading(labels)
<1>0. n \in Nat /\ \A i \in 1..n : labels[i] \in Seq(1..255)
  BY ProperLabels, LabelBytes
<1>1. D \in Seq(Seq(1..255)) /\ Len(D) = n /\ Dotted(labels) = FlattenSeq(D)
      /\ \A i \in 1..n : D[i] = labels[i] \o z
  BY DotsAt
<1>2. W \in Seq(Seq(1..255)) /\ Len(W) = n /\ \A i \in 1..n : W[i] = z \o labels[i]
  BY LeadingAt
<1>3. z \in Seq(1..255)
  BY DEF Dot
<1> HIDE DEF D, W, z
<1>4. PICK d : Joins(1..255, D, d) /\ FlattenSeq(D) = d[n]
  BY <1>1, FlattenJoins
<1>5. PICK w : Joins(1..255, W, w) /\ FlattenSeq(W) = w[n]
  BY <1>2, FlattenJoins
<1>6. d \in [0..n -> Seq(1..255)] /\ d[0] = <<>> /\ \A i \in 1..n : d[i] = d[i - 1] \o D[i]
  BY <1>1, <1>4, Zenon DEF Joins
<1>7. w \in [0..n -> Seq(1..255)] /\ w[0] = <<>> /\ \A i \in 1..n : w[i] = w[i - 1] \o W[i]
  BY <1>2, <1>5, Zenon DEF Joins
<1> DEFINE Moved(i) == z \o d[i] = w[i] \o z
<1>8. Moved(0)
  <2>1. z \o <<>> = z /\ <<>> \o z = z
    BY <1>3, ConcatEmptySeq
  <2> QED
    BY <1>6, <1>7, <2>1, Zenon
<1>9. ASSUME NEW i \in 1..n, Moved(i - 1) PROVE Moved(i)
  <2> DEFINE l == labels[i]
             a == d[i - 1]
             b == w[i - 1]
  <2>1. i - 1 \in 0..n
    BY <1>0
  <2>2. l \in Seq(1..255) /\ a \in Seq(1..255) /\ b \in Seq(1..255)
    BY <1>0, <1>6, <1>7, <2>1, ZenonT(30)
  <2>3. d[i] = a \o (l \o z) /\ w[i] = b \o (z \o l)
    BY <1>1, <1>2, <1>6, <1>7, Zenon
  <2>4. z \o a = b \o z
    BY <1>9
  <2> HIDE DEF l, a, b
  <2>5. Past(z, a, b, l)
    BY <1>3, <2>2, DotsPast, Zenon
  <2> QED
    BY <2>3, <2>4, <2>5 DEF Past
<1>10. \A i \in Nat : i <= n => Moved(i)
  <2> DEFINE T == {i \in Nat : i <= n => Moved(i)}
  <2> HIDE DEF Moved
  <2>1. 0 \in T
    BY <1>8
  <2>2. ASSUME NEW i \in Nat, i \in T PROVE i + 1 \in T
    <3> SUFFICES ASSUME i + 1 <= n PROVE Moved(i + 1)
      OBVIOUS
    <3>1. i + 1 \in 1..n /\ (i + 1) - 1 = i /\ Moved(i)
      BY <1>0, <2>2
    <3> QED
      BY <1>9, <3>1, Zenon
  <2>3. \A i \in Nat : i \in T
    <3> HIDE DEF T
    <3> QED
      BY <2>1, <2>2, Induction
  <2> QED
    BY <2>3
<1>11. z \o d[n] = w[n] \o z
  BY <1>0, <1>10
<1>12. d[n] \in Seq(1..255) /\ w[n] \in Seq(1..255)
  <2>1. n \in 0..n
    BY <1>0
  <2> QED
    BY <1>6, <1>7, <2>1, Zenon
<1> QED
  BY <1>1, <1>4, <1>5, <1>11, <1>12, Zenon DEF z, W

(* A string without a byte 0 ends at the one behind it.                    *)
LEMMA EndsAtZero ==
    ASSUME NEW text \in Seq(1..255)
    PROVE  SubSeq(text, 1, SelectInSeq(text \o <<0>>, LAMBDA byte : byte = 0) - 1) = text
<1> DEFINE l == Len(text)
           s == text \o <<0>>
           I == {i \in 1..Len(s) : s[i] = 0}
<1>1. l \in Nat /\ \A p \in 1..l : text[p] \in 1..255
  BY LenProperties, ElementOfSeq
<1>2. Len(s) = l + 1 /\ s[l + 1] = 0 /\ \A p \in 1..l : s[p] = text[p]
  <2> DEFINE z == <<0>>
  <2>1. z \in Seq(0..255) /\ Len(z) = 1 /\ z[1] = 0 /\ 1 \in 1..1
    OBVIOUS
  <2>2. text \in Seq(0..255)
    <3>1. 1..255 \subseteq 0..255
      OBVIOUS
    <3> QED
      BY <3>1, SeqMonotonic
  <2> HIDE DEF z
  <2>3. /\ Len(text \o z) = Len(text) + Len(z)
        /\ \A p \in 1..Len(text) : (text \o z)[p] = text[p]
        /\ \A k \in 1..Len(z) : (text \o z)[Len(text) + k] = z[k]
    BY <2>1, <2>2, ConcatBytes, ZenonT(30)
  <2> QED
    BY <2>1, <2>3, Zenon DEF z
<1> HIDE DEF s
<1>3. I = {l + 1}
  <2>1. ASSUME NEW i \in 1..l + 1 PROVE s[i] = 0 <=> i = l + 1
    <3>1. CASE i = l + 1
      BY <1>2, <3>1
    <3>2. CASE i # l + 1
      <4>1. i \in 1..l
        BY <1>1, <3>2
      <4>2. s[i] = text[i] /\ text[i] \in 1..255
        BY <1>1, <1>2, <4>1, Zenon
      <4>3. \A x \in 1..255 : x # 0
        OBVIOUS
      <4> QED
        BY <3>2, <4>2, <4>3, Zenon
    <3> QED
      BY <3>1, <3>2
  <2>2. l + 1 \in 1..l + 1
    BY <1>1
  <2> HIDE DEF l
  <2> QED
    BY <1>2, <2>1, <2>2, Zenon
<1>4. Min(I) = l + 1
  <2>1. l + 1 \in {l + 1} /\ \A y \in {l + 1} : l + 1 =< y
    BY <1>1
  <2> HIDE DEF I
  <2>2. \A x : x \in {l + 1} /\ (\A y \in {l + 1} : x =< y) <=> x = l + 1
    BY <2>1, Zenon
  <2>3. (CHOOSE x : x \in {l + 1} /\ \A y \in {l + 1} : x =< y) = l + 1
    BY <2>2, Zenon
  <2> QED
    BY <1>3, <2>2, Zenon DEF Min
<1>5. SelectInSeq(s, LAMBDA byte : byte = 0) = IF I # {} THEN Min(I) ELSE 0
  BY Zenon DEF SelectInSeq
<1>6. SelectInSeq(s, LAMBDA byte : byte = 0) - 1 = l
  BY <1>1, <1>3, <1>4, <1>5
<1>7. SubSeq(text, 1, l) = text
  BY SubSeqFull
<1> QED
  BY <1>6, <1>7, Zenon DEF s

(* The string left in the buffer is the name as people write it.           *)
LEMMA TextWritten ==
    ASSUME NEW labels, Proper(labels)
    PROVE  /\ Text([ok |-> TRUE, labels |-> labels, pointer |-> FALSE]) = Written(labels)
           /\ Written(labels) \in Seq(1..255)
<1> DEFINE name == [ok |-> TRUE, labels |-> labels, pointer |-> FALSE]
           d == Dotted(labels)
           w == FlattenSeq(Leading(labels))
           z == <<Dot>>
           joined == IF d = <<>> THEN d ELSE Front(d)
<1>1. d \in Seq(1..255) /\ w \in Seq(1..255) /\ z \o d = w \o z
  BY DotsMoved
<1>2. z \in Seq(1..255) /\ Len(z) = 1
  BY DEF Dot
<1>3. Written(labels) = IF w = <<>> THEN w ELSE Tail(w)
  BY Zenon DEF Written, Leading
<1>4. Text(name) = SubSeq(joined, 1, SelectInSeq(joined \o <<0>>, LAMBDA byte : byte = 0) - 1)
  <2>1. name.labels = labels /\ ~name.pointer
    OBVIOUS
  <2> HIDE DEF name
  <2> QED
    BY <2>1, Zenon DEF Text
<1> HIDE DEF d, w, z, name
<1>5. /\ Len(d) \in Nat /\ Len(w) \in Nat /\ Len(d) = Len(w)
      /\ \A k \in 1..Len(d) : (z \o d)[1 + k] = d[k]
      /\ \A k \in 1..Len(w) : (w \o z)[k] = w[k]
  <2>a. \A s, t \in Seq(1..255) :
           /\ Len(s) \in Nat /\ Len(s \o t) = Len(s) + Len(t)
           /\ \A p \in 1..Len(s) : (s \o t)[p] = s[p]
           /\ \A k \in 1..Len(t) : (s \o t)[Len(s) + k] = t[k]
    BY ConcatAt
  <2>1. /\ Len(d) \in Nat /\ Len(z \o d) = Len(z) + Len(d)
        /\ \A k \in 1..Len(d) : (z \o d)[Len(z) + k] = d[k]
    BY <1>1, <1>2, <2>a, Zenon
  <2>2. /\ Len(w) \in Nat /\ Len(w \o z) = Len(w) + Len(z)
        /\ \A k \in 1..Len(w) : (w \o z)[k] = w[k]
    BY <1>1, <1>2, <2>a, Zenon
  <2>3. Len(z) + Len(d) = Len(w) + Len(z)
    BY <1>1, <2>1, <2>2, Zenon
  <2>4. Len(d) = Len(w)
    BY <1>2, <2>1, <2>2, <2>3
  <2> QED
    BY <1>2, <2>1, <2>2, <2>4, Zenon
<1>6. joined = Written(labels) /\ joined \in Seq(1..255)
  <2>1. CASE d = <<>>
    <3>1. w = <<>>
      BY <1>1, <1>5, <2>1, EmptySeq
    <3> QED
      BY <1>1, <1>3, <2>1, <3>1
  <2>2. CASE d # <<>>
    <3>1. w # <<>> /\ Len(d) \in Nat \ {0}
      BY <1>1, <1>5, <2>2, EmptySeq
    <3> DEFINE l == Len(d) - 1
               s == SubSeq(d, 1, l)
               t == Tail(w)
    <3>2. l \in Nat /\ l + 1 = Len(d)
      BY <3>1
    <3>3. s \in Seq(1..255) /\ Len(s) = l /\ \A k \in 1..l : s[k] = d[k]
      <4>1. \A i \in 1..l : d[i] \in 1..255
        <5>1. \A i \in 1..Len(d) : d[i] \in 1..255
          BY <1>1, ElementOfSeq
        <5>2. \A i \in 1..l : i \in 1..Len(d)
          BY <3>2
        <5> QED
          BY <5>1, <5>2, Zenon
      <4> HIDE DEF l
      <4>2. /\ s \in Seq(1..255) /\ Len(s) = IF 1 <= l THEN l - 1 + 1 ELSE 0
            /\ \A i \in 1..l - 1 + 1 : s[i] = d[1 + i - 1]
        BY <3>2, <4>1, SubSeqProperties
      <4>3. /\ (IF 1 <= l THEN l - 1 + 1 ELSE 0) = l /\ l - 1 + 1 = l
            /\ \A k \in 1..l : 1 + k - 1 = k
        BY <3>2
      <4> HIDE DEF s
      <4> QED
        BY <4>2, <4>3, Zenon
    <3>4. t \in Seq(1..255) /\ Len(t) = l /\ \A k \in 1..l : t[k] = w[k + 1]
      <4>1. /\ t \in Seq(1..255) /\ Len(t) = Len(w) - 1
            /\ \A k \in 1..Len(t) : t[k] = w[k + 1]
        BY <1>1, <3>1, HeadTailProperties
      <4> HIDE DEF t
      <4> QED
        BY <1>5, <4>1
    <3>5. \A k \in 1..l : s[k] = t[k]
      <4> TAKE k \in 1..l
      <4>1. k \in 1..Len(d) /\ k + 1 \in 1..Len(w) /\ 1 + k = k + 1
        BY <1>5, <3>2
      <4>2. (z \o d)[k + 1] = d[k] /\ (w \o z)[k + 1] = w[k + 1]
        BY <1>5, <4>1, Zenon
      <4> HIDE DEF s, t, l
      <4> QED
        BY <1>1, <3>3, <3>4, <4>2, Zenon
    <3>6. s = t
      <4> HIDE DEF s, t, l
      <4>1. Len(s) = Len(t) /\ \A k \in 1..Len(s) : s[k] = t[k]
        BY <3>3, <3>4, <3>5, Zenon
      <4> QED
        BY <3>3, <3>4, <4>1, SeqEqual, Zenon
    <3>7. joined = s
      BY <2>2, Zenon DEF Front
    <3> HIDE DEF joined, s
    <3> QED
      BY <1>3, <3>1, <3>3, <3>6, <3>7, Zenon
  <2> QED
    BY <2>1, <2>2
<1> HIDE DEF joined
<1>7. Text(name) = joined
  BY <1>4, <1>6, EndsAtZero, Zenon
<1> QED
  BY <1>6, <1>7, Zenon DEF name

(* A probe that is a part of the text, in whichever case, is found.        *)
LEMMA ProbeFound ==
    ASSUME NEW text \in Seq(1..255), NEW probe \in Probe,
           NEW before \in 0..Len(text), NEW after \in 0..Len(text),
           SubSeq(ToLower(text), before + 1, after) = probe
    PROVE  IsCaptiveProbe(text)
<1> DEFINE low == ToLower(text)
           l == Len(text)
           s == SubSeq(low, before + 1, after)
<1>1. l \in Nat /\ DOMAIN text = 1..l /\ \A i \in 1..l : text[i] \in 1..255
  BY LenProperties, ElementOfSeq
<1>2. ASSUME NEW i \in 1..l PROVE low[i] = Lower(text[i]) /\ low[i] \in Nat
  <2>1. low[i] = Lower(text[i])
    BY <1>1, Zenon DEF ToLower, Lower
  <2>2. \A x \in 1..255 : Lower(x) \in Nat
    BY DEF Lower
  <2> QED
    BY <1>1, <2>1, <2>2, Zenon
<1>3. /\ Len(s) = IF before + 1 <= after THEN after - (before + 1) + 1 ELSE 0
      /\ \A j \in 1..after - (before + 1) + 1 : s[j] = low[before + 1 + j - 1]
  <2>1. \A i \in before + 1..after : low[i] \in Nat
    <3>1. \A i \in before + 1..after : i \in 1..l
      BY <1>1
    <3> QED
      BY <1>2, <3>1, Zenon
  <2>2. before + 1 \in Int /\ after \in Int
    BY <1>1
  <2> DEFINE b == before + 1
  <2>3. b \in Int /\ after \in Int /\ \A i \in b..after : low[i] \in Nat
    BY <2>1, <2>2
  <2>4. /\ Len(SubSeq(low, b, after)) = IF b <= after THEN after - b + 1 ELSE 0
        /\ \A j \in 1..after - b + 1 : SubSeq(low, b, after)[j] = low[b + j - 1]
    <3> HIDE DEF b, low
    <3> QED
      BY <2>3, SubSeqProperties
  <2> QED
    BY <2>4, Zenon
<1>4. Len(s) \in Nat /\ before + Len(s) <= l
  BY <1>1, <1>3
<1>5. ASSUME NEW j \in 1..Len(s) PROVE before + j \in 1..l /\ s[j] = low[before + j]
  <2>1. Len(s) = after - (before + 1) + 1 /\ before + 1 + j - 1 = before + j /\ before + j \in 1..l
    BY <1>1, <1>3, <1>4
  <2> QED
    BY <1>3, <2>1, Zenon
<1>6. \A j \in 1..Len(s) : Lower(text[before + j]) = s[j]
  BY <1>2, <1>5, Zenon
<1> HIDE DEF s
<1>7. s = probe
  BY DEF s
<1> QED
  BY <1>4, <1>6, <1>7, Zenon DEF IsCaptiveProbe

-----------------------------------------------------------------------------
(* What is redirected.                                                     *)

(* The answer is a pointer to the beginning, and ends in the address.      *)
LEMMA AnswerIs ==
    /\ Answer \in Seq(0..255) /\ Len(Answer) = 16
    /\ SubSeq(Answer, 1, 2) = <<192, HeaderSize>>
    /\ SubSeq(Answer, 13, 16) = Address
<1> DEFINE head == <<192, HeaderSize, 0, 1, 0, 1, 0, 0, 0, 60, 0, 4>>
<1>1. head \in Seq(0..255) /\ Len(head) = 12 /\ head[1] = 192 /\ head[2] = HeaderSize
  BY DEF HeaderSize
<1>2. Address \in Seq(0..255) /\ Len(Address) = 4
  BY AddressAssumption
<1>3. Answer = head \o Address
  BY DEF Answer
<1> HIDE DEF head
<1>4. /\ Answer \in Seq(0..255) /\ Len(Answer) = Len(head) + Len(Address)
      /\ \A p \in 1..Len(head) : Answer[p] = head[p]
      /\ \A k \in 1..Len(Address) : Answer[Len(head) + k] = Address[k]
  <2>1. head \in Seq(0..255) /\ Address \in Seq(0..255)
    BY <1>1, <1>2
  <2>2. /\ head \o Address \in Seq(0..255)
        /\ Len(head \o Address) = Len(head) + Len(Address)
        /\ \A p \in 1..Len(head) : (head \o Address)[p] = head[p]
        /\ \A k \in 1..Len(Address) : (head \o Address)[Len(head) + k] = Address[k]
    BY <2>1, ConcatBytes, ZenonT(30)
  <2> QED
    BY <1>3, <2>2, Zenon
<1>5. Len(Answer) = 16
  BY <1>1, <1>2, <1>4
<1>6. Answer[1] = 192 /\ Answer[2] = HeaderSize
  BY <1>1, <1>4
<1>7. SubSeq(Answer, 1, 2) = <<192, HeaderSize>>
  <2>1. \A i \in 1..16 : Answer[i] \in 0..255
    <3>1. Answer \in Seq(0..255)
      BY <1>4
    <3> QED
      BY <1>5, <3>1, ElementOfSeq
  <2>2. /\ SubSeq(Answer, 1, 2) \in Seq(0..255) /\ Len(SubSeq(Answer, 1, 2)) = 2
        /\ \A i \in 1..2 - 1 + 1 : SubSeq(Answer, 1, 2)[i] = Answer[1 + i - 1]
    BY <2>1, SubSeqProperties
  <2> DEFINE s == SubSeq(Answer, 1, 2)
  <2>3. s \in Seq(0..255) /\ Len(s) = 2 /\ s[1] = 192 /\ s[2] = HeaderSize
    BY <1>6, <2>2
  <2> HIDE DEF s
  <2>4. s = <<192, HeaderSize>>
    BY <2>3
  <2> QED
    BY <2>4 DEF s
<1>8. SubSeq(Answer, 13, 16) = Address
  <2>1. \A i \in 13..16 : Answer[i] \in 0..255
    <3>1. \A i \in 1..Len(Answer) : Answer[i] \in 0..255
      BY <1>4, ElementOfSeq
    <3>2. \A i \in 13..16 : i \in 1..Len(Answer)
      BY <1>5
    <3> QED
      BY <3>1, <3>2, Zenon
  <2> DEFINE s == SubSeq(Answer, 13, 16)
  <2>2. /\ s \in Seq(0..255) /\ Len(s) = 4
        /\ \A i \in 1..16 - 13 + 1 : s[i] = Answer[13 + i - 1]
    BY <2>1, SubSeqProperties
  <2>3. \A i \in 1..4 : s[i] = Answer[12 + i] /\ Answer[12 + i] = Address[i]
    <3>1. \A i \in 1..4 : i \in 1..16 - 13 + 1 /\ 13 + i - 1 = 12 + i
      OBVIOUS
    <3>2. \A i \in 1..4 : s[i] = Answer[12 + i]
      <4> HIDE DEF s
      <4> QED
        BY <2>2, <3>1, Zenon
    <3>3. \A i \in 1..4 : Answer[12 + i] = Address[i]
      BY <1>1, <1>2, <1>4, SMTT(30)
    <3> QED
      BY <3>2, <3>3
  <2> HIDE DEF s
  <2>4. s = Address
    BY <1>2, <2>2, <2>3, SeqEqual
  <2> QED
    BY <2>4 DEF s
<1> QED
  BY <1>4, <1>5, <1>7, <1>8

(* What is redirected is the question with the answer behind it            *)
(* (DnsHelper.cpp:74-170).                                                 *)
LEMMA RedirectAnswers ==
    ASSUME NEW labels, Proper(labels), NEW rest \in Seq(0..255), IsPrefix(Encode(labels), rest),
           NEW q, q.rest = rest, Redirect(q) # NoReply
    PROVE  LET question == Encode(labels) \o <<0, 1, 0, 1>>
           IN Redirect(q) = [qdcount |-> 1, ancount |-> 1, rcode |-> 0, rest |-> question \o Answer]
<1> DEFINE long == Len(Encode(labels))
           type == <<0, 1, 0, 1>>
           n == long + 4
<1>1. long \in 1..Len(rest) /\ Encode(labels) = SubSeq(rest, 1, long)
  BY PrefixSpells, Zenon
<1>2. TypeAt(rest) = long + 1
  BY AskedFor, Zenon
<1> HIDE DEF long
<1>3. /\ long + 1 \in 1..Len(rest) - 3
      /\ SubSeq(rest, long + 1, long + 1 + 3) = type
      /\ Redirect(q) = [qdcount |-> 1, ancount |-> 1, rcode |-> 0,
                        rest |-> Copied(q, long + 1 + 3) \o Answer]
  BY <1>2, Zenon DEF Redirect
<1>4. Len(rest) \in Nat /\ long + 1 + 3 = n
  BY <1>1, LenProperties
<1>5. SubSeq(rest, 1, long) \o SubSeq(rest, long + 1, n) = SubSeq(rest, 1, n)
  <2>1. 1 \in 1..Len(rest) + 1 /\ long \in 1 - 1..Len(rest) /\ n \in long..Len(rest)
    BY <1>1, <1>3, <1>4
  <2> HIDE DEF n
  <2> QED
    BY <2>1, ConcatAdjacentSubSeq
<1>6. Copied(q, n) = SubSeq(rest, 1, n)
  BY DEF Copied
<1>7. Copied(q, n) = Encode(labels) \o type
  BY <1>1, <1>3, <1>4, <1>5, <1>6, Zenon
<1> QED
  BY <1>3, <1>4, <1>7, Zenon

(* There the answer is found again.                                        *)
LEMMA AnswerBehind ==
    ASSUME NEW labels, Proper(labels)
    PROVE  LET question == Encode(labels) \o <<0, 1, 0, 1>>
               whole == question \o Answer
               answer == SubSeq(whole, Len(question) + 1, Len(whole))
           IN /\ IsPrefix(question, whole)
              /\ Len(answer) = 16
              /\ SubSeq(answer, 1, 2) = <<192, HeaderSize>>
              /\ SubSeq(answer, 13, 16) = Address
<1> DEFINE type == <<0, 1, 0, 1>>
           code == Encode(labels)
           s == code \o type
           whole == s \o Answer
<1>1. code \in Seq(0..255)
  BY EncodeSpells, Zenon
<1>2. type \in Seq(0..255) /\ Len(type) = 4
  OBVIOUS
<1>3. s \in Seq(0..255) /\ Len(s) \in Nat /\ Len(s) = Len(code) + 4 /\ Len(code) \in Nat
  <2> HIDE DEF code, type
  <2>1. /\ code \o type \in Seq(0..255) /\ Len(code) \in Nat
        /\ Len(code \o type) = Len(code) + Len(type)
    BY <1>1, <1>2, ConcatBytes, ZenonT(30)
  <2> QED
    BY <1>2, <2>1
<1> HIDE DEF s
<1>4. Answer \in Seq(0..255) /\ Len(Answer) = 16
  BY AnswerIs
<1>5. whole \in Seq(0..255) /\ Len(whole) = Len(s) + 16
  <2>1. s \o Answer \in Seq(0..255) /\ Len(s \o Answer) = Len(s) + Len(Answer)
    BY <1>3, <1>4, ConcatBytes, ZenonT(30)
  <2> QED
    BY <1>4, <2>1, Zenon
<1>6. IsPrefix(s, whole)
  <2>1. 1 \in 1..Len(s) /\ Len(s) \in 1..Len(s) /\ Len(s) <= Len(whole)
    <3> HIDE DEF code, whole
    <3> QED
      BY <1>3, <1>5
  <2>2. SubSeq(s \o Answer, 1, Len(s)) = SubSeq(s, 1, Len(s))
    BY <1>3, <1>4, <2>1, SubSeqOfConcat1
  <2>3. SubSeq(s, 1, Len(s)) = SubSeq(whole, 1, Len(s))
    BY <2>2, Zenon
  <2> HIDE DEF whole
  <2> QED
    BY <2>1, <2>3, Zenon DEF IsPrefix
<1>7. SubSeq(whole, Len(s) + 1, Len(whole)) = Answer
  <2> DEFINE a == Len(s) + 1
             b == Len(s) + 16
  <2>1. /\ a \in Len(s) + 1..Len(s) + Len(Answer) /\ b \in Len(s) + 1..Len(s) + Len(Answer)
        /\ a - Len(s) = 1 /\ b - Len(s) = 16
    BY <1>3, <1>4
  <2>2. SubSeq(s \o Answer, a, b) = SubSeq(Answer, a - Len(s), b - Len(s))
    <3> HIDE DEF a, b
    <3> QED
      BY <1>3, <1>4, <2>1, SubSeqOfConcat2, ZenonT(30)
  <2>3. SubSeq(Answer, 1, 16) = Answer
    BY <1>4, SubSeqFull
  <2>4. SubSeq(whole, a, b) = Answer
    <3> HIDE DEF a, b
    <3> QED
      BY <2>1, <2>2, <2>3, Zenon
  <2> HIDE DEF whole
  <2> QED
    BY <1>5, <2>4, Zenon
<1>8. /\ IsPrefix(s, whole) /\ Len(SubSeq(whole, Len(s) + 1, Len(whole))) = 16
      /\ SubSeq(SubSeq(whole, Len(s) + 1, Len(whole)), 1, 2) = <<192, HeaderSize>>
      /\ SubSeq(SubSeq(whole, Len(s) + 1, Len(whole)), 13, 16) = Address
  <2> HIDE DEF whole
  <2> QED
    BY <1>4, <1>6, <1>7, AnswerIs, Zenon
<1> QED
  BY <1>8, Zenon DEF s

-----------------------------------------------------------------------------
(* To whom and when replies are sent.                                      *)

(* The task is in the callback, with the sender stored or not. *)
Answering == {"enter", "test", "call", "lookup", "reply"}
Handling == Answering \cup {"store"}

(* A packet that is handled has come. *)
Arrived == tpc \in Handling => query \in Query /\ from \in Client

(* The last sender stored is the one that asked, unless the mutex was not  *)
(* to be had: then stop() holds it, or has closed the socket.              *)
Stored == tpc \in Answering => lastSender = from \/ ~open \/ apc = "close"

(* stop() has told the receive task to end before it takes the mutex, and  *)
(* there is none when init() creates one.                                  *)
Told ==
    /\ apc \in {"create", "lock", "close"} => ~running
    /\ apc = "create" => tpc = "none"
    /\ apc \in {"create", "announce"} => enabled

(* stop() has closed the socket, and init() was not called since. *)
Stopped == apc \in {"forget", "withdraw"} \/ (apc = "idle" /\ ~enabled)

(* From then on, and whenever it was not running when stop() was called,   *)
(* the task may open a socket, but handles nothing with it.                *)
Deaf ==
    /\ Stopped => ~running
    /\ ~running /\ apc \notin {"lock", "close"} => (tpc \in Handling => ~open)

Inv == TypeOK /\ Arrived /\ Stored /\ Told /\ Deaf /\ ReplyToAsker

-----------------------------------------------------------------------------
(* What is sent fits the buffer of _udpCallbackRaw.                        *)

Fit(message) == message = NoReply \/ HeaderSize + Len(message.rest) <= ResponseSize

(* A query is what its type says.                                          *)
LEMMA QueryType ==
    ASSUME NEW q \in Query
    PROVE  q.qdcount \in Nat /\ q.rest \in Seq(0..255) /\ Len(q.rest) \in Nat
BY QueryAssumption

(* A redirect fits, whatever the name and what is behind it: the part of   *)
(* the query that is copied is no longer than the query, for which         *)
(* the room was checked (DnsHelper.cpp:76).                                *)
LEMMA RedirectFits ==
    ASSUME NEW q \in Query
    PROVE  Fit(Redirect(q))
<1> DEFINE at == TypeAt(q.rest)
<1>1. CASE /\ Fits(q, 16) /\ at \in 1..Len(q.rest) - 3
           /\ Redirect(q) = [qdcount |-> 1, ancount |-> 1, rcode |-> 0,
                             rest |-> Copied(q, at + 3) \o Answer]
  <2> HIDE DEF at
  <2>1. q.rest \in Seq(0..255) /\ Len(q.rest) \in Nat
    BY QueryType
  <2>2. ASSUME NEW i \in 1..at + 3 PROVE q.rest[i] \in 0..255
    <3>1. i \in 1..Len(q.rest)
      BY <1>1, <2>1
    <3> QED
      BY <2>1, <3>1, LenProperties, ZenonT(30)
  <2>3. Copied(q, at + 3) \in Seq(0..255) /\ Len(Copied(q, at + 3)) = at + 3
    BY <1>1, <2>1, <2>2, SubSeqProperties DEF Copied
  <2>5. Answer \in Seq(0..255) /\ Len(Answer) = 16
    BY AnswerIs
  <2>6. Len(Copied(q, at + 3) \o Answer) = at + 3 + 16
    <3>1. Len(Copied(q, at + 3) \o Answer) = Len(Copied(q, at + 3)) + Len(Answer)
      BY <2>3, <2>5, ConcatProperties, ZenonT(30)
    <3> QED
      BY <2>3, <2>5, <3>1
  <2>7. ResponseSize >= HeaderSize + Len(q.rest) + 16
    BY <1>1 DEF Fits, Length
  <2>8. HeaderSize + (at + 3 + 16) <= ResponseSize
    BY <1>1, <2>1, <2>7, SizeAssumption DEF HeaderSize
  <2> QED
    BY <1>1, <2>6, <2>8 DEF Fit
<1>2. CASE Redirect(q) = NoReply
  BY <1>2 DEF Fit
<1> QED
  BY <1>1, <1>2 DEF Redirect

(* So does the query sent back as NXDOMAIN (DnsHelper.cpp:174).            *)
LEMMA NxDomainFits ==
    ASSUME NEW q \in Query
    PROVE  Fit(NxDomain(q))
<1>1. CASE Fits(q, 0)
  <2>1. NxDomain(q).rest = q.rest
    BY <1>1 DEF NxDomain
  <2>2. HeaderSize + Len(q.rest) <= ResponseSize
    BY <1>1, QueryType, SizeAssumption DEF Fits, Length, HeaderSize
  <2> QED
    BY <2>1, <2>2 DEF Fit
<1>2. CASE ~Fits(q, 0)
  BY <1>2 DEF NxDomain, Fit
<1> QED
  BY <1>1, <1>2

-----------------------------------------------------------------------------
(* TypeOK, with the flags and the messages one by one.                     *)
Types ==
    /\ enabled \in BOOLEAN /\ callback \in BOOLEAN /\ dnsActive \in BOOLEAN
    /\ running \in BOOLEAN /\ open \in BOOLEAN /\ fault \in BOOLEAN
    /\ lastSender \in Client \cup {None}
    /\ from \in Client \cup {None} /\ to \in Client \cup {None}
    /\ tracked \subseteq Client
    /\ apc \in {"idle", "create", "announce", "end", "lock", "close", "forget", "withdraw"}
    /\ tpc \in {"none", "loop", "open", "receive", "store", "exit", "enter", "test", "call",
                "lookup", "reply"}
    /\ query \in Query \cup {None}
    /\ Fit(reply) /\ Fit(sent)

LEMMA Typed == (TypeOK <=> Types) /\ (TypeOK' <=> Types')
<1>1. TypeOK <=> Types
  BY DEF TypeOK, Types, Fit
<1>2. TypeOK' <=> Types'
  BY DEF TypeOK, Types, Fit
<1> QED
  BY <1>1, <1>2

(* The application's steps change no packet.                               *)
LEMMA AppKeeps ==
    ASSUME Inv, AppStep
    PROVE  Inv'
<1> USE DEF dnsVars, udpVars, packetVars, AppGoto
<1>0. UNCHANGED <<lastSender, tracked, packetVars, fault>>
  BY DEF AppStep, CallInit, CreateTask, Announce, OnQuery, CallStop, EndTask, LockSocket,
         CloseSocket, Forget, Withdraw
<1>1. Fit(reply)' /\ Fit(sent)'
  BY <1>0, Typed DEF Inv, Types, Fit
<1>2. ReplyToAsker'
  BY <1>0 DEF Inv, ReplyToAsker
<1> HIDE DEF packetVars
<1>3. /\ lastSender' = lastSender /\ tracked' = tracked /\ query' = query /\ from' = from
      /\ to' = to /\ fault' = fault
  BY <1>0 DEF packetVars
<1>a. Types
  BY Typed DEF Inv
<1> USE DEF Inv, Arrived, Stored, Told, Deaf, Stopped, Handling, Answering
<1>4. CASE CallInit
  <2>1. Types'
    BY <1>a, <1>1, <1>3, <1>4 DEF CallInit, Types
  <2> QED
    BY <1>2, <1>3, <1>4, <2>1, Typed DEF CallInit
<1>5. CASE CreateTask
  <2>1. Types'
    BY <1>a, <1>1, <1>3, <1>5 DEF CreateTask, Types
  <2>2. CASE running' = TRUE /\ tpc' = "loop" /\ apc' = "announce" /\ enabled' = enabled
    BY <1>2, <1>3, <1>5, <2>1, <2>2, Typed DEF CreateTask
  <2>3. CASE /\ enabled' = FALSE /\ dnsActive' = FALSE /\ apc' = "idle"
             /\ UNCHANGED <<running, tpc>>
    BY <1>2, <1>3, <1>5, <2>1, <2>3, Typed DEF CreateTask
  <2> QED
    BY <1>5, <2>2, <2>3 DEF CreateTask
<1>6. CASE Announce
  <2>1. Types'
    BY <1>a, <1>1, <1>3, <1>6 DEF Announce, Types
  <2> QED
    BY <1>2, <1>3, <1>6, <2>1, Typed DEF Announce
<1>7. CASE OnQuery
  <2>1. Types'
    BY <1>a, <1>1, <1>3, <1>7 DEF OnQuery, Types
  <2> QED
    BY <1>2, <1>3, <1>7, <2>1, Typed DEF OnQuery
<1>8. CASE CallStop
  <2>1. Types'
    BY <1>a, <1>1, <1>3, <1>8, ZenonT(40) DEF CallStop, Types
  <2> QED
    BY <1>2, <1>3, <1>8, <2>1, Typed DEF CallStop
<1>9. CASE EndTask
  <2>1. Types'
    BY <1>a, <1>1, <1>3, <1>9, ZenonT(40) DEF EndTask, Types
  <2> QED
    BY <1>2, <1>3, <1>9, <2>1, Typed DEF EndTask
<1>10. CASE LockSocket
  <2>1. Types'
    BY <1>a, <1>1, <1>3, <1>10 DEF LockSocket, Types
  <2> QED
    BY <1>2, <1>3, <1>10, <2>1, Typed DEF LockSocket
<1>11. CASE CloseSocket
  <2>1. Types'
    BY <1>a, <1>1, <1>3, <1>11, ZenonT(40) DEF CloseSocket, Types, OpenAfterStop
  <2> QED
    BY <1>2, <1>3, <1>11, <2>1, Typed DEF CloseSocket, OpenAfterStop
<1>12. CASE Forget
  <2>1. Types'
    BY <1>a, <1>1, <1>3, <1>12, ZenonT(40) DEF Forget, Types
  <2> QED
    BY <1>2, <1>3, <1>12, <2>1, Typed DEF Forget
<1>13. CASE Withdraw
  <2>1. Types'
    BY <1>a, <1>1, <1>3, <1>13, ZenonT(40) DEF Withdraw, Types
  <2> QED
    BY <1>2, <1>3, <1>13, <2>1, Typed DEF Withdraw
<1> QED
  BY <1>4, <1>5, <1>6, <1>7, <1>8, <1>9, <1>10, <1>11, <1>12, <1>13 DEF AppStep

(* What the lookup makes of a query fits the buffer.                       *)
LEMMA LookupFits ==
    ASSUME Inv, Lookup
    PROVE  Fit(reply')
<1>1. query \in Query
  BY DEF Inv, Arrived, Handling, Answering, Lookup
<1>2. reply' = Redirect(query) \/ reply' = NxDomain(query)
  BY DEF Lookup
<1> QED
  BY <1>1, <1>2, RedirectFits, NxDomainFits

(* The steps of the receive task, with the callback.                       *)
LEMMA TaskKeeps ==
    ASSUME Inv, TaskStep
    PROVE  Inv'
<1> USE DEF dnsVars, udpVars, packetVars, Goto
<1>a. Types
  BY Typed DEF Inv
<1>b. UNCHANGED <<dnsVars, running, tracked, apc>>
  BY DEF TaskStep, Check, OpenSocket, Receive, ReceiveNothing, StoreSender, Exit, Enter,
         TestCallback, CallCallback, Lookup, Reply, ReplyTimesOut
<1> USE DEF Inv, Arrived, Stored, Told, Deaf, Stopped, Handling, Answering, ReplyToAsker
<1>1. CASE Check
  <2>1. Types'
    BY <1>a, <1>b, <1>1 DEF Check, Types, Fit
  <2> QED
    BY <1>b, <1>1, <2>1, Typed DEF Check
<1>2. CASE OpenSocket
  <2>1. Types'
    BY <1>a, <1>b, <1>2 DEF OpenSocket, MutexFree, Types, Fit
  <2> QED
    BY <1>b, <1>2, <2>1, Typed DEF OpenSocket, MutexFree
<1>3. ASSUME NEW q \in Query, NEW c \in Client, Receive(q, c) PROVE Inv'
  <2>1. Types'
    BY <1>a, <1>b, <1>3 DEF Receive, Types, Fit
  <2> QED
    BY <1>b, <1>3, <2>1, Typed DEF Receive
<1>4. CASE ReceiveNothing
  <2>1. Types'
    BY <1>a, <1>b, <1>4 DEF ReceiveNothing, Types, Fit
  <2> QED
    BY <1>b, <1>4, <2>1, Typed DEF ReceiveNothing
<1>5. CASE StoreSender
  <2>1. Types'
    BY <1>a, <1>b, <1>5 DEF StoreSender, SenderAfter, MutexFree, Types, Fit
  <2> QED
    BY <1>b, <1>5, <2>1, Typed DEF StoreSender, SenderAfter, MutexFree
<1>6. CASE Exit
  <2>0. /\ open' = FALSE /\ tpc' = "none"
        /\ UNCHANGED <<lastSender, query, from, reply, sent, to, fault>>
    BY <1>6 DEF Exit
  <2>1. Types'
    <3>1. Fit(reply)' /\ Fit(sent)'
      BY <1>a, <2>0 DEF Types, Fit
    <3> QED
      BY <1>a, <1>b, <2>0, <3>1, ZenonT(40) DEF Types
  <2> QED
    BY <1>b, <1>6, <2>1, Typed DEF Exit, MutexFree
<1>7. CASE Enter
  <2>1. Types'
    BY <1>a, <1>b, <1>7 DEF Enter, Types, Fit
  <2> QED
    BY <1>b, <1>7, <2>1, Typed DEF Enter
<1>8. CASE TestCallback
  <2>1. Types'
    BY <1>a, <1>b, <1>8 DEF TestCallback, Types, Fit
  <2> QED
    BY <1>b, <1>8, <2>1, Typed DEF TestCallback
<1>9. CASE CallCallback
  <2>1. Types'
    BY <1>a, <1>b, <1>9 DEF CallCallback, Types, Fit
  <2> QED
    BY <1>b, <1>9, <2>1, Typed DEF CallCallback
<1>10. CASE Lookup
  <2>1. Fit(reply)'
    BY <1>10, LookupFits
  <2>2. Types'
    BY <1>a, <1>b, <1>10, <2>1 DEF Lookup, Types, Fit
  <2> QED
    BY <1>b, <1>10, <2>2, Typed DEF Lookup
<1>11. CASE Reply
  <2>1. Types'
    BY <1>a, <1>b, <1>11 DEF Reply, MutexFree, Types, Fit
  <2> QED
    BY <1>b, <1>11, <2>1, Typed DEF Reply, MutexFree
<1>12. CASE ReplyTimesOut
  <2>1. Types'
    BY <1>a, <1>b, <1>12 DEF ReplyTimesOut, MutexFree, Types, Fit
  <2> QED
    BY <1>b, <1>12, <2>1, Typed DEF ReplyTimesOut, MutexFree
<1> QED
  BY <1>1, <1>2, <1>3, <1>4, <1>5, <1>6, <1>7, <1>8, <1>9, <1>10, <1>11, <1>12 DEF TaskStep

LEMMA InvStep == Inv /\ [Next]_vars => Inv'
<1> SUFFICES ASSUME Inv, [Next]_vars PROVE Inv'
  OBVIOUS
<1>1. CASE Track
  <2>1. /\ UNCHANGED <<dnsVars, udpVars, apc, tpc, packetVars, fault>>
        /\ tracked \subseteq Client => tracked' \subseteq Client
    BY <1>1 DEF Track
  <2>2. Types => Types'
    BY <2>1 DEF Types, Fit, dnsVars, udpVars, packetVars
  <2> QED
    BY <2>1, <2>2, Typed DEF Inv, Arrived, Stored, Told, Deaf, Stopped, ReplyToAsker, dnsVars, udpVars,
       packetVars
<1>2. CASE UNCHANGED vars
  <2>1. TypeOK'
    BY <1>2 DEF Inv, TypeOK, vars, dnsVars, udpVars, packetVars
  <2> QED
    BY <1>2, <2>1 DEF Inv, Arrived, Stored, Told, Deaf, Stopped, ReplyToAsker, vars, dnsVars, udpVars,
       packetVars
<1> QED
  BY <1>1, <1>2, AppKeeps, TaskKeeps DEF Next

(* Inv holds always (NeuDNSServer.cpp:37-211, NeuUDP.cpp:82-131, 350-415). *)
THEOREM Invariance == Spec => []Inv
<1>1. Init => Inv
  <2> SUFFICES ASSUME Init PROVE Inv
    OBVIOUS
  <2>1. Types
    BY DEF Init, Types, Fit
  <2> QED
    BY <2>1, Typed DEF Init, Inv, Arrived, Stored, Told, Deaf, Stopped, Handling, Answering, ReplyToAsker
<1> QED
  BY <1>1, InvStep, PTL DEF Spec

(* The variables keep their types; above all no reply is longer than the   *)
(* buffer it is built in, for every size of the buffer and every query     *)
(* (DnsHelper.cpp:76, 176).                                                *)
THEOREM TypeCorrect == Spec => []TypeOK
BY Invariance, PTL DEF Inv

(* A reply goes to the client that asked, also when the mutex could not be *)
(* had to store it (NeuUDP.cpp:375-379).                                   *)
THEOREM RepliesToAsker == Spec => []ReplyToAsker
BY Invariance, PTL DEF Inv

(* Once stop() has returned nothing is sent until the next init()          *)
(* (NeuDNSServer.cpp:112-113).                                             *)
THEOREM StopSilences == Spec => SilentWhenStopped
<1>1. Inv /\ [Next]_vars => [sent' # sent /\ sent' # NoReply => apc # "idle" \/ enabled]_vars
  <2> SUFFICES ASSUME Inv, Next, sent' # sent, sent' # NoReply, apc = "idle", ~enabled
               PROVE  FALSE
    OBVIOUS
  <2>1. CASE Reply
    BY <2>1 DEF Reply, Inv, Deaf, Stopped, Handling, Answering
  <2>2. CASE AppStep
    BY <2>2 DEF AppStep, CallInit, CreateTask, Announce, OnQuery, CallStop, EndTask, LockSocket,
         CloseSocket, Forget, Withdraw, packetVars
  <2>3. CASE Track
    BY <2>3 DEF Track, packetVars
  <2>4. CASE TaskStep /\ ~Reply
    BY <2>4 DEF TaskStep, Check, OpenSocket, Receive, ReceiveNothing, StoreSender, Exit, Enter,
         TestCallback, CallCallback, Lookup, ReplyTimesOut, packetVars
  <2> QED
    BY <2>1, <2>2, <2>3, <2>4 DEF Next
<1> QED
  BY <1>1, Invariance, PTL DEF Spec, SilentWhenStopped

-----------------------------------------------------------------------------
(* What replies say.                                                       *)

(* What is sent is made from the packet that is handled, which was parsed: *)
(* NXDOMAIN only if its name is no probe.                                  *)
Made(message) ==
    \/ message = NoReply
    \/ Parsed.ok /\ message = Redirect(query)
    \/ Parsed.ok /\ ~IsCaptiveProbe(Text(Parsed)) /\ message = NxDomain(query)

Answers ==
    /\ tpc \in {"test", "call", "lookup"} => Parsed.ok
    /\ Made(reply) /\ Made(sent)
    /\ query \in Query \cup {None}

(* A step that changes no packet and no reply keeps this.                  *)
LEMMA AnswersKept ==
    ASSUME Answers, UNCHANGED <<query, reply, sent>>,
           tpc' \in {"test", "call", "lookup"} => Parsed.ok
    PROVE  Answers'
BY DEF Answers, Made, Parsed

(* So does every other step: only the lookup makes a reply, from a name    *)
(* that was parsed, and a new packet takes the old replies away.           *)
LEMMA AnswersStep == Answers /\ [Next]_vars => Answers'
<1> SUFFICES ASSUME Answers, [Next]_vars PROVE Answers'
  OBVIOUS
<1> USE DEF packetVars, Goto
<1>1. CASE UNCHANGED vars
  BY <1>1, AnswersKept DEF vars, Answers
<1>2. CASE AppStep
  <2>1. UNCHANGED packetVars
    BY <1>2 DEF AppStep, CallInit, CreateTask, Announce, OnQuery, CallStop, EndTask, LockSocket,
           CloseSocket, Forget, Withdraw
  <2>2. tpc' \in {tpc, "loop"}
    BY <1>2 DEF AppStep, CallInit, CreateTask, Announce, OnQuery, CallStop, EndTask, LockSocket,
           CloseSocket, Forget, Withdraw
  <2> QED
    BY <2>1, <2>2, AnswersKept DEF Answers
<1>3. CASE Track
  BY <1>3, AnswersKept DEF Track, Answers
<1>4. CASE Check \/ OpenSocket \/ ReceiveNothing \/ StoreSender \/ Exit \/ Enter
  <2>1. UNCHANGED <<query, reply, sent>>
    BY <1>4 DEF Check, OpenSocket, ReceiveNothing, StoreSender, Exit, Enter
  <2>2. tpc' \in {"test", "call", "lookup"} => Parsed.ok
    BY <1>4 DEF Check, OpenSocket, ReceiveNothing, StoreSender, Exit, Enter
  <2> QED
    BY <2>1, <2>2, AnswersKept
<1>5. CASE TestCallback \/ CallCallback
  <2>1. UNCHANGED <<query, reply, sent>> /\ tpc \in {"test", "call", "lookup"}
    BY <1>5 DEF TestCallback, CallCallback
  <2> QED
    BY <2>1, AnswersKept DEF Answers
<1>6. CASE \E q \in Query, c \in Client : Receive(q, c)
  BY <1>6 DEF Receive, Answers, Made
<1>7. CASE Lookup
  <2>1. Parsed.ok /\ query' = query /\ sent' = sent /\ tpc' \in {"loop", "reply"}
    BY <1>7 DEF Lookup, Answers
  <2>2. Made(reply')
    BY <1>7, <2>1 DEF Lookup, Made
  <2>3. Parsed' = Parsed
    BY <2>1 DEF Parsed
  <2> QED
    BY <2>1, <2>2, <2>3 DEF Answers, Made
<1>8. CASE Reply \/ ReplyTimesOut
  <2>1. reply' = NoReply /\ sent' \in {reply, sent} /\ query' = query /\ tpc' = "loop"
    BY <1>8 DEF Reply, ReplyTimesOut
  <2>2. Parsed' = Parsed
    BY <2>1 DEF Parsed
  <2> QED
    BY <2>1, <2>2 DEF Answers, Made
<1> QED
  BY <1>1, <1>2, <1>3, <1>4, <1>5, <1>6, <1>7, <1>8 DEF Next, TaskStep

(* A reply is made from the packet that is handled, and what could not be  *)
(* parsed gets none (NeuDNSServer.cpp:160-211).                            *)
THEOREM AnswersAlways == Spec => []Answers
<1>1. Init => Answers
  BY DEF Init, Answers, Made
<1> QED
  BY <1>1, AnswersStep, PTL DEF Spec

(* A name of the reference, and a packet that asks for it.                 *)
LEMMA Asking ==
    ASSUME NEW labels \in Name, AsksFor(labels), query \in Query \cup {None}
    PROVE  /\ Proper(labels) /\ query.rest \in Seq(0..255)
           /\ IsPrefix(Encode(labels), query.rest)
<1>1. query \in Query /\ IsPrefix(Encode(labels), query.rest)
  BY DEF AsksFor
<1>2. query.rest \in Seq(0..255)
  BY <1>1, QueryAssumption
<1>3. labels \in Seq(Seq(1..255)) /\ \A i \in DOMAIN labels : Len(labels[i]) \in 1..63
  BY NameAssumption, Zenon
<1>4. DOMAIN labels = 1..Len(labels)
  BY <1>3, LenProperties
<1>5. Proper(labels)
  BY <1>3, <1>4, Zenon DEF Proper
<1> QED
  BY <1>1, <1>2, <1>5

(* The parser finds the name that was written, for every name and every    *)
(* size of the buffer: all of it if its text fits the buffer with a 0, and *)
(* none at all otherwise (DnsHelper.cpp:21-71).                            *)
THEOREM ParserRight == Spec => []ParseRight
<1>1. Answers => ParseRight
  <2> SUFFICES ASSUME Answers, NEW labels \in Name, AsksFor(labels)
               PROVE  IF Len(Encode(labels)) <= DomainSize
                      THEN Parsed.ok /\ Parsed.labels = labels
                      ELSE ~Parsed.ok
    BY Zenon DEF ParseRight
  <2> DEFINE name == [ok |-> TRUE, labels |-> labels, pointer |-> FALSE]
             short == Len(Encode(labels)) <= DomainSize
  <2>1. name.ok /\ name.labels = labels /\ ~NoName.ok
    BY DEF NoName
  <2>2. query \in Query \cup {None}
    BY DEF Answers
  <2>3. IF short THEN Parsed = name ELSE Parsed = NoName
    BY <2>2, Asking, ParsesName, Zenon DEF Parsed
  <2> HIDE DEF name, short
  <2>4. IF short THEN Parsed.ok /\ Parsed.labels = labels ELSE ~Parsed.ok
    BY <2>1, <2>3, Zenon
  <2> QED
    BY <2>4, Zenon DEF short
<1> QED
  BY <1>1, AnswersAlways, PTL

(* A redirect that is sent is the question and one answer to it, whatever  *)
(* was behind the question in the query (DnsHelper.cpp:74-170).            *)
THEOREM RedirectsRight == Spec => []RedirectRight
<1>1. Answers => RedirectRight
  <2> SUFFICES ASSUME Answers, NEW labels \in Name, AsksFor(labels), sent # NoReply, sent.ancount = 1
               PROVE  LET question == Encode(labels) \o <<0, 1, 0, 1>>
                          answer == SubSeq(sent.rest, Len(question) + 1, Len(sent.rest))
                      IN /\ sent.qdcount = 1 /\ IsPrefix(question, sent.rest)
                         /\ Len(answer) = 16
                         /\ SubSeq(answer, 1, 2) = <<192, HeaderSize>>
                         /\ SubSeq(answer, 13, 16) = Address
    BY Zenon DEF RedirectRight
  <2> DEFINE question == Encode(labels) \o <<0, 1, 0, 1>>
             whole == question \o Answer
  <2>1. Proper(labels) /\ query.rest \in Seq(0..255) /\ IsPrefix(Encode(labels), query.rest)
    BY Asking DEF Answers
  <2>2. sent # NxDomain(query)
    BY DEF NxDomain
  <2>3. sent = Redirect(query)
    BY <2>2, Zenon DEF Answers, Made
  <2>4. sent = [qdcount |-> 1, ancount |-> 1, rcode |-> 0, rest |-> whole]
    BY <2>1, <2>3, RedirectAnswers, Zenon
  <2>5. sent.qdcount = 1 /\ sent.rest = whole
    <3> HIDE DEF whole
    <3> QED
      BY <2>4
  <2>6. /\ IsPrefix(question, whole)
        /\ Len(SubSeq(whole, Len(question) + 1, Len(whole))) = 16
        /\ SubSeq(SubSeq(whole, Len(question) + 1, Len(whole)), 1, 2) = <<192, HeaderSize>>
        /\ SubSeq(SubSeq(whole, Len(question) + 1, Len(whole)), 13, 16) = Address
    BY <2>1, AnswerBehind, Zenon
  <2>7. /\ IsPrefix(question, sent.rest)
        /\ Len(SubSeq(sent.rest, Len(question) + 1, Len(sent.rest))) = 16
        /\ SubSeq(SubSeq(sent.rest, Len(question) + 1, Len(sent.rest)), 1, 2) = <<192, HeaderSize>>
        /\ SubSeq(SubSeq(sent.rest, Len(question) + 1, Len(sent.rest)), 13, 16) = Address
    <3> HIDE DEF question, whole
    <3> QED
      BY <2>5, <2>6, Zenon
  <2> QED
    BY <2>5, <2>7, Zenon
<1> QED
  BY <1>1, AnswersAlways, PTL

(* No name with a probe in it gets NXDOMAIN, for every set of probes: the  *)
(* text in the buffer is the name as people write it, so a probe is found  *)
(* in it across labels too (DNSProbe.h:43-55, NeuDNSServer.cpp:192-203).   *)
THEOREM NoProbeRefused == Spec => []ProbesRedirected
<1>1. Answers => ProbesRedirected
  <2> SUFFICES ASSUME Answers, NEW labels \in Name, AsksFor(labels), sent # NoReply, sent.rcode = 3,
                      NEW probe \in Probe,
                      NEW before \in 0..Len(Written(labels)), NEW after \in 0..Len(Written(labels)),
                      SubSeq(ToLower(Written(labels)), before + 1, after) = probe
               PROVE  FALSE
    BY Zenon DEF ProbesRedirected
  <2> DEFINE name == [ok |-> TRUE, labels |-> labels, pointer |-> FALSE]
  <2>1. Proper(labels) /\ query.rest \in Seq(0..255) /\ IsPrefix(Encode(labels), query.rest)
    BY Asking DEF Answers
  <2>2. sent # Redirect(query)
    BY DEF Redirect
  <2>3. Parsed.ok /\ ~IsCaptiveProbe(Text(Parsed))
    BY <2>2, Zenon DEF Answers, Made
  <2>4. Parsed = name
    <3>1. Parsed = name \/ Parsed = NoName
      BY <2>1, ParsesName, Zenon DEF Parsed
    <3>2. ~NoName.ok
      BY DEF NoName
    <3> QED
      BY <2>3, <3>1, <3>2, Zenon
  <2>5. Text(Parsed) = Written(labels) /\ Written(labels) \in Seq(1..255)
    BY <2>1, <2>4, TextWritten, Zenon
  <2>6. IsCaptiveProbe(Written(labels))
    BY <2>5, ProbeFound, Zenon
  <2> QED
    BY <2>3, <2>5, <2>6, Zenon
<1> QED
  BY <1>1, AnswersAlways, PTL
=============================================================================
