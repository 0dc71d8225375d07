-------------------------- MODULE ConnectionProofs --------------------------
(***************************************************************************)
(* What the proofs about the two protocol handlers have in common: facts   *)
(* about sequences, the client's bytes as one gapless stream of which a    *)
(* handler only ever drops a beginning, and the order of what is sent.     *)
(***************************************************************************)
EXTENDS Connection, SequenceTheorems, WellFoundedInduction, TLAPS

-----------------------------------------------------------------------------
(* Definitions *)

\* How many bytes of its request are left, counting b.
leftFrom(s, b) == lengthOf(s[b.req]) - b.off + 1

\* u is a piece of the stream of script s: behind a byte come the rest of its
\* request and then the next request.  Bytes with offset 0 have been
\* overwritten and say nothing about what follows.
contiguous(s, u) ==
    /\ u \in Seq(Byte)
    /\ \A p \in 1 .. Len(u) :
           u[p].req \in 1 .. Len(s) /\ u[p].off <= lengthOf(s[u[p].req])
    /\ \A p, q \in 1 .. Len(u) : p <= q => u[p].req <= u[q].req
    /\ \A p, q \in 1 .. Len(u) : p <= q /\ u[p].off > 0 =>
           /\ q - p < leftFrom(s, u[p]) =>
                  u[q] = [req |-> u[p].req, off |-> u[p].off + (q - p)]
           /\ q - p = leftFrom(s, u[p]) => u[q] = [req |-> u[p].req + 1, off |-> 1]

\* The value of request i up to the last v bytes of it.
valuePart(s, i, v) ==
    [p \in 1 .. (s[i].value - v) |-> [req |-> i, off |-> s[i].head + p]]

\* A script of requests with a head each.
Script == Seq([kind : STRING, head : Nat \ {0}, value : Nat, tail : Nat])

-----------------------------------------------------------------------------
(* Sequences *)

\* What is left of a sequence when its first k elements are dropped.
LEMMA DropProperties ==
    ASSUME NEW S, NEW s \in Seq(S), NEW k \in 0 .. Len(s)
    PROVE  /\ drop(s, k) \in Seq(S)
           /\ Len(drop(s, k)) = Len(s) - k
           /\ \A p \in 1 .. (Len(s) - k) : drop(s, k)[p] = s[k + p]
<1>1. Len(s) \in Nat /\ k \in Nat
  OBVIOUS
<1>2. \A p \in (k + 1) .. Len(s) : s[p] \in S
  BY <1>1, ElementOfSeq
<1>3. /\ SubSeq(s, k + 1, Len(s)) \in Seq(S)
      /\ Len(SubSeq(s, k + 1, Len(s))) =
             IF k + 1 <= Len(s) THEN Len(s) - (k + 1) + 1 ELSE 0
      /\ \A p \in 1 .. (Len(s) - (k + 1) + 1) :
             SubSeq(s, k + 1, Len(s))[p] = s[(k + 1) + p - 1]
  BY <1>1, <1>2, SubSeqProperties
<1> QED
  BY <1>1, <1>3 DEF drop

\* Dropping from the first of two sequences.
LEMMA DropConcat ==
    ASSUME NEW S, NEW a \in Seq(S), NEW b \in Seq(S), NEW k \in 0 .. Len(a)
    PROVE  drop(a, k) \o b = drop(a \o b, k)
<1> DEFINE c == a \o b
           x == drop(a, k)
           y == drop(c, k)
<1>1. /\ c \in Seq(S) /\ Len(c) = Len(a) + Len(b)
      /\ \A p \in 1 .. (Len(a) + Len(b)) :
             c[p] = IF p <= Len(a) THEN a[p] ELSE b[p - Len(a)]
      /\ Len(a) \in Nat /\ Len(b) \in Nat
  BY ConcatProperties
<1> HIDE DEF c
<1>2. /\ x \in Seq(S) /\ Len(x) = Len(a) - k
      /\ \A p \in 1 .. (Len(a) - k) : x[p] = a[k + p]
  BY DropProperties
<1>3. /\ y \in Seq(S) /\ Len(y) = Len(c) - k
      /\ \A p \in 1 .. (Len(c) - k) : y[p] = c[k + p]
  <2>1. k \in 0 .. Len(c)
    BY <1>1
  <2> QED
    BY <1>1, <2>1, DropProperties
<1> HIDE DEF x, y
<1>4. /\ x \o b \in Seq(S) /\ Len(x \o b) = Len(x) + Len(b)
      /\ \A p \in 1 .. (Len(x) + Len(b)) :
             (x \o b)[p] = IF p <= Len(x) THEN x[p] ELSE b[p - Len(x)]
  BY <1>2, ConcatProperties
<1>5. Len(x \o b) = Len(y)
  BY <1>1, <1>2, <1>3, <1>4
<1>6. \A p \in 1 .. Len(x \o b) : (x \o b)[p] = y[p]
  BY <1>1, <1>2, <1>3, <1>4, SMTT(30)
<1>7. x \o b = y
  BY <1>3, <1>4, <1>5, <1>6, SeqEqual
<1> QED
  BY <1>7 DEF x, y, c

\* A sequence is its first k elements and the rest.
LEMMA SplitSeq ==
    ASSUME NEW S, NEW s \in Seq(S), NEW k \in 0 .. Len(s)
    PROVE  /\ SubSeq(s, 1, k) \in Seq(S)
           /\ Len(SubSeq(s, 1, k)) = k
           /\ \A p \in 1 .. k : SubSeq(s, 1, k)[p] = s[p]
           /\ SubSeq(s, 1, k) \o drop(s, k) = s
<1>1. Len(s) \in Nat /\ k \in Nat
  OBVIOUS
<1>2. \A p \in 1 .. k : s[p] \in S
  BY <1>1, ElementOfSeq
<1>3. /\ SubSeq(s, 1, k) \in Seq(S)
      /\ Len(SubSeq(s, 1, k)) = IF 1 <= k THEN k - 1 + 1 ELSE 0
      /\ \A p \in 1 .. (k - 1 + 1) : SubSeq(s, 1, k)[p] = s[1 + p - 1]
  BY <1>1, <1>2, SubSeqProperties
<1>4. SubSeq(s, 1, k) \o SubSeq(s, k + 1, Len(s)) = SubSeq(s, 1, Len(s))
  <2>1. 1 \in 1 .. (Len(s) + 1) /\ k \in (1 - 1) .. Len(s) /\ Len(s) \in k .. Len(s)
    BY <1>1
  <2> QED
    BY <2>1, ConcatAdjacentSubSeq
<1>5. SubSeq(s, 1, Len(s)) = s
  BY SubSeqFull
<1>6. SubSeq(s, 1, k) \o drop(s, k) = s
  BY <1>4, <1>5 DEF drop
<1>7. /\ Len(SubSeq(s, 1, k)) = k
      /\ \A p \in 1 .. k : SubSeq(s, 1, k)[p] = s[p]
  BY <1>1, <1>3
<1> QED
  BY <1>3, <1>6, <1>7

\* What is left when a handler has consumed k of its bytes b, whether it keeps
\* the rest in its buffer or passes it on; c has not been delivered yet.
LEMMA Consume ==
    ASSUME NEW S, NEW b \in Seq(S), NEW c \in Seq(S), NEW k \in 0 .. Len(b)
    PROVE  /\ drop(b, k) \in Seq(S)
           /\ <<>> \o drop(b, k) = drop(b, k) /\ drop(b, k) \o <<>> = drop(b, k)
           /\ drop(b, k) \o c = drop(b \o c, k)
           /\ k \in 0 .. Len(b \o c)
<1>1. drop(b, k) \in Seq(S)
  BY DropProperties
<1>2. <<>> \o drop(b, k) = drop(b, k) /\ drop(b, k) \o <<>> = drop(b, k)
  BY <1>1, ConcatEmptySeq
<1>3. Len(b \o c) = Len(b) + Len(c) /\ Len(b) \in Nat /\ Len(c) \in Nat
  BY ConcatProperties
<1> QED
  BY <1>1, <1>2, <1>3, DropConcat

\* Consuming nothing, or everything.
LEMMA DropEnds ==
    ASSUME NEW S, NEW b \in Seq(S)
    PROVE  drop(b, 0) = b /\ drop(b, Len(b)) = <<>>
<1>1. Len(b) \in Nat
  OBVIOUS
<1>2. SubSeq(b, 0 + 1, Len(b)) = b
  BY SubSeqFull
<1>3. SubSeq(b, Len(b) + 1, Len(b)) = <<>>
  BY <1>1, SubSeqEmpty
<1> QED
  BY <1>2, <1>3 DEF drop

LEMMA ConsumeAll ==
    ASSUME NEW S, NEW b \in Seq(S), NEW c \in Seq(S)
    PROVE  /\ (<<>> \o <<>>) \o c = drop(b \o c, Len(b))
           /\ Len(b) \in 0 .. Len(b \o c)
<1> DEFINE n == Len(b)
<1>1. n \in 0 .. Len(b)
  OBVIOUS
<1>2. drop(b, n) = <<>>
  BY DropEnds
<1> HIDE DEF n
<1>3. drop(b, n) \o c = drop(b \o c, n) /\ n \in 0 .. Len(b \o c)
  BY <1>1, Consume
<1>4. <<>> \o <<>> = <<>>
  BY ConcatEmptySeq, EmptySeq
<1> QED
  BY <1>2, <1>3, <1>4 DEF n

\* Delivering the first k bytes of b behind a moves nothing.
LEMMA Deliver ==
    ASSUME NEW S, NEW a \in Seq(S), NEW b \in Seq(S), NEW k \in 0 .. Len(b)
    PROVE  (a \o SubSeq(b, 1, k)) \o drop(b, k) = a \o b
<1> DEFINE x == SubSeq(b, 1, k)
           y == drop(b, k)
<1>1. x \in Seq(S) /\ x \o y = b
  BY SplitSeq
<1>2. y \in Seq(S)
  BY DropProperties
<1> HIDE DEF x, y
<1>3. (a \o x) \o y = a \o (x \o y)
  <2>1. x \in Seq(S)
    BY <1>1
  <2> QED
    BY <1>2, <2>1, ConcatAssociative, SMTT(30)
<1>4. (a \o x) \o y = a \o b
  BY <1>1, <1>3
<1> QED
  BY <1>4 DEF x, y

\* A function on 1 .. n is a sequence of n elements.
LEMMA FunctionSeq ==
    ASSUME NEW S, NEW n \in Nat, NEW f \in [1 .. n -> S]
    PROVE  f \in Seq(S) /\ Len(f) = n
<1>1. f \in Seq(S)
  BY SeqDef
<1>2. DOMAIN f = 1 .. n /\ DOMAIN f = 1 .. Len(f) /\ Len(f) \in Nat
  BY <1>1, LenProperties
<1> QED
  BY <1>1, <1>2

-----------------------------------------------------------------------------
(* The stream of a script *)

\* A set of numbers has a least one.
LEMMA LeastNat ==
    ASSUME NEW T, T \subseteq Nat, T # {}
    PROVE  \E n \in T : \A m \in T : n <= m
<1>1. \E x \in T : \A y \in T : ~(<<y, x>> \in OpToRel(<, Nat))
  BY NatLessThanWellFounded, WFMin, Zenon
<1>2. PICK x \in T : \A y \in T : ~(<<y, x>> \in OpToRel(<, Nat))
  BY <1>1
<1>3. \A y \in T : ~(y < x)
  BY <1>2 DEF OpToRel
<1> QED
  BY <1>3

\* A request has at least one byte.
LEMMA LengthPositive ==
    ASSUME NEW s \in Script, NEW i \in 1 .. Len(s)
    PROVE  /\ s[i] \in [kind : STRING, head : Nat \ {0}, value : Nat, tail : Nat]
           /\ lengthOf(s[i]) \in Nat \ {0}
<1>1. s[i] \in [kind : STRING, head : Nat \ {0}, value : Nat, tail : Nat]
  BY ElementOfSeq DEF Script
<1> QED
  BY <1>1 DEF lengthOf

\* The ends of the first n requests exist: the recursion of endsOf is sound.
endsUpTo(s, n, f) ==
    f = [i \in 0 .. n |-> IF i = 0 THEN 0 ELSE f[i - 1] + lengthOf(s[i])]

LEMMA EndsExist ==
    ASSUME NEW s \in Script
    PROVE  \E f : endsUpTo(s, Len(s), f)
<1> DEFINE T == {n \in Nat : n <= Len(s) /\ ~\E f : endsUpTo(s, n, f)}
<1>1. Len(s) \in Nat
  BY LenProperties DEF Script
<1>2. SUFFICES ASSUME ~\E f : endsUpTo(s, Len(s), f)
               PROVE  FALSE
  OBVIOUS
<1>3. Len(s) \in T
  BY <1>1, <1>2
<1>4. PICK n \in T : \A m \in T : n <= m
  <2> HIDE DEF T
  <2>1. T \subseteq Nat
    BY DEF T
  <2> QED
    BY <1>3, <2>1, LeastNat
<1>5. CASE n = 0
  <2> DEFINE f == [i \in 0 .. 0 |-> 0]
  <2>1. endsUpTo(s, 0, f)
    BY DEF endsUpTo
  <2> QED
    BY <1>4, <1>5, <2>1
<1>6. CASE n > 0
  <2>1. n - 1 \in Nat /\ n - 1 <= Len(s) /\ n - 1 \notin T
    BY <1>1, <1>4, <1>6
  <2>2. PICK f : endsUpTo(s, n - 1, f)
    BY <2>1
  <2>3. f = [i \in 0 .. (n - 1) |-> IF i = 0 THEN 0 ELSE f[i - 1] + lengthOf(s[i])]
    BY <2>2 DEF endsUpTo
  <2> DEFINE g == [i \in 0 .. n |-> IF i = n THEN f[n - 1] + lengthOf(s[n]) ELSE f[i]]
  <2>4. \A i \in 0 .. n : g[i] = IF i = 0 THEN 0 ELSE g[i - 1] + lengthOf(s[i])
    <3> TAKE i \in 0 .. n
    <3>1. CASE i = n
      <4>1. g[n] = f[n - 1] + lengthOf(s[n]) /\ g[n - 1] = f[n - 1]
        BY <1>6
      <4> QED
        BY <1>6, <3>1, <4>1
    <3>2. CASE i # n
      <4>1. i \in 0 .. (n - 1)
        BY <1>4, <3>2
      <4>2. g[i] = f[i]
        BY <3>2
      <4>3. f[i] = IF i = 0 THEN 0 ELSE f[i - 1] + lengthOf(s[i])
        BY <2>3, <4>1
      <4>4. i # 0 => g[i - 1] = f[i - 1]
        BY <4>1
      <4> QED
        BY <4>2, <4>3, <4>4
    <3> QED
      BY <3>1, <3>2
  <2>5. g = [i \in 0 .. n |-> IF i = 0 THEN 0 ELSE g[i - 1] + lengthOf(s[i])]
    <3>1. g = [i \in 0 .. n |-> g[i]]
      OBVIOUS
    <3> HIDE DEF g
    <3> QED
      BY <2>4, <3>1
  <2> HIDE DEF g
  <2>6. endsUpTo(s, n, g)
    BY <2>5 DEF endsUpTo
  <2> QED
    BY <1>4, <2>6
<1> QED
  BY <1>4, <1>5, <1>6

LEMMA EndsDef ==
    ASSUME NEW s \in Script
    PROVE  /\ endsOf(s)[0] = 0
           /\ \A i \in 1 .. Len(s) : endsOf(s)[i] = endsOf(s)[i - 1] + lengthOf(s[i])
<1>1. Len(s) \in Nat
  BY LenProperties DEF Script
<1>2. endsOf(s) = CHOOSE f : endsUpTo(s, Len(s), f)
  BY DEF endsOf, endsUpTo
<1>3. endsUpTo(s, Len(s), endsOf(s))
  BY <1>2, EndsExist, Zenon
<1>4. endsOf(s) = [i \in 0 .. Len(s) |->
                      IF i = 0 THEN 0 ELSE endsOf(s)[i - 1] + lengthOf(s[i])]
  BY <1>3 DEF endsUpTo
<1> DEFINE e == endsOf(s)
<1> HIDE DEF e
<1>5. e = [i \in 0 .. Len(s) |-> IF i = 0 THEN 0 ELSE e[i - 1] + lengthOf(s[i])]
  BY <1>4 DEF e
<1>6. \A i \in 0 .. Len(s) : e[i] = IF i = 0 THEN 0 ELSE e[i - 1] + lengthOf(s[i])
  BY <1>5
<1>7. e[0] = 0 /\ \A i \in 1 .. Len(s) : e[i] = e[i - 1] + lengthOf(s[i])
  BY <1>1, <1>6
<1> QED
  BY <1>7 DEF e

\* The ends are numbers, and a later request ends later.
LEMMA EndsGrow ==
    ASSUME NEW s \in Script
    PROVE  /\ \A i \in 0 .. Len(s) : endsOf(s)[i] \in Nat
           /\ \A i, j \in 0 .. Len(s) : i < j => endsOf(s)[i] < endsOf(s)[j]
<1> DEFINE e == endsOf(s)
<1>1. e[0] = 0 /\ \A i \in 1 .. Len(s) : e[i] = e[i - 1] + lengthOf(s[i])
  BY EndsDef
<1>2. Len(s) \in Nat
  BY LenProperties DEF Script
<1>3. \A i \in 1 .. Len(s) : lengthOf(s[i]) \in Nat \ {0}
  BY LengthPositive
<1> HIDE DEF e
<1>4. ASSUME NEW k \in 0 .. Len(s) PROVE e[k] \in Nat
  <2> DEFINE T == {n \in Nat : n <= Len(s) /\ e[n] \notin Nat}
  <2>1. SUFFICES ASSUME e[k] \notin Nat PROVE FALSE
    OBVIOUS
  <2>2. PICK n \in T : \A m \in T : n <= m
    <3>1. k \in T /\ T \subseteq Nat
      BY <1>2, <2>1
    <3> HIDE DEF T
    <3> QED
      BY <3>1, LeastNat
  <2>3. n # 0
    BY <1>1, <2>2
  <2>4. e[n - 1] \in Nat
    BY <2>2, <2>3
  <2> QED
    BY <1>1, <1>3, <2>2, <2>3, <2>4
<1>5. ASSUME NEW i \in 0 .. Len(s), NEW k \in 0 .. Len(s), i < k PROVE e[i] < e[k]
  <2> DEFINE T == {n \in Nat : n <= Len(s) /\ i < n /\ ~(e[i] < e[n])}
  <2>1. SUFFICES ASSUME ~(e[i] < e[k]) PROVE FALSE
    OBVIOUS
  <2>2. PICK n \in T : \A m \in T : n <= m
    <3>1. k \in T /\ T \subseteq Nat
      BY <1>2, <1>5, <2>1
    <3> HIDE DEF T
    <3> QED
      BY <3>1, LeastNat
  <2>3. n - 1 \in 0 .. Len(s) /\ n \in 1 .. Len(s) /\ i <= n - 1
    BY <1>2, <2>2
  <2>4. e[n] = e[n - 1] + lengthOf(s[n]) /\ lengthOf(s[n]) \in Nat \ {0}
    BY <1>1, <1>3, <2>3
  <2>5. e[i] \in Nat /\ e[n - 1] \in Nat
    BY <1>4, <2>3
  <2>6. i = n - 1 \/ e[i] < e[n - 1]
    BY <2>2, <2>3
  <2>7. e[i] < e[n]
    BY <2>4, <2>5, <2>6
  <2> QED
    BY <2>2, <2>7
<1> QED
  BY <1>4, <1>5 DEF e

\* Every byte of the stream is in exactly one request.
LEMMA RequestOfByte ==
    ASSUME NEW s \in Script, NEW p \in 1 .. endsOf(s)[Len(s)]
    PROVE  /\ \E i \in 1 .. Len(s) : endsOf(s)[i - 1] < p /\ p <= endsOf(s)[i]
           /\ \A i, j \in 1 .. Len(s) :
                  /\ endsOf(s)[i - 1] < p /\ p <= endsOf(s)[i]
                  /\ endsOf(s)[j - 1] < p /\ p <= endsOf(s)[j]
                  => i = j
<1> DEFINE e == endsOf(s)
<1>1. /\ \A i \in 0 .. Len(s) : e[i] \in Nat
      /\ \A i, j \in 0 .. Len(s) : i < j => e[i] < e[j]
  BY EndsGrow
<1>2. Len(s) \in Nat /\ e[0] = 0
  BY EndsDef, LenProperties DEF Script
<1>3. p \in 1 .. e[Len(s)]
  OBVIOUS
<1> HIDE DEF e
<1>4. \E i \in 1 .. Len(s) : e[i - 1] < p /\ p <= e[i]
  <2> DEFINE T == {n \in Nat : n <= Len(s) /\ p <= e[n]}
  <2>1. PICK n \in T : \A m \in T : n <= m
    <3>1. Len(s) \in T /\ T \subseteq Nat
      BY <1>1, <1>2, <1>3
    <3> HIDE DEF T
    <3> QED
      BY <3>1, LeastNat
  <2>2. n # 0
    BY <1>2, <1>3, <2>1
  <2>3. n - 1 \in 0 .. Len(s) /\ n - 1 \notin T
    BY <1>2, <2>1, <2>2
  <2>4. e[n - 1] < p
    BY <1>1, <1>3, <2>3
  <2> QED
    BY <2>1, <2>2, <2>4
<1>5. ASSUME NEW i \in 1 .. Len(s), NEW j \in 1 .. Len(s),
             e[i - 1] < p, p <= e[i], e[j - 1] < p, p <= e[j]
      PROVE  i = j
  <2>1. /\ i - 1 \in 0 .. Len(s) /\ j - 1 \in 0 .. Len(s)
        /\ i \in 0 .. Len(s) /\ j \in 0 .. Len(s)
    BY <1>2
  <2>2. /\ e[i] \in Nat /\ e[j] \in Nat /\ e[i - 1] \in Nat /\ e[j - 1] \in Nat
    BY <1>1, <2>1
  <2>3. CASE i < j
    <3>1. i = j - 1 \/ e[i] < e[j - 1]
      BY <1>1, <2>1, <2>3
    <3> QED
      BY <1>3, <1>5, <2>2, <3>1
  <2>4. CASE j < i
    <3>1. j = i - 1 \/ e[j] < e[i - 1]
      BY <1>1, <2>1, <2>4
    <3> QED
      BY <1>3, <1>5, <2>2, <3>1
  <2> QED
    BY <2>3, <2>4
<1> QED
  BY <1>4, <1>5 DEF e

\* The byte at p of the stream.
LEMMA StreamByte ==
    ASSUME NEW s \in Script
    PROVE  /\ streamOf(s) \in Seq(Byte)
           /\ Len(streamOf(s)) = endsOf(s)[Len(s)]
           /\ \A p \in 1 .. Len(streamOf(s)) :
                  LET b == streamOf(s)[p]
                  IN  /\ b \in Byte
                      /\ b.req \in 1 .. Len(s)
                      /\ endsOf(s)[b.req - 1] < p /\ p <= endsOf(s)[b.req]
                      /\ b.off = p - endsOf(s)[b.req - 1]
<1> DEFINE e == endsOf(s)
           requestAt(p) == CHOOSE i \in 1 .. Len(s) : e[i - 1] < p /\ p <= e[i]
           u == [p \in 1 .. e[Len(s)] |->
                    [req |-> requestAt(p), off |-> p - e[requestAt(p) - 1]]]
<1>1. streamOf(s) = u
  BY DEF streamOf
<1>2. \A i \in 0 .. Len(s) : e[i] \in Nat
  BY EndsGrow
<1>3. Len(s) \in Nat
  BY LenProperties DEF Script
<1>4. ASSUME NEW p \in 1 .. e[Len(s)]
      PROVE  /\ requestAt(p) \in 1 .. Len(s)
             /\ e[requestAt(p) - 1] < p /\ p <= e[requestAt(p)]
  <2>1. \E i \in 1 .. Len(s) : e[i - 1] < p /\ p <= e[i]
    BY RequestOfByte
  <2> HIDE DEF e
  <2> QED
    BY <2>1
<1> HIDE DEF e, requestAt
<1>5. ASSUME NEW p \in 1 .. e[Len(s)]
      PROVE  [req |-> requestAt(p), off |-> p - e[requestAt(p) - 1]] \in Byte
  <2>1. requestAt(p) - 1 \in 0 .. Len(s) /\ requestAt(p) \in Nat
    BY <1>3, <1>4
  <2>2. e[requestAt(p) - 1] \in Nat /\ p \in Nat
    BY <1>2, <2>1
  <2>3. p - e[requestAt(p) - 1] \in Nat
    BY <1>4, <2>2
  <2> QED
    BY <2>1, <2>3 DEF Byte
<1>6. u \in [1 .. e[Len(s)] -> Byte] /\ e[Len(s)] \in Nat
  BY <1>2, <1>3, <1>5
<1>7. u \in Seq(Byte) /\ Len(u) = e[Len(s)]
  <2> HIDE DEF u
  <2> QED
    BY <1>6, FunctionSeq
<1>8. ASSUME NEW p \in 1 .. Len(u)
      PROVE  LET b == u[p]
             IN  /\ b \in Byte
                 /\ b.req \in 1 .. Len(s)
                 /\ e[b.req - 1] < p /\ p <= e[b.req]
                 /\ b.off = p - e[b.req - 1]
  <2>1. p \in 1 .. e[Len(s)]
    BY <1>7
  <2>2. u[p] = [req |-> requestAt(p), off |-> p - e[requestAt(p) - 1]]
    BY <2>1
  <2>3. u[p].req = requestAt(p) /\ u[p].off = p - e[requestAt(p) - 1]
    BY <2>2
  <2> QED
    BY <1>4, <1>5, <2>1, <2>2, <2>3
<1> HIDE DEF u
<1> QED
  BY <1>1, <1>7, <1>8 DEF e

\* Two bytes are of one kind: equal requests and offsets make equal bytes.
LEMMA ByteEqual ==
    ASSUME NEW b \in Byte, NEW i, NEW k, b.req = i, b.off = k
    PROVE  b = [req |-> i, off |-> k]
  BY DEF Byte

\* What a client sends is one piece of its script's stream.
LEMMA StreamContiguous ==
    ASSUME NEW s \in Script
    PROVE  contiguous(s, streamOf(s))
<1> DEFINE e == endsOf(s)
           u == streamOf(s)
<1>1. /\ u \in Seq(Byte) /\ Len(u) = e[Len(s)]
      /\ \A p \in 1 .. Len(u) :
             /\ u[p] \in Byte
             /\ u[p].req \in 1 .. Len(s)
             /\ e[u[p].req - 1] < p /\ p <= e[u[p].req]
             /\ u[p].off = p - e[u[p].req - 1]
  BY StreamByte
<1>2. /\ \A i \in 0 .. Len(s) : e[i] \in Nat
      /\ \A i, j \in 0 .. Len(s) : i < j => e[i] < e[j]
  BY EndsGrow
<1>3. Len(s) \in Nat /\ \A i \in 1 .. Len(s) : e[i] = e[i - 1] + lengthOf(s[i])
  BY EndsDef, LenProperties DEF Script
<1>4. \A i \in 1 .. Len(s) : lengthOf(s[i]) \in Nat \ {0}
  BY LengthPositive
<1>5. \A p \in 1 .. e[Len(s)] : \A i, j \in 1 .. Len(s) :
          /\ e[i - 1] < p /\ p <= e[i]
          /\ e[j - 1] < p /\ p <= e[j]
          => i = j
  BY RequestOfByte
<1> HIDE DEF e, u
<1>6. ASSUME NEW p \in 1 .. Len(u)
      PROVE  /\ u[p].req \in 1 .. Len(s) /\ u[p].off <= lengthOf(s[u[p].req])
             /\ leftFrom(s, u[p]) = e[u[p].req] - p + 1
  <2>1. u[p].req - 1 \in 0 .. Len(s) /\ u[p].req \in 0 .. Len(s)
    BY <1>1, <1>3
  <2>2. e[u[p].req] = e[u[p].req - 1] + lengthOf(s[u[p].req])
    BY <1>1, <1>3
  <2>3. e[u[p].req] \in Nat /\ e[u[p].req - 1] \in Nat
    BY <1>2, <2>1
  <2>4. lengthOf(s[u[p].req]) \in Nat
    BY <1>1, <1>4
  <2>5. leftFrom(s, u[p]) = lengthOf(s[u[p].req]) - u[p].off + 1
    BY DEF leftFrom
  <2> QED
    BY <1>1, <2>2, <2>3, <2>4, <2>5, SMTT(30)
<1>7. ASSUME NEW p \in 1 .. Len(u), NEW q \in 1 .. Len(u), p <= q
      PROVE  u[p].req <= u[q].req
  <2>1. /\ u[p].req \in 1 .. Len(s) /\ u[q].req \in 1 .. Len(s)
        /\ e[u[p].req - 1] < p /\ q <= e[u[q].req]
    BY <1>1
  <2>2. SUFFICES ASSUME u[q].req < u[p].req PROVE FALSE
    BY <1>3, <2>1
  <2>3. u[q].req \in 0 .. Len(s) /\ u[p].req - 1 \in 0 .. Len(s) /\ u[q].req <= u[p].req - 1
    BY <1>3, <2>1, <2>2
  <2>4. /\ e[u[q].req] \in Nat /\ e[u[p].req - 1] \in Nat
        /\ e[u[q].req] <= e[u[p].req - 1]
    BY <1>2, <2>3, SMTT(30)
  <2> QED
    BY <1>1, <1>7, <2>1, <2>4
<1>8. ASSUME NEW p \in 1 .. Len(u), NEW q \in 1 .. Len(u), p <= q,
             q - p < leftFrom(s, u[p])
      PROVE  u[q] = [req |-> u[p].req, off |-> u[p].off + (q - p)]
  <2> DEFINE i == u[p].req
  <2>1. /\ i \in 1 .. Len(s) /\ i - 1 \in 0 .. Len(s) /\ i \in 0 .. Len(s)
        /\ u[q].req \in 1 .. Len(s)
    BY <1>1, <1>3
  <2>2. e[i] \in Nat /\ e[i - 1] \in Nat /\ e[i - 1] < p
    BY <1>1, <1>2, <2>1
  <2>3. e[i - 1] < q /\ q <= e[i]
    BY <1>6, <1>8, <2>2
  <2>4. e[u[q].req - 1] < q /\ q <= e[u[q].req] /\ q \in 1 .. e[Len(s)]
    BY <1>1
  <2>5. u[q].req = i
    BY <1>5, <2>1, <2>3, <2>4
  <2>6. u[q].off = q - e[i - 1] /\ u[p].off = p - e[i - 1]
    BY <1>1, <2>5
  <2>7. u[q].off = u[p].off + (q - p)
    BY <2>2, <2>6
  <2> QED
    BY <1>1, <2>5, <2>7, ByteEqual
<1>9. ASSUME NEW p \in 1 .. Len(u), NEW q \in 1 .. Len(u), p <= q,
             q - p = leftFrom(s, u[p])
      PROVE  u[q] = [req |-> u[p].req + 1, off |-> 1]
  <2> DEFINE i == u[p].req
  <2>1. /\ i \in 1 .. Len(s) /\ i \in 0 .. Len(s) /\ e[i] \in Nat /\ Len(s) \in 0 .. Len(s)
        /\ u[q].req \in 1 .. Len(s)
    BY <1>1, <1>2, <1>3
  <2>2. q = e[i] + 1
    BY <1>6, <1>9, <2>1, SMTT(30)
  <2>3. q <= e[Len(s)] /\ e[Len(s)] \in Nat
    BY <1>1, <1>2, <2>1
  <2>4. i < Len(s)
    BY <1>3, <2>1, <2>2, <2>3
  <2>5. i + 1 \in 1 .. Len(s) /\ i + 1 \in 0 .. Len(s) /\ (i + 1) - 1 = i
    BY <1>3, <2>1, <2>4
  <2>6. e[i] < e[i + 1] /\ e[i + 1] \in Nat
    BY <1>2, <2>1, <2>5
  <2>7. e[(i + 1) - 1] < q /\ q <= e[i + 1]
    BY <2>1, <2>2, <2>5, <2>6, SMTT(30)
  <2>8. e[u[q].req - 1] < q /\ q <= e[u[q].req] /\ q \in 1 .. e[Len(s)]
    BY <1>1
  <2>9. u[q].req = i + 1
    BY <1>5, <2>1, <2>5, <2>7, <2>8
  <2>10. u[q].off = q - e[u[q].req - 1]
    BY <1>1
  <2>11. u[q].off = 1
    BY <2>1, <2>2, <2>5, <2>9, <2>10
  <2> QED
    BY <1>1, <2>9, <2>11, ByteEqual
<1>10. contiguous(s, u)
  BY <1>1, <1>6, <1>7, <1>8, <1>9 DEF contiguous
<1> QED
  BY <1>10 DEF u

\* The stream begins with the first byte of the first request.
LEMMA StreamBegins ==
    ASSUME NEW s \in Script, streamOf(s) # <<>>
    PROVE  streamOf(s)[1] = [req |-> 1, off |-> 1]
<1> DEFINE e == endsOf(s)
           u == streamOf(s)
           i == u[1].req
<1>1. u \in Seq(Byte) /\ 1 \in 1 .. Len(u)
  BY StreamByte, EmptySeq
<1>2. /\ u[1] \in Byte /\ i \in 1 .. Len(s)
      /\ e[i - 1] < 1 /\ u[1].off = 1 - e[i - 1]
  BY <1>1, StreamByte
<1>3. /\ \A j \in 0 .. Len(s) : e[j] \in Nat
      /\ \A j, k \in 0 .. Len(s) : j < k => e[j] < e[k]
      /\ e[0] = 0
  BY EndsGrow, EndsDef
<1>4. Len(s) \in Nat
  BY LenProperties DEF Script
<1> HIDE DEF e, i
<1>5. 0 \in 0 .. Len(s) /\ i - 1 \in 0 .. Len(s)
  BY <1>2, <1>4
<1>6. ~(0 < i - 1)
  BY <1>2, <1>3, <1>5
<1>7. i = 1 /\ i - 1 = 0
  BY <1>2, <1>4, <1>6
<1>8. u[1].req = 1 /\ u[1].off = 1
  BY <1>2, <1>3, <1>7 DEF i
<1> QED
  BY <1>2, <1>8, ByteEqual

\* Dropping the beginning leaves a piece of the stream.  Its first byte is in
\* the request the first byte was in, or in the next one, by how many bytes
\* were dropped.
LEMMA Advance ==
    ASSUME NEW s, NEW u, contiguous(s, u), NEW k \in 0 .. Len(u)
    PROVE  /\ contiguous(s, drop(u, k))
           /\ drop(u, k) # <<>> =>
                 /\ drop(u, k)[1] = u[k + 1] /\ k < Len(u) /\ u # <<>>
                 /\ u[1].req <= u[k + 1].req
                 /\ u[1].off > 0 /\ k < leftFrom(s, u[1]) =>
                        u[k + 1] = [req |-> u[1].req, off |-> u[1].off + k]
                 /\ u[1].off > 0 /\ k = leftFrom(s, u[1]) =>
                        u[k + 1] = [req |-> u[1].req + 1, off |-> 1]
<1> DEFINE w == drop(u, k)
<1>1. u \in Seq(Byte) /\ Len(u) \in Nat /\ k \in Nat
  BY DEF contiguous
<1>2. /\ w \in Seq(Byte) /\ Len(w) = Len(u) - k
      /\ \A p \in 1 .. (Len(u) - k) : w[p] = u[k + p]
  BY <1>1, DropProperties
<1> HIDE DEF w
<1>3. \A p \in 1 .. Len(w) : k + p \in 1 .. Len(u) /\ w[p] = u[k + p]
  BY <1>1, <1>2
<1>4. \A p \in 1 .. Len(w) :
          w[p].req \in 1 .. Len(s) /\ w[p].off <= lengthOf(s[w[p].req])
  BY <1>3 DEF contiguous
<1>5. \A p, q \in 1 .. Len(w) : p <= q => w[p].req <= w[q].req
  <2> TAKE p, q \in 1 .. Len(w)
  <2> HAVE p <= q
  <2>1. k + p <= k + q
    BY <1>1
  <2> QED
    BY <1>3, <2>1 DEF contiguous
<1>6. ASSUME NEW p \in 1 .. Len(w), NEW q \in 1 .. Len(w), p <= q, w[p].off > 0
      PROVE  /\ q - p < leftFrom(s, w[p]) =>
                    w[q] = [req |-> w[p].req, off |-> w[p].off + (q - p)]
             /\ q - p = leftFrom(s, w[p]) => w[q] = [req |-> w[p].req + 1, off |-> 1]
  <2>1. /\ k + p <= k + q /\ (k + q) - (k + p) = q - p
        /\ k + p \in 1 .. Len(u) /\ k + q \in 1 .. Len(u)
        /\ w[p] = u[k + p] /\ w[q] = u[k + q]
    BY <1>1, <1>3, <1>6, SMTT(30)
  <2>2. u[k + p].off > 0
    BY <1>6, <2>1
  <2>3. /\ (k + q) - (k + p) < leftFrom(s, u[k + p]) =>
               u[k + q] = [req |-> u[k + p].req,
                           off |-> u[k + p].off + ((k + q) - (k + p))]
        /\ (k + q) - (k + p) = leftFrom(s, u[k + p]) =>
               u[k + q] = [req |-> u[k + p].req + 1, off |-> 1]
    BY <2>1, <2>2 DEF contiguous
  <2> QED
    BY <2>1, <2>3
<1>7. contiguous(s, w)
  BY <1>2, <1>4, <1>5, <1>6 DEF contiguous
<1>8. ASSUME w # <<>>
      PROVE  /\ w[1] = u[k + 1] /\ k < Len(u) /\ u # <<>>
             /\ u[1].req <= u[k + 1].req
             /\ u[1].off > 0 /\ k < leftFrom(s, u[1]) =>
                    u[k + 1] = [req |-> u[1].req, off |-> u[1].off + k]
             /\ u[1].off > 0 /\ k = leftFrom(s, u[1]) =>
                    u[k + 1] = [req |-> u[1].req + 1, off |-> 1]
  <2>1. Len(w) \in Nat \ {0}
    BY <1>2, <1>8, EmptySeq
  <2>2. k < Len(u) /\ 1 \in 1 .. Len(w) /\ 1 \in 1 .. Len(u) /\ k + 1 \in 1 .. Len(u)
    BY <1>1, <1>2, <2>1
  <2>3. w[1] = u[k + 1] /\ u # <<>>
    BY <1>1, <1>3, <2>2, EmptySeq
  <2>4. 1 <= k + 1 /\ (k + 1) - 1 = k
    BY <1>1
  <2>5. u[1].req <= u[k + 1].req
    BY <2>2, <2>4 DEF contiguous
  <2>6. u[1].off > 0 =>
            /\ (k + 1) - 1 < leftFrom(s, u[1]) =>
                   u[k + 1] = [req |-> u[1].req, off |-> u[1].off + ((k + 1) - 1)]
            /\ (k + 1) - 1 = leftFrom(s, u[1]) =>
                   u[k + 1] = [req |-> u[1].req + 1, off |-> 1]
    BY <2>2, <2>4 DEF contiguous
  <2> QED
    BY <2>2, <2>3, <2>4, <2>5, <2>6
<1> QED
  BY <1>7, <1>8 DEF w

\* A byte behind the end of the first byte's request is of a later request.
LEMMA BehindRequest ==
    ASSUME NEW s \in Script, NEW u, contiguous(s, u), u # <<>>, u[1].off > 0,
           NEW k \in 1 .. Len(u), k > leftFrom(s, u[1])
    PROVE  u[1].req < u[k].req
<1> DEFINE L == leftFrom(s, u[1])
<1>1. u \in Seq(Byte) /\ Len(u) \in Nat /\ 1 \in 1 .. Len(u)
  BY EmptySeq DEF contiguous
<1>2. u[1].req \in 1 .. Len(s) /\ u[1].off <= lengthOf(s[u[1].req])
  BY <1>1 DEF contiguous
<1>3. u[1] \in Byte /\ u[k] \in Byte
  BY <1>1, ElementOfSeq
<1>4. u[1].off \in Nat /\ u[1].req \in Nat /\ u[k].req \in Nat
  BY <1>3 DEF Byte
<1>5. lengthOf(s[u[1].req]) \in Nat
  BY <1>2, LengthPositive
<1>6. L \in Nat \ {0}
  BY <1>2, <1>4, <1>5 DEF leftFrom
<1> HIDE DEF L
<1>7. L < k
  BY DEF L
<1>8. L + 1 \in 1 .. Len(u) /\ L + 1 <= k /\ 1 <= L + 1 /\ (L + 1) - 1 = L
  BY <1>1, <1>6, <1>7
<1>9. u[L + 1] = [req |-> u[1].req + 1, off |-> 1]
  BY <1>1, <1>8 DEF contiguous, L
<1>10. u[L + 1].req <= u[k].req
  BY <1>8 DEF contiguous
<1>11. u[L + 1].req = u[1].req + 1
  BY <1>9
<1> QED
  BY <1>4, <1>10, <1>11

\* Behind what a session has of a value come the next m bytes of it.
LEMMA ValuePartGrows ==
    ASSUME NEW s, NEW i \in Nat, s[i].head \in Nat, s[i].value \in Nat,
           NEW v \in 0 .. s[i].value, NEW d \in Seq(Byte), NEW m \in 0 .. Len(d), m <= v,
           \A p \in 1 .. m :
               d[p] = [req |-> i, off |-> s[i].head + (s[i].value - v) + p]
    PROVE  valuePart(s, i, v) \o SubSeq(d, 1, m) = valuePart(s, i, v - m)
<1> DEFINE h == s[i].head
           n == s[i].value - v
           a == valuePart(s, i, v)
           b == SubSeq(d, 1, m)
           c == valuePart(s, i, v - m)
<1>1. m \in Nat /\ n \in Nat /\ h \in Nat /\ n + m \in Nat
  OBVIOUS
<1>2. s[i].value - (v - m) = n + m
  BY <1>1
<1>3. \A p \in 1 .. m : d[p] = [req |-> i, off |-> h + n + p]
  OBVIOUS
<1>4. /\ a = [p \in 1 .. n |-> [req |-> i, off |-> h + p]]
      /\ c = [p \in 1 .. (n + m) |-> [req |-> i, off |-> h + p]]
  BY <1>2 DEF valuePart
<1>5. b \in Seq(Byte) /\ Len(b) = m /\ \A p \in 1 .. m : b[p] = d[p]
  BY SplitSeq
<1> HIDE DEF a, b, c, h, n
<1>6. \A p \in 1 .. (n + m) : [req |-> i, off |-> h + p] \in Byte
  BY <1>1 DEF Byte
<1>7. \A p \in 1 .. n : p \in 1 .. (n + m)
  BY <1>1
<1>8. /\ a \in [1 .. n -> Byte] /\ c \in [1 .. (n + m) -> Byte]
      /\ \A p \in 1 .. n : a[p] = [req |-> i, off |-> h + p]
      /\ \A p \in 1 .. (n + m) : c[p] = [req |-> i, off |-> h + p]
  BY <1>4, <1>6, <1>7
<1>9. a \in Seq(Byte) /\ Len(a) = n /\ c \in Seq(Byte) /\ Len(c) = n + m
  BY <1>1, <1>8, FunctionSeq
<1>10. /\ a \o b \in Seq(Byte) /\ Len(a \o b) = n + m
       /\ \A p \in 1 .. (n + m) : (a \o b)[p] = IF p <= n THEN a[p] ELSE b[p - n]
  BY <1>5, <1>9, ConcatProperties
<1>11. ASSUME NEW p \in 1 .. (n + m) PROVE (a \o b)[p] = c[p]
  <2>1. CASE p <= n
    <3>1. p \in 1 .. n
      BY <1>1, <2>1
    <3> QED
      BY <1>8, <1>10, <2>1, <3>1
  <2>2. CASE ~(p <= n)
    <3>1. p - n \in 1 .. m /\ h + n + (p - n) = h + p
      BY <1>1, <2>2
    <3>2. b[p - n] = [req |-> i, off |-> h + n + (p - n)]
      BY <1>3, <1>5, <3>1
    <3> QED
      BY <1>8, <1>10, <2>2, <3>1, <3>2
  <2> QED
    BY <2>1, <2>2
<1>12. a \o b = c
  BY <1>9, <1>10, <1>11, SeqEqual
<1> QED
  BY <1>12 DEF a, b, c

\* Nothing of a value, of which all bytes are left.
LEMMA ValuePartNone ==
    ASSUME NEW s, NEW i, s[i].value \in Nat
    PROVE  valuePart(s, i, s[i].value) = <<>>
<1>1. 1 .. (s[i].value - s[i].value) = {}
  OBVIOUS
<1> QED
  BY <1>1 DEF valuePart

-----------------------------------------------------------------------------
(* What is sent *)

\* ObjectsUnbroken of a sequence of items: y may follow x.
mayFollow(x, y) ==
    IF x.left > 0 THEN y.req = x.req /\ y.left = x.left - 1 /\ y.part # "header"
    ELSE isAnswer(y)

unbroken(w) == \A k \in 1 .. (Len(w) - 1) : mayFollow(w[k], w[k + 1])

LEMMA UnbrokenSent == ObjectsUnbroken <=> unbroken(sent)
  BY DEF ObjectsUnbroken, unbroken, mayFollow, isAnswer

\* Queueing an item, or writing it with nothing queued, adds it to what is
\* sent; writing what is queued adds nothing.
LEMMA SentGrows ==
    ASSUME NEW S, NEW w \in Seq(S), NEW o \in Seq(S), NEW x \in S
    PROVE  /\ w \o Append(o, x) = Append(w \o o, x)
           /\ Append(w, x) \o <<>> = Append(w \o <<>>, x)
           /\ (w \o o) \o <<>> = w \o o
<1>1. w \o o \in Seq(S) /\ Append(w, x) \in Seq(S) /\ <<x>> \in Seq(S)
  BY ConcatProperties, AppendProperties
<1>2. Append(o, x) = o \o <<x>> /\ Append(w \o o, x) = (w \o o) \o <<x>>
  <2> DEFINE wo == w \o o
  <2>1. wo \in Seq(S)
    BY <1>1
  <2> HIDE DEF wo
  <2>2. Append(wo, x) = wo \o <<x>>
    BY <2>1, AppendIsConcat
  <2> QED
    BY <2>2, AppendIsConcat DEF wo
<1>3. (w \o o) \o <<x>> = w \o (o \o <<x>>)
  BY <1>1, ConcatAssociative
<1>4. w \o <<>> = w /\ Append(w, x) \o <<>> = Append(w, x) /\ (w \o o) \o <<>> = w \o o
  BY <1>1, ConcatEmptySeq
<1> QED
  BY <1>2, <1>3, <1>4

\* One more item.
LEMMA AppendItem ==
    ASSUME NEW w \in Seq(Items), NEW x \in Items
    PROVE  /\ Append(w, x) \in Seq(Items) /\ Append(w, x) # <<>>
           /\ Len(Append(w, x)) = Len(w) + 1
           /\ Append(w, x)[Len(Append(w, x))] = x
           /\ unbroken(w) /\ (w # <<>> => mayFollow(w[Len(w)], x)) =>
                  unbroken(Append(w, x))
           /\ repliedIn(Append(w, x)) =
                  IF isAnswer(x) THEN repliedIn(w) \cup {x.req} ELSE repliedIn(w)
<1> DEFINE v == Append(w, x)
<1>1. /\ v \in Seq(Items) /\ v # <<>> /\ Len(v) = Len(w) + 1
      /\ \A k \in 1 .. Len(w) : v[k] = w[k]
      /\ v[Len(w) + 1] = x
  BY AppendProperties
<1>2. Len(w) \in Nat /\ DOMAIN w = 1 .. Len(w)
  BY LenProperties
<1> HIDE DEF v
<1>3. DOMAIN v = 1 .. (Len(w) + 1)
  BY <1>1, LenProperties
<1>4. ASSUME unbroken(w), w # <<>> => mayFollow(w[Len(w)], x) PROVE unbroken(v)
  <2> SUFFICES ASSUME NEW k \in 1 .. Len(w) PROVE mayFollow(v[k], v[k + 1])
    BY <1>1, <1>2 DEF unbroken
  <2>1. CASE k = Len(w)
    <3>1. w # <<>>
      BY EmptySeq
    <3> QED
      BY <1>1, <1>4, <2>1, <3>1
  <2>2. CASE k # Len(w)
    <3> DEFINE n == Len(w)
    <3>1. n \in Nat /\ k \in 1 .. n /\ k # n
      BY <1>2, <2>2
    <3> HIDE DEF n
    <3>2. k \in 1 .. (n - 1) /\ k + 1 \in 1 .. n
      BY <3>1
    <3> QED
      BY <1>1, <1>4, <3>2 DEF unbroken, n
  <2> QED
    BY <2>1, <2>2
<1>5. repliedIn(v) = IF isAnswer(x) THEN repliedIn(w) \cup {x.req} ELSE repliedIn(w)
  <2>1. repliedIn(v) = {v[k].req : k \in {j \in 1 .. (Len(w) + 1) : isAnswer(v[j])}}
    BY <1>3 DEF repliedIn
  <2>2. repliedIn(w) = {w[k].req : k \in {j \in 1 .. Len(w) : isAnswer(w[j])}}
    BY <1>2 DEF repliedIn
  <2>3. \A k \in 1 .. (Len(w) + 1) : k \in 1 .. Len(w) \/ k = Len(w) + 1
    BY <1>2
  <2>4. Len(w) + 1 \in 1 .. (Len(w) + 1)
    BY <1>2
  <2>5. \A k \in 1 .. Len(w) : k \in 1 .. (Len(w) + 1)
    BY <1>2
  <2>6. ASSUME NEW r \in repliedIn(v) PROVE r \in repliedIn(w) \/ (isAnswer(x) /\ r = x.req)
    <3>1. PICK k \in 1 .. (Len(w) + 1) : isAnswer(v[k]) /\ r = v[k].req
      BY <2>1
    <3>2. CASE k \in 1 .. Len(w)
      BY <1>1, <2>2, <3>1, <3>2
    <3>3. CASE k = Len(w) + 1
      BY <1>1, <3>1, <3>3
    <3> QED
      BY <2>3, <3>2, <3>3
  <2>7. ASSUME NEW r \in repliedIn(w) PROVE r \in repliedIn(v)
    <3>1. PICK k \in 1 .. Len(w) : isAnswer(w[k]) /\ r = w[k].req
      BY <2>2
    <3> QED
      BY <1>1, <2>1, <2>5, <3>1
  <2>8. isAnswer(x) => x.req \in repliedIn(v)
    BY <1>1, <2>1, <2>4
  <2> QED
    BY <2>6, <2>7, <2>8
<1> QED
  BY <1>1, <1>4, <1>5 DEF v

\* Order is kept by an answer to a request that no earlier answer is behind.
LEMMA OrderKept ==
    ASSUME NEW w \in Seq(Items), NEW x \in Items, NEW ties, inOrder(w, ties),
           isAnswer(x) => \A r \in repliedIn(w) : r < x.req \/ (ties /\ r = x.req)
    PROVE  inOrder(Append(w, x), ties)
<1> DEFINE v == Append(w, x)
<1>1. /\ Len(v) = Len(w) + 1 /\ v \in Seq(Items)
      /\ \A k \in 1 .. Len(w) : v[k] = w[k]
      /\ v[Len(w) + 1] = x
  BY AppendProperties
<1>2. Len(w) \in Nat /\ DOMAIN w = 1 .. Len(w)
  BY LenProperties
<1> HIDE DEF v
<1>3. DOMAIN v = 1 .. (Len(w) + 1)
  BY <1>1, LenProperties
<1>4. SUFFICES ASSUME NEW j \in 1 .. (Len(w) + 1), NEW k \in 1 .. (Len(w) + 1),
                      j < k, isAnswer(v[j]), isAnswer(v[k])
               PROVE  v[j].req < v[k].req \/ (ties /\ v[j].req = v[k].req)
  BY <1>3 DEF inOrder, v
<1>5. j \in 1 .. Len(w) /\ v[j] = w[j]
  BY <1>1, <1>2, <1>4
<1>6. CASE k \in 1 .. Len(w)
  BY <1>1, <1>2, <1>4, <1>5, <1>6 DEF inOrder
<1>7. CASE k = Len(w) + 1
  <2>1. w[j].req \in repliedIn(w)
    BY <1>2, <1>4, <1>5 DEF repliedIn
  <2> QED
    BY <1>1, <1>4, <1>5, <1>7, <2>1
<1> QED
  BY <1>2, <1>4, <1>6, <1>7

\* The types of what a handler sends.
OutputOK ==
    /\ m_activeReadSession \in [req : Nat, chunks : 0 .. MaxChunks] \cup {None}
    /\ {m_outgoingBuffer, wire} \subseteq Seq(Items)

\* What can be sent.
LEMMA ItemType ==
    ASSUME NEW i \in Nat, NEW part \in {"reply", "header", "chunk", "end"}, NEW n \in Nat
    PROVE  /\ item(i, part, n) \in Items
           /\ item(i, part, n).req = i /\ item(i, part, n).part = part
           /\ item(i, part, n).left = n
  BY DEF item, Items

\* What is sent is a sequence of items.
LEMMA SentType ==
    ASSUME OutputOK
    PROVE  sent \in Seq(Items) /\ Len(sent) \in Nat
<1>1. wire \in Seq(Items) /\ m_outgoingBuffer \in Seq(Items)
  BY DEF OutputOK
<1> QED
  BY <1>1, ConcatProperties DEF sent

\* queueResponse adds its reply to what is sent.
LEMMA QueueSent ==
    ASSUME OutputOK, NEW x \in Items, wire' = wire,
           m_outgoingBuffer' = Append(m_outgoingBuffer, x)
    PROVE  sent' = Append(sent, x)
<1>1. wire \in Seq(Items) /\ m_outgoingBuffer \in Seq(Items)
  BY DEF OutputOK
<1>2. wire \o Append(m_outgoingBuffer, x) = Append(wire \o m_outgoingBuffer, x)
  BY <1>1, SentGrows
<1> QED
  BY <1>2 DEF sent

\* A reply that is queued.
LEMMA ReplySent ==
    ASSUME OutputOK, NEW i \in Nat, wire' = wire,
           m_outgoingBuffer' = Append(m_outgoingBuffer, item(i, "reply", 0))
    PROVE  LET x == item(i, "reply", 0)
           IN  /\ x \in Items /\ isAnswer(x) /\ x.req = i /\ x.left = 0
               /\ sent' = Append(sent, x)
<1> DEFINE x == item(i, "reply", 0)
<1>1. x \in Items /\ x.req = i /\ x.part = "reply" /\ x.left = 0
  BY ItemType
<1> HIDE DEF x
<1>2. sent' = Append(sent, x)
  BY <1>1, QueueSent DEF x
<1>3. isAnswer(x)
  BY <1>1 DEF isAnswer
<1> QED
  BY <1>1, <1>2, <1>3 DEF x

LEMMA ReplyQueued ==
    ASSUME OutputOK, NEW i \in Nat, wire' = wire,
           m_activeReadSession' = m_activeReadSession,
           m_outgoingBuffer' = Append(m_outgoingBuffer, item(i, "reply", 0))
    PROVE  OutputOK'
<1>1. item(i, "reply", 0) \in Items
  BY ItemType
<1>2. m_outgoingBuffer \in Seq(Items)
  BY DEF OutputOK
<1>3. m_outgoingBuffer' \in Seq(Items)
  BY <1>1, <1>2, AppendProperties
<1> QED
  BY <1>3 DEF OutputOK
=============================================================================
