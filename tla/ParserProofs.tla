---------------------------- MODULE ParserProofs ----------------------------
(***************************************************************************)
(* Proofs about the parsers and the mapping of paths to files, for texts   *)
(* of any length.                                                          *)
(***************************************************************************)
EXTENDS Parsers, SequenceTheorems, WellFoundedInduction, TLAPS

-----------------------------------------------------------------------------
(***************************************************************************)
(* Recursive functions.  The provers cannot instantiate an induction rule  *)
(* that has a predicate for a parameter: Induct has the set of numbers     *)
(* with the property, and Recursion the step as a function.                *)
(***************************************************************************)

\* A set of numbers has a least one.
LEMMA LeastNat ==
    ASSUME NEW T, T \subseteq Nat, T # {}
    PROVE  \E n \in T : \A m \in T : n <= m
<1>1. PICK x \in T : \A y \in T : ~(<<y, x>> \in OpToRel(<, Nat))
  BY NatLessThanWellFounded, WFMin, Zenon
<1>2. \A y \in T : ~(y < x)
  BY <1>1 DEF OpToRel
<1> QED
  BY <1>2

LEMMA Induct ==
    ASSUME NEW n \in Nat, NEW T, 0 \in T, \A k \in 1 .. n : k - 1 \in T => k \in T
    PROVE  \A k \in 0 .. n : k \in T
<1> DEFINE F == {k \in 0 .. n : k \notin T}
<1>1. F = {}
  <2> SUFFICES ASSUME F # {} PROVE FALSE
    OBVIOUS
  <2>1. F \subseteq Nat
    OBVIOUS
  <2>2. PICK m \in F : \A k \in F : m <= k
    <3> HIDE DEF F
    <3> QED
      BY <2>1, LeastNat
  <2>3. m \in 1 .. n /\ m \notin T /\ m - 1 \in 0 .. n
    BY <2>2
  <2>4. m - 1 \in T
    BY <2>2, <2>3
  <2> QED
    BY <2>3, <2>4
<1> QED
  BY <1>1

recursive(n, base, step, f) ==
    f = [k \in 0 .. n |-> IF k = 0 THEN base ELSE step[k][f[k - 1]]]

LEMMA Recursion ==
    ASSUME NEW n \in Nat, NEW X, NEW base \in X, NEW step \in [1 .. n -> [X -> X]]
    PROVE  \E f \in [0 .. n -> X] : recursive(n, base, step, f)
<1> DEFINE good(m) == \E f \in [0 .. m -> X] : recursive(m, base, step, f)
           T == {m \in 0 .. n : good(m)}
<1>1. 0 \in T
  <2> DEFINE f == [k \in 0 .. 0 |-> base]
  <2>1. f \in [0 .. 0 -> X] /\ recursive(0, base, step, f)
    BY DEF recursive
  <2> QED
    BY <2>1
<1>2. ASSUME NEW m \in 1 .. n, m - 1 \in T PROVE m \in T
  <2>1. PICK f \in [0 .. (m - 1) -> X] : recursive(m - 1, base, step, f)
    BY <1>2
  <2>2. f = [k \in 0 .. (m - 1) |-> IF k = 0 THEN base ELSE step[k][f[k - 1]]]
    BY <2>1 DEF recursive
  <2> DEFINE g == [k \in 0 .. m |-> IF k = m THEN step[m][f[m - 1]] ELSE f[k]]
  <2>3. f[m - 1] \in X /\ step[m] \in [X -> X] /\ step[m][f[m - 1]] \in X
    OBVIOUS
  <2>4. \A k \in 0 .. m : g[k] = IF k = 0 THEN base ELSE step[k][g[k - 1]]
    <3> TAKE k \in 0 .. m
    <3>1. CASE k = m
      <4>1. m # 0 /\ m - 1 \in 0 .. m /\ m - 1 # m
        OBVIOUS
      <4>2. g[m] = step[m][f[m - 1]] /\ g[m - 1] = f[m - 1]
        BY <4>1
      <4> QED
        BY <3>1, <4>1, <4>2
    <3>2. CASE k # m
      <4>1. k \in 0 .. (m - 1) /\ g[k] = f[k]
        BY <3>2
      <4>2. k # 0 => g[k - 1] = f[k - 1]
        BY <4>1
      <4>3. f[k] = IF k = 0 THEN base ELSE step[k][f[k - 1]]
        BY <2>2, <4>1
      <4> QED
        BY <4>1, <4>2, <4>3
    <3> QED
      BY <3>1, <3>2
  <2>5. g \in [0 .. m -> X]
    BY <2>3
  <2>6. recursive(m, base, step, g)
    <3>1. g = [k \in 0 .. m |-> g[k]]
      OBVIOUS
    <3> HIDE DEF g
    <3> QED
      BY <2>4, <3>1 DEF recursive
  <2> QED
    BY <2>5, <2>6
<1> HIDE DEF T
<1>3. \A m \in 1 .. n : m - 1 \in T => m \in T
  BY <1>2
<1>4. \A m \in 0 .. n : m \in T
  BY <1>1, <1>3, Induct, Zenon
<1> QED
  BY <1>4 DEF T

-----------------------------------------------------------------------------
(* Texts that grow *)

Chars == STRING \cup {"\r", "\n", "/", "."}
Str == Seq(Chars)

\* c is b with more characters behind it.
grows(b, c) ==
    /\ b \in Str /\ c \in Str /\ Len(b) <= Len(c)
    /\ \A i \in 1 .. Len(b) : c[i] = b[i]

LEMMA MinOfNats ==
    ASSUME NEW T, T \subseteq Nat, T # {}
    PROVE  Min(T) \in T /\ \A n \in T : Min(T) <= n
<1>1. \E n \in T : \A m \in T : n <= m
  BY LeastNat
<1> QED
  BY <1>1, Zenon DEF Min

LEMMA MaxOfNats ==
    ASSUME NEW n \in Nat, NEW T, T \subseteq 0 .. n, T # {}
    PROVE  Max(T) \in T /\ \A k \in T : Max(T) >= k
<1> DEFINE U == {u \in 0 .. n : n - u \in T}
<1>1. PICK k \in T : TRUE
  OBVIOUS
<1>2. ASSUME NEW j \in T PROVE n - j \in U
  <2>1. j \in 0 .. n
    OBVIOUS
  <2>2. n - j \in 0 .. n /\ n - (n - j) = j
    BY <2>1
  <2>3. n - (n - j) \in T
    BY <2>2, Zenon
  <2> QED
    BY <2>2, <2>3, Zenon
<1>3. U \subseteq Nat /\ U # {}
  <2>1. U \subseteq Nat
    OBVIOUS
  <2> HIDE DEF U
  <2> QED
    BY <2>1, <1>2, Zenon
<1>4. PICK u \in U : \A v \in U : u <= v
  <2> HIDE DEF U
  <2> QED
    BY <1>3, LeastNat
<1>5. n - u \in T /\ u \in 0 .. n
  BY <1>4
<1>6. \A j \in T : n - u >= j
  <2> TAKE j \in T
  <2>1. u <= n - j
    BY <1>2, <1>4
  <2> HIDE DEF U
  <2> QED
    BY <2>1, <1>5
<1>7. \E x \in T : \A y \in T : x >= y
  BY <1>5, <1>6, Zenon
<1> QED
  BY <1>7, Zenon DEF Max

\* A piece of a text stays where it is.
LEMMA PieceStays ==
    ASSUME NEW b, NEW c, grows(b, c), NEW i \in Nat \ {0}, NEW j \in Int, j <= Len(b)
    PROVE  /\ SubSeq(c, i, j) = SubSeq(b, i, j) /\ SubSeq(b, i, j) \in Str
<1>1. Len(b) \in Nat /\ Len(c) \in Nat /\ b \in Str /\ c \in Str
  BY DEF grows, Str
<1>2. \A k \in i .. j : c[k] = b[k] /\ b[k] \in Chars
  BY <1>1 DEF grows, Str
<1>3. SubSeq(b, i, j) \in Seq(Chars) /\ SubSeq(c, i, j) \in Seq(Chars)
  BY <1>1, <1>2, SubSeqProperties
<1>4. SubSeq(b, i, j) = [k \in 1 .. (j - i + 1) |-> b[k + i - 1]]
  BY <1>1
<1>5. SubSeq(c, i, j) = [k \in 1 .. (j - i + 1) |-> c[k + i - 1]]
  BY <1>1
<1>6. \A k \in 1 .. (j - i + 1) : k + i - 1 \in i .. j
  BY <1>1
<1> QED
  BY <1>2, <1>3, <1>4, <1>5, <1>6 DEF Str

\* What find finds: the first occurrence.
occurs(s, p, i) == SubSeq(s, i, i + Len(p) - 1) = p

LEMMA FindFirst ==
    ASSUME NEW s \in Str, NEW p \in Str, NEW start \in Nat \ {0}
    PROVE  /\ find(s, p, start) \in Nat
           /\ find(s, p, start) # 0 =>
                  /\ find(s, p, start) \in start .. (Len(s) - Len(p) + 1)
                  /\ occurs(s, p, find(s, p, start))
           /\ \A i \in start .. (Len(s) - Len(p) + 1) : occurs(s, p, i) =>
                  find(s, p, start) # 0 /\ find(s, p, start) <= i
<1> DEFINE at == {i \in start .. (Len(s) - Len(p) + 1) : occurs(s, p, i)}
<1>1. find(s, p, start) = IF at = {} THEN 0 ELSE Min(at)
  BY DEF find, occurs
<1>2. Len(s) \in Nat /\ Len(p) \in Nat
  BY DEF Str
<1>3. at \subseteq Nat
  BY <1>2
<1>4. at # {} => Min(at) \in at /\ \A i \in at : Min(at) <= i
  <2> HIDE DEF at
  <2> QED
    BY <1>3, MinOfNats
<1>5. CASE at = {}
  BY <1>1, <1>5
<1>6. CASE at # {}
  <2>1. Min(at) \in start .. (Len(s) - Len(p) + 1) /\ occurs(s, p, Min(at))
    BY <1>4, <1>6, Zenon
  <2>2. Min(at) \in Nat /\ Min(at) # 0
    <3> HIDE DEF at
    <3> QED
      BY <2>1, <1>2
  <2>3. \A i \in start .. (Len(s) - Len(p) + 1) : occurs(s, p, i) => Min(at) <= i
    BY <1>4, <1>6, Zenon
  <2> HIDE DEF at
  <2> QED
    BY <1>1, <1>6, <2>1, <2>2, <2>3, Zenon
<1> QED
  BY <1>5, <1>6

\* What is found is still the first when the text has grown.
LEMMA FindStays ==
    ASSUME NEW b, NEW c, grows(b, c), NEW p \in Str, NEW start \in Nat \ {0},
           find(b, p, start) # 0
    PROVE  find(c, p, start) = find(b, p, start)
<1> DEFINE m == find(b, p, start)
           n == find(c, p, start)
<1>1. b \in Str /\ c \in Str /\ Len(b) \in Nat /\ Len(c) \in Nat /\ Len(b) <= Len(c)
      /\ Len(p) \in Nat
  BY DEF grows, Str
<1>2. m \in Nat /\ n \in Nat /\ m \in start .. (Len(b) - Len(p) + 1) /\ occurs(b, p, m)
  BY <1>1, FindFirst, Zenon
<1>3. \A i \in start .. (Len(b) - Len(p) + 1) : occurs(c, p, i) <=> occurs(b, p, i)
  <2> TAKE i \in start .. (Len(b) - Len(p) + 1)
  <2>1. i \in Nat \ {0} /\ i + Len(p) - 1 \in Int /\ i + Len(p) - 1 <= Len(b)
    BY <1>1
  <2>2. SubSeq(c, i, i + Len(p) - 1) = SubSeq(b, i, i + Len(p) - 1)
    BY <2>1, PieceStays
  <2> QED
    BY <2>2, Zenon DEF occurs
<1>4. m \in start .. (Len(c) - Len(p) + 1) /\ occurs(c, p, m)
  <2> HIDE DEF m
  <2> QED
    BY <1>1, <1>2, <1>3
<1>5. n # 0 /\ n <= m
  BY <1>1, <1>4, FindFirst, Zenon
<1>6. n \in start .. (Len(c) - Len(p) + 1) /\ occurs(c, p, n)
  BY <1>1, <1>5, FindFirst, Zenon
<1>7. n \in start .. (Len(b) - Len(p) + 1)
  <2> HIDE DEF m, n
  <2> QED
    BY <1>1, <1>2, <1>5, <1>6
<1>8. occurs(b, p, n)
  BY <1>3, <1>6, <1>7, Zenon
<1>9. m <= n
  BY <1>1, <1>7, <1>8, FindFirst, Zenon
<1> HIDE DEF m, n
<1>10. m = n
  BY <1>2, <1>5, <1>9
<1> QED
  BY <1>10 DEF m, n

-----------------------------------------------------------------------------
(* Reading RESP *)

\* What a reader answers: the data of a string, or an integer's digits.
Data == Str \cup {Resp!to_string(v) : v \in Int}
Reading == [data : Data, next : Nat \ {0}]

LEMMA Fields ==
    \A r, d, n : r = [data |-> d, next |-> n] => r.data = d /\ r.next = n
OBVIOUS

LEMMA RespText ==
    /\ \A s, p, i : Resp!find(s, p, i) = find(s, p, i)
    /\ Resp!CRLF \in Str /\ Len(Resp!CRLF) = 2
    /\ \A s : Resp!stoi(s) # None => Resp!stoi(s) \in Int
    /\ \A s : Resp!stol(s) # None => Resp!stol(s) \in Int
<1>1. \A s, p, i : Resp!find(s, p, i) = find(s, p, i)
  BY DEF Resp!find, find, Resp!Min, Min
<1>2. Resp!CRLF \in Str /\ Len(Resp!CRLF) = 2
  <2>1. ASSUME NEW S, NEW x \in S, NEW y \in S
        PROVE  <<x, y>> \in Seq(S) /\ Len(<<x, y>>) = 2
    OBVIOUS
  <2>2. "\r" \in Chars /\ "\n" \in Chars
    BY DEF Chars
  <2> QED
    BY <2>1, <2>2, Zenon DEF Resp!CRLF, Str
<1>3. {INT_MAX, LONG_MAX} \subseteq Nat
  BY LimitsAssumption
<1>4. \A n, max : max \in Nat /\ Resp!within(n, max) # None => Resp!within(n, max) \in Int
  BY DEF Resp!within
<1>5. \A s : Resp!stoi(s) # None => Resp!stoi(s) \in Int
  BY <1>3, <1>4 DEF Resp!stoi
<1>6. \A s : Resp!stol(s) # None => Resp!stol(s) \in Int
  BY <1>3, <1>4 DEF Resp!stol
<1> QED
  BY <1>1, <1>2, <1>5, <1>6, Zenon

\* A line ends at the same CRLF when the text has grown.
LEMMA LineStays ==
    ASSUME NEW b, NEW c, grows(b, c), NEW pos \in Nat \ {0}, Resp!line(b, pos) # None
    PROVE  /\ Resp!line(c, pos) = Resp!line(b, pos)
           /\ Resp!line(b, pos) = [data |-> Resp!line(b, pos).data, next |-> Resp!line(b, pos).next]
           /\ Resp!line(b, pos).data \in Str
           /\ Resp!line(b, pos).next \in Nat \ {0}
           /\ pos + 2 <= Resp!line(b, pos).next
           /\ Resp!line(b, pos).next <= Len(b) + 1
           /\ Resp!line(b, pos).data = SubSeq(b, pos, Resp!line(b, pos).next - 3)
<1> DEFINE end == find(b, Resp!CRLF, pos)
<1>1. end # 0 /\ Resp!line(b, pos) = [data |-> SubSeq(b, pos, end - 1), next |-> end + 2]
  BY RespText DEF Resp!line
<1>2. b \in Str /\ c \in Str /\ Len(b) \in Nat
  BY DEF grows, Str
<1>3. end \in Nat /\ end \in pos .. (Len(b) - 2 + 1)
  BY <1>1, <1>2, FindFirst, RespText
<1>4. find(c, Resp!CRLF, pos) = end
  BY <1>1, FindStays, RespText, Zenon
<1> HIDE DEF end
<1>5. end - 1 \in Int /\ end - 1 <= Len(b) /\ (end + 2) - 3 = end - 1
  BY <1>2, <1>3
<1>6. SubSeq(c, pos, end - 1) = SubSeq(b, pos, end - 1) /\ SubSeq(b, pos, end - 1) \in Str
  BY <1>5, PieceStays
<1>7. Resp!line(c, pos) = [data |-> SubSeq(c, pos, end - 1), next |-> end + 2]
  BY <1>1, <1>4, RespText DEF Resp!line
<1>8. /\ end + 2 \in Nat \ {0} /\ pos + 2 <= end + 2 /\ end + 2 <= Len(b) + 1
  BY <1>2, <1>3
<1>9. /\ Resp!line(b, pos).data = SubSeq(b, pos, end - 1)
      /\ Resp!line(b, pos).next = end + 2
  BY <1>1, Fields, Zenon
<1>10. Resp!line(c, pos) = Resp!line(b, pos)
  BY <1>1, <1>6, <1>7, Zenon
<1>11. Resp!line(b, pos).data = SubSeq(b, pos, Resp!line(b, pos).next - 3)
  BY <1>5, <1>9, Zenon
<1>12. Resp!line(b, pos) = [data |-> Resp!line(b, pos).data, next |-> Resp!line(b, pos).next]
  BY <1>1, <1>9, Zenon
<1> QED
  BY <1>6, <1>8, <1>9, <1>10, <1>11, <1>12, Zenon

LEMMA HoldsStays ==
    ASSUME NEW b, NEW c, grows(b, c), NEW pos \in Nat \ {0}, NEW type, pos <= Len(b)
    PROVE  Resp!holds(c, pos, type) <=> Resp!holds(b, pos, type)
<1>1. Len(b) \in Nat /\ Len(c) \in Nat
  BY DEF grows, Str
<1> QED
  BY <1>1 DEF grows, Resp!holds

\* What the bulk string that starts at pos is, once it is there.
LEMMA BulkRead ==
    ASSUME NEW b \in Str, NEW pos \in Nat \ {0}, Resp!parseBulkString(b, pos) # None
    PROVE  LET l == Resp!line(b, pos + 1)
               length == Resp!stoi(l.data)
           IN  /\ Resp!holds(b, pos, "$") /\ l # None /\ length # None /\ length \in Int
               /\ \/ /\ length = -1
                     /\ Resp!parseBulkString(b, pos) = [data |-> <<>>, next |-> l.next]
                  \/ /\ length >= 0 /\ l.next + length + 1 <= Len(b)
                     /\ Resp!parseBulkString(b, pos) =
                            [data |-> SubSeq(b, l.next, l.next + length - 1),
                             next |-> l.next + length + 2]
<1> DEFINE l == Resp!line(b, pos + 1)
           length == Resp!stoi(l.data)
<1>1. Resp!holds(b, pos, "$") /\ l # None /\ length # None
  BY DEF Resp!parseBulkString
<1>2. length \in Int
  BY <1>1, RespText, Zenon
<1>3. Len(b) \in Nat
  BY DEF Str
<1>4. grows(b, b)
  BY <1>3 DEF grows
<1>5. l.next \in Nat
  <2>1. pos + 1 \in Nat \ {0}
    OBVIOUS
  <2> QED
    BY <1>1, <1>4, <2>1, LineStays
<1>6. Resp!parseBulkString(b, pos) =
        IF length = -1 THEN [data |-> <<>>, next |-> l.next]
        ELSE IF length < -1 \/ l.next + length + 1 > Len(b) THEN None
        ELSE [data |-> SubSeq(b, l.next, l.next + length - 1), next |-> l.next + length + 2]
  BY <1>1, Zenon DEF Resp!parseBulkString
<1> HIDE DEF l, length
<1>7. CASE length = -1
  BY <1>1, <1>2, <1>6, <1>7 DEF l, length
<1>8. CASE length # -1
  <2>1. ~(length < -1 \/ l.next + length + 1 > Len(b))
    BY <1>6, <1>8
  <2>2. length >= 0 /\ l.next + length + 1 <= Len(b)
    BY <2>1, <1>2, <1>3, <1>5, <1>8
  <2>3. Resp!parseBulkString(b, pos) =
          [data |-> SubSeq(b, l.next, l.next + length - 1), next |-> l.next + length + 2]
    BY <2>1, <1>6, <1>8, Zenon
  <2> QED
    BY <1>1, <1>2, <2>2, <2>3, Zenon DEF l, length
<1> QED
  BY <1>7, <1>8

LEMMA BulkStays ==
    ASSUME NEW b, NEW c, grows(b, c), NEW pos \in Nat \ {0}, Resp!parseBulkString(b, pos) # None
    PROVE  /\ Resp!parseBulkString(c, pos) = Resp!parseBulkString(b, pos)
           /\ Resp!parseBulkString(b, pos) \in Reading
<1> DEFINE l == Resp!line(b, pos + 1)
           length == Resp!stoi(l.data)
<1>1. b \in Str /\ c \in Str /\ Len(b) \in Nat /\ Len(c) \in Nat /\ Len(b) <= Len(c)
  BY DEF grows, Str
<1>2. /\ Resp!holds(b, pos, "$") /\ l # None /\ length # None /\ length \in Int
      /\ \/ /\ length = -1
            /\ Resp!parseBulkString(b, pos) = [data |-> <<>>, next |-> l.next]
         \/ /\ length >= 0 /\ l.next + length + 1 <= Len(b)
            /\ Resp!parseBulkString(b, pos) =
                   [data |-> SubSeq(b, l.next, l.next + length - 1), next |-> l.next + length + 2]
  BY <1>1, BulkRead, Zenon
<1>3. Resp!holds(c, pos, "$")
  BY <1>2, HoldsStays DEF Resp!holds
<1>4. pos + 1 \in Nat \ {0}
  OBVIOUS
<1>5. Resp!line(c, pos + 1) = l /\ l.next \in Nat \ {0}
  BY <1>2, <1>4, LineStays
<1>6. Resp!parseBulkString(c, pos) =
        IF length = -1 THEN [data |-> <<>>, next |-> l.next]
        ELSE IF length < -1 \/ l.next + length + 1 > Len(c) THEN None
        ELSE [data |-> SubSeq(c, l.next, l.next + length - 1), next |-> l.next + length + 2]
  BY <1>2, <1>3, <1>5, Zenon DEF Resp!parseBulkString
<1> HIDE DEF l, length
<1>7. CASE length = -1
  <2>1. <<>> \in Data
    BY DEF Data, Str
  <2> QED
    BY <1>2, <1>5, <1>6, <1>7, <2>1 DEF Reading
<1>8. CASE length # -1
  <2>0. length \in Nat /\ l.next + length + 1 <= Len(b) /\ l.next \in Nat
    BY <1>2, <1>5, <1>8
  <2>1. ~(length < -1 \/ l.next + length + 1 > Len(c))
    BY <1>1, <2>0
  <2>2. /\ l.next + length - 1 \in Int /\ l.next + length - 1 <= Len(b)
        /\ l.next + length + 2 \in Nat \ {0}
    <3>1. \A x, y, z \in Nat : x + y + 1 <= z =>
            x + y - 1 \in Int /\ x + y - 1 <= z /\ x + y + 2 \in Nat \ {0}
      OBVIOUS
    <3>2. Len(b) \in Nat
      BY <1>1
    <3> QED
      BY <2>0, <3>1, <3>2, Zenon
  <2>3. /\ SubSeq(c, l.next, l.next + length - 1) = SubSeq(b, l.next, l.next + length - 1)
        /\ SubSeq(b, l.next, l.next + length - 1) \in Data
    BY <2>2, <1>5, PieceStays DEF Data
  <2>4. Resp!parseBulkString(c, pos) =
          [data |-> SubSeq(c, l.next, l.next + length - 1), next |-> l.next + length + 2]
    BY <2>1, <1>6, <1>8, Zenon
  <2>5. Resp!parseBulkString(b, pos) =
          [data |-> SubSeq(b, l.next, l.next + length - 1), next |-> l.next + length + 2]
    BY <1>2, <1>8, Zenon
  <2>6. \A d \in Data, n \in Nat \ {0} : [data |-> d, next |-> n] \in Reading
    BY DEF Reading
  <2> QED
    BY <2>2, <2>3, <2>4, <2>5, <2>6, Zenon
<1> QED
  BY <1>7, <1>8

LEMMA SimpleStays ==
    ASSUME NEW b, NEW c, grows(b, c), NEW pos \in Nat \ {0}
    PROVE  /\ Resp!parseSimpleString(b, pos) # None =>
                  /\ Resp!parseSimpleString(c, pos) = Resp!parseSimpleString(b, pos)
                  /\ Resp!parseSimpleString(b, pos) \in Reading
           /\ Resp!parseError(b, pos) # None =>
                  /\ Resp!parseError(c, pos) = Resp!parseError(b, pos)
                  /\ Resp!parseError(b, pos) \in Reading
<1>1. pos + 1 \in Nat \ {0}
  OBVIOUS
<1>2. Resp!line(b, pos + 1) # None =>
        Resp!line(c, pos + 1) = Resp!line(b, pos + 1) /\ Resp!line(b, pos + 1) \in Reading
  <2> SUFFICES ASSUME Resp!line(b, pos + 1) # None
               PROVE  Resp!line(c, pos + 1) = Resp!line(b, pos + 1)
                      /\ Resp!line(b, pos + 1) \in Reading
    OBVIOUS
  <2>1. \A d \in Data, n \in Nat \ {0} : [data |-> d, next |-> n] \in Reading
    BY DEF Reading
  <2>2. Str \subseteq Data
    BY DEF Data
  <2> DEFINE x == Resp!line(b, pos + 1)
  <2>3. /\ Resp!line(c, pos + 1) = x /\ x = [data |-> x.data, next |-> x.next]
        /\ x.data \in Str /\ x.next \in Nat \ {0}
    BY <1>1, LineStays, ZenonT(30)
  <2> HIDE DEF x
  <2> QED
    BY <2>1, <2>2, <2>3, Zenon DEF x
<1>3. \A type : Resp!holds(b, pos, type) => Resp!holds(c, pos, type)
  BY HoldsStays DEF Resp!holds
<1> QED
  BY <1>2, <1>3, Zenon DEF Resp!parseSimpleString, Resp!parseError

LEMMA IntStays ==
    ASSUME NEW b, NEW c, grows(b, c), NEW pos \in Nat \ {0}, Resp!parseInt(b, pos) # None
    PROVE  /\ Resp!parseInt(c, pos) = Resp!parseInt(b, pos)
           /\ Resp!parseInt(b, pos) \in Reading
<1> DEFINE l == Resp!line(b, pos + 1)
           v == Resp!stoi(l.data)
<1>1. Resp!holds(b, pos, ":") /\ l # None /\ v # None
  BY DEF Resp!parseInt
<1>2. pos + 1 \in Nat \ {0}
  OBVIOUS
<1>3. /\ Resp!line(c, pos + 1) = l /\ l = [data |-> l.data, next |-> l.next]
      /\ l.next \in Nat \ {0}
  BY <1>1, <1>2, LineStays
<1>4. Resp!holds(c, pos, ":")
  BY <1>1, HoldsStays DEF Resp!holds
<1>5. /\ Resp!parseInt(b, pos) = [l EXCEPT !.data = Resp!to_string(v)]
      /\ Resp!parseInt(c, pos) = [l EXCEPT !.data = Resp!to_string(v)]
  BY <1>1, <1>3, <1>4, Zenon DEF Resp!parseInt
<1>6. Resp!to_string(v) \in Data
  BY <1>1, RespText, Zenon DEF Data
<1> HIDE DEF l, v
<1>7. [l EXCEPT !.data = Resp!to_string(v)] = [data |-> Resp!to_string(v), next |-> l.next]
  <2>1. ASSUME NEW x, NEW d, NEW n, x = [data |-> d, next |-> n], NEW y
        PROVE  [x EXCEPT !.data = y] = [data |-> y, next |-> n]
    BY <2>1
  <2> QED
    BY <1>3, <2>1, Zenon
<1>8. \A d \in Data, n \in Nat \ {0} : [data |-> d, next |-> n] \in Reading
  BY DEF Reading
<1> QED
  BY <1>3, <1>5, <1>6, <1>7, <1>8

\* What one turn of parseArray's loop reads.
elementAt(b, pos) ==
    CASE Resp!holds(b, pos, "$") -> Resp!parseBulkString(b, pos)
      [] Resp!holds(b, pos, "+") -> Resp!parseSimpleString(b, pos)
      [] Resp!holds(b, pos, ":") -> Resp!parseInt(b, pos)
      [] OTHER -> None

LEMMA ElementKinds ==
    ASSUME NEW b, NEW pos
    PROVE  /\ Resp!holds(b, pos, "$") => elementAt(b, pos) = Resp!parseBulkString(b, pos)
           /\ Resp!holds(b, pos, "+") => elementAt(b, pos) = Resp!parseSimpleString(b, pos)
           /\ Resp!holds(b, pos, ":") => elementAt(b, pos) = Resp!parseInt(b, pos)
           /\ ~Resp!holds(b, pos, "$") /\ ~Resp!holds(b, pos, "+") /\ ~Resp!holds(b, pos, ":") =>
                  elementAt(b, pos) = None
<1>1. /\ Resp!holds(b, pos, "$") => ~Resp!holds(b, pos, "+") /\ ~Resp!holds(b, pos, ":")
      /\ Resp!holds(b, pos, "+") => ~Resp!holds(b, pos, "$") /\ ~Resp!holds(b, pos, ":")
      /\ Resp!holds(b, pos, ":") => ~Resp!holds(b, pos, "+") /\ ~Resp!holds(b, pos, "$")
  BY DEF Resp!holds
<1> QED
  BY <1>1 DEF elementAt

LEMMA ElementStays ==
    ASSUME NEW b, NEW c, grows(b, c), NEW pos \in Nat \ {0}, elementAt(b, pos) # None
    PROVE  elementAt(c, pos) = elementAt(b, pos) /\ elementAt(b, pos) \in Reading
<1>1. \A type : Resp!holds(b, pos, type) => Resp!holds(c, pos, type)
  BY HoldsStays DEF Resp!holds
<1>2. CASE Resp!holds(b, pos, "$")
  BY <1>1, <1>2, ElementKinds, BulkStays
<1>3. CASE Resp!holds(b, pos, "+")
  BY <1>1, <1>3, ElementKinds, SimpleStays
<1>4. CASE Resp!holds(b, pos, ":")
  BY <1>1, <1>4, ElementKinds, IntStays
<1> QED
  BY <1>2, <1>3, <1>4, ElementKinds

Turn == [result : {"Incomplete", "Error", "Complete"}, commands : Seq(Data), consumed : Nat]

LEMMA TurnMade ==
    /\ Resp!incomplete \in Turn /\ Resp!incomplete.result = "Incomplete"
    /\ Resp!error \in Turn /\ Resp!error.result = "Error"
    /\ \A s \in Seq(Data), n \in Nat \ {0} :
           Resp!complete(s, n) \in Turn /\ Resp!complete(s, n).result = "Complete"
    /\ \A s, n : /\ Resp!complete(s, n).commands = s /\ Resp!complete(s, n).consumed = n - 1
                 /\ Resp!complete(s, n).result = "Complete"
<1>1. Resp!error = [result |-> "Error", commands |-> <<>>, consumed |-> 0]
  BY DEF Resp!incomplete, Resp!error
<1>2. <<>> \in Seq(Data)
  OBVIOUS
<1>3. \A s, n : /\ Resp!complete(s, n).commands = s /\ Resp!complete(s, n).consumed = n - 1
                /\ Resp!complete(s, n).result = "Complete"
  BY DEF Resp!complete
<1>5. \A s \in Seq(Data), n \in Nat \ {0} : Resp!complete(s, n) \in Turn
  <2> TAKE s \in Seq(Data), n \in Nat \ {0}
  <2>1. n - 1 \in Nat
    OBVIOUS
  <2> QED
    BY <2>1 DEF Turn, Resp!complete
<1>6. Resp!incomplete \in Turn /\ Resp!incomplete.result = "Incomplete"
  BY <1>2 DEF Turn, Resp!incomplete
<1>7. Resp!error \in Turn /\ Resp!error.result = "Error"
  BY <1>1, <1>2 DEF Turn
<1> QED
  BY <1>3, <1>5, <1>6, <1>7

LEMMA ReadElementIs ==
    ASSUME NEW b, NEW a
    PROVE  Resp!readElement(b, a) =
             LET e == elementAt(b, a.consumed + 1)
             IN  IF a.result # "Complete" THEN a
                 ELSE IF a.consumed >= Len(b) THEN Resp!incomplete
                 ELSE IF b[a.consumed + 1] \notin {"$", "+", ":"} THEN Resp!error
                 ELSE IF e = None THEN Resp!incomplete
                 ELSE Resp!complete(Append(a.commands, e.data), e.next)
BY Zenon DEF Resp!readElement, elementAt

LEMMA ReadElementTyped ==
    ASSUME NEW b \in Str, NEW a \in Turn
    PROVE  Resp!readElement(b, a) \in Turn
<1> DEFINE e == elementAt(b, a.consumed + 1)
<1>1. a.consumed \in Nat /\ a.consumed + 1 \in Nat \ {0} /\ a.commands \in Seq(Data)
  BY DEF Turn
<1>2. grows(b, b)
  BY DEF grows, Str
<1>3. e # None => e.data \in Data /\ e.next \in Nat \ {0}
  BY <1>1, <1>2, ElementStays DEF Reading
<1>4. e # None => Append(a.commands, e.data) \in Seq(Data)
  <2> HIDE DEF e
  <2> QED
    BY <1>1, <1>3
<1> QED
  BY <1>3, <1>4, ReadElementIs, TurnMade

LEMMA ReadElementStays ==
    ASSUME NEW b, NEW c, grows(b, c), NEW a \in Turn, Resp!readElement(b, a) # Resp!incomplete
    PROVE  Resp!readElement(c, a) = Resp!readElement(b, a)
<1> DEFINE e == elementAt(b, a.consumed + 1)
           pos == a.consumed + 1
<1>1. a.consumed \in Nat /\ pos \in Nat \ {0}
  BY DEF Turn
<1>2. Len(b) \in Nat /\ Len(c) \in Nat /\ Len(b) <= Len(c)
  BY DEF grows, Str
<1>3. CASE a.result # "Complete"
  BY <1>3, ReadElementIs
<1>4. CASE a.result = "Complete"
  <2>1. ~(a.consumed >= Len(b))
    BY <1>4, ReadElementIs
  <2>2. ~(a.consumed >= Len(c)) /\ pos \in 1 .. Len(b)
    BY <1>1, <1>2, <2>1
  <2>3. c[pos] = b[pos]
    BY <2>2 DEF grows
  <2>4. CASE b[pos] \notin {"$", "+", ":"}
    BY <1>4, <2>1, <2>2, <2>3, <2>4, ReadElementIs, Zenon
  <2>5. CASE b[pos] \in {"$", "+", ":"}
    <3>1. e # None
      BY <1>4, <2>1, <2>5, ReadElementIs
    <3>2. elementAt(c, pos) = e
      BY <1>1, <3>1, ElementStays
    <3> QED
      BY <1>4, <2>1, <2>2, <2>3, <2>5, <3>1, <3>2, ReadElementIs, Zenon
  <2> QED
    BY <2>4, <2>5
<1> QED
  BY <1>3, <1>4

\* What parseArray's loop makes of count elements from start on.
reads(b, start, count, f) ==
    f = [i \in 0 .. count |->
            IF i = 0 THEN Resp!complete(<<>>, start) ELSE Resp!readElement(b, f[i - 1])]

LEMMA ReadsExists ==
    ASSUME NEW b \in Str, NEW start \in Nat \ {0}, NEW count \in Nat
    PROVE  \E f : reads(b, start, count, f)
<1> DEFINE base == Resp!complete(<<>>, start)
           step == [k \in 1 .. count |-> [a \in Turn |-> Resp!readElement(b, a)]]
<1>1. base \in Turn
  <2>1. <<>> \in Seq(Data)
    OBVIOUS
  <2> QED
    BY <2>1, TurnMade, Zenon
<1>2. step \in [1 .. count -> [Turn -> Turn]]
  BY ReadElementTyped
<1>3. PICK f \in [0 .. count -> Turn] : recursive(count, base, step, f)
  <2> HIDE DEF base, step
  <2> QED
    BY <1>1, <1>2, Recursion, Zenon
<1>4. \A i \in 0 .. count : i # 0 => step[i][f[i - 1]] = Resp!readElement(b, f[i - 1])
  <2> TAKE i \in 0 .. count
  <2>1. i # 0 => i \in 1 .. count /\ f[i - 1] \in Turn
    BY <1>3
  <2> QED
    BY <2>1
<1>5. f = [i \in 0 .. count |-> IF i = 0 THEN base ELSE step[i][f[i - 1]]]
  BY <1>3, Zenon DEF recursive
<1>6. f = [i \in 0 .. count |-> IF i = 0 THEN base ELSE Resp!readElement(b, f[i - 1])]
  <2> HIDE DEF base, step
  <2> QED
    BY <1>4, <1>5
<1> QED
  BY <1>6, Zenon DEF reads

LEMMA ReadsTyped ==
    ASSUME NEW b \in Str, NEW start \in Nat \ {0}, NEW count \in Nat, NEW f,
           reads(b, start, count, f)
    PROVE  /\ f[0] = Resp!complete(<<>>, start)
           /\ \A i \in 1 .. count : f[i] = Resp!readElement(b, f[i - 1])
           /\ \A i \in 0 .. count : f[i] \in Turn
<1> DEFINE T == {i \in 0 .. count : f[i] \in Turn}
<1>1. f[0] = Resp!complete(<<>>, start)
  BY DEF reads
<1>2. \A i \in 1 .. count : f[i] = Resp!readElement(b, f[i - 1])
  BY DEF reads
<1>3. 0 \in T
  <2>1. <<>> \in Seq(Data)
    OBVIOUS
  <2>2. f[0] \in Turn
    BY <1>1, <2>1, TurnMade, Zenon
  <2> QED
    BY <2>2
<1>4. \A i \in 1 .. count : i - 1 \in T => i \in T
  <2> SUFFICES ASSUME NEW i \in 1 .. count, f[i - 1] \in Turn PROVE f[i] \in Turn
    OBVIOUS
  <2> QED
    BY <1>2, ReadElementTyped
<1> HIDE DEF T
<1>5. \A i \in 0 .. count : i \in T
  BY <1>3, <1>4, Induct, Zenon
<1>6. \A i \in 0 .. count : f[i] \in Turn
  BY <1>5 DEF T
<1> QED
  BY <1>1, <1>2, <1>6

LEMMA ArrayRead ==
    ASSUME NEW b \in Str
    PROVE  LET l == Resp!line(b, 2)
               count == Resp!stoi(l.data)
           IN  /\ l = None => Resp!parseArray(b) = Resp!incomplete
               /\ l # None /\ (count = None \/ count \notin 0 .. kMaxArrayElements) =>
                      Resp!parseArray(b) = Resp!error
               /\ l # None /\ count # None /\ count \in 0 .. kMaxArrayElements =>
                      \E f : reads(b, l.next, count, f) /\ Resp!parseArray(b) = f[count]
<1> DEFINE l == Resp!line(b, 2)
           count == Resp!stoi(l.data)
           f == CHOOSE f : reads(b, l.next, count, f)
<1>1. Resp!parseArray(b) =
        IF l = None THEN Resp!incomplete
        ELSE IF count = None THEN Resp!error
        ELSE IF count \notin 0 .. kMaxArrayElements THEN Resp!error
        ELSE f[count]
  BY DEF Resp!parseArray, reads
<1>2. l # None /\ count \in 0 .. kMaxArrayElements => reads(b, l.next, count, f)
  <2> SUFFICES ASSUME l # None, count \in 0 .. kMaxArrayElements
               PROVE  \E g : reads(b, l.next, count, g)
    BY Zenon
  <2>1. grows(b, b)
    BY DEF grows, Str
  <2>2. l.next \in Nat \ {0}
    BY <2>1, LineStays
  <2>3. count \in Nat
    <3> HIDE DEF count
    <3> QED
      BY LimitsAssumption
  <2> QED
    BY <2>2, <2>3, ReadsExists, Zenon
<1> QED
  BY <1>1, <1>2, Zenon

LEMMA ArrayStays ==
    ASSUME NEW b, NEW c, grows(b, c), Resp!parseArray(b) # Resp!incomplete
    PROVE  Resp!parseArray(c) = Resp!parseArray(b)
<1> DEFINE l == Resp!line(b, 2)
           count == Resp!stoi(l.data)
<1>1. b \in Str /\ c \in Str
  BY DEF grows
<1>2. l # None
  BY <1>1, ArrayRead, Zenon
<1>3. Resp!line(c, 2) = l /\ l.next \in Nat \ {0}
  BY <1>2, LineStays
<1>4. CASE count = None \/ count \notin 0 .. kMaxArrayElements
  BY <1>1, <1>2, <1>3, <1>4, ArrayRead, Zenon
<1>5. CASE count # None /\ count \in 0 .. kMaxArrayElements
  <2>1. PICK f : reads(b, l.next, count, f) /\ Resp!parseArray(b) = f[count]
    BY <1>1, <1>2, <1>5, ArrayRead, Zenon
  <2>2. PICK g : reads(c, l.next, count, g) /\ Resp!parseArray(c) = g[count]
    BY <1>1, <1>2, <1>3, <1>5, ArrayRead, Zenon
  <2> HIDE DEF l, count
  <2>3. count \in Nat
    BY <1>5, LimitsAssumption
  <2>4. /\ f[0] = Resp!complete(<<>>, l.next)
        /\ \A i \in 1 .. count : f[i] = Resp!readElement(b, f[i - 1])
        /\ \A i \in 0 .. count : f[i] \in Turn
    BY <1>1, <1>3, <2>1, <2>3, ReadsTyped, Zenon
  <2>5. /\ g[0] = Resp!complete(<<>>, l.next)
        /\ \A i \in 1 .. count : g[i] = Resp!readElement(c, g[i - 1])
    BY <1>1, <1>3, <2>2, <2>3, ReadsTyped
  <2> DEFINE T == {i \in 0 .. count : f[i] # Resp!incomplete => g[i] = f[i]}
  <2>6. 0 \in T
    BY <2>3, <2>4, <2>5
  <2>7. \A i \in 1 .. count : i - 1 \in T => i \in T
    <3> SUFFICES ASSUME NEW i \in 1 .. count, i - 1 \in T, f[i] # Resp!incomplete
                 PROVE  g[i] = f[i]
      OBVIOUS
    <3>1. i - 1 \in 0 .. count
      OBVIOUS
    <3>2. f[i - 1] \in Turn /\ f[i] = Resp!readElement(b, f[i - 1])
      BY <2>4, <3>1
    <3>3. f[i - 1] # Resp!incomplete
      BY <3>2, ReadElementIs, TurnMade
    <3>4. g[i - 1] = f[i - 1]
      BY <3>3
    <3>5. Resp!readElement(c, f[i - 1]) = Resp!readElement(b, f[i - 1])
      BY <3>2, ReadElementStays
    <3> QED
      BY <2>5, <3>2, <3>4, <3>5
  <2> HIDE DEF T
  <2>8. \A i \in 0 .. count : i \in T
    BY <2>3, <2>6, <2>7, Induct, Zenon
  <2>9. count \in 0 .. count
    BY <2>3
  <2>10. count \in T
    BY <2>8, <2>9, Zenon
  <2> QED
    BY <2>1, <2>2, <2>10 DEF T
<1> QED
  BY <1>4, <1>5

one(prefix, e) ==
    IF e = None THEN Resp!incomplete ELSE Resp!complete(<<prefix \o e.data>>, e.next)

LEMMA ParseKinds ==
    ASSUME NEW b \in Str
    PROVE  Resp!parse(b) =
             IF b = <<>> THEN Resp!incomplete
             ELSE IF Resp!holds(b, 1, "*") THEN Resp!parseArray(b)
             ELSE IF Resp!holds(b, 1, "$") THEN one(<<>>, Resp!parseBulkString(b, 1))
             ELSE IF Resp!holds(b, 1, "+") THEN one(<<>>, Resp!parseSimpleString(b, 1))
             ELSE IF Resp!holds(b, 1, "-") THEN one(<<"ERROR:">>, Resp!parseError(b, 1))
             ELSE IF Resp!holds(b, 1, ":") THEN one(<<"INT:">>, Resp!parseInt(b, 1))
             ELSE one(<<>>, Resp!line(b, 1))
<1>1. b # <<>> \/ ~Resp!holds(b, 1, b[1])
  BY DEF Resp!holds
<1>2. ASSUME NEW x, NEW y, x # y, Resp!holds(b, 1, x)
      PROVE  ~Resp!holds(b, 1, y) /\ b # <<>>
  BY <1>2 DEF Resp!holds
<1>3. /\ "*" # "$" /\ "*" # "+" /\ "*" # "-" /\ "*" # ":" /\ "$" # "+"
      /\ "$" # "-" /\ "$" # ":" /\ "+" # "-" /\ "+" # ":" /\ "-" # ":"
  OBVIOUS
<1>4. CASE b = <<>>
  BY <1>2, <1>4 DEF Resp!parse
<1>5. CASE Resp!holds(b, 1, "*")
  BY <1>2, <1>3, <1>5 DEF Resp!parse, one
<1>6. CASE Resp!holds(b, 1, "$")
  BY <1>2, <1>3, <1>6 DEF Resp!parse, one
<1>7. CASE Resp!holds(b, 1, "+")
  BY <1>2, <1>3, <1>7 DEF Resp!parse, one
<1>8. CASE Resp!holds(b, 1, "-")
  BY <1>2, <1>3, <1>8 DEF Resp!parse, one
<1>9. CASE Resp!holds(b, 1, ":")
  BY <1>2, <1>3, <1>9 DEF Resp!parse, one
<1>10. CASE /\ b # <<>> /\ ~Resp!holds(b, 1, "*") /\ ~Resp!holds(b, 1, "$")
            /\ ~Resp!holds(b, 1, "+") /\ ~Resp!holds(b, 1, "-") /\ ~Resp!holds(b, 1, ":")
  BY <1>10 DEF Resp!parse, one
<1> QED
  BY <1>4, <1>5, <1>6, <1>7, <1>8, <1>9, <1>10

LEMMA RespParseStays ==
    ASSUME NEW b, NEW c, grows(b, c), Resp!parse(b) # Resp!incomplete
    PROVE  Resp!parse(c) = Resp!parse(b)
<1>1. b \in Str /\ c \in Str /\ Len(b) \in Nat /\ Len(c) \in Nat /\ Len(b) <= Len(c)
  BY DEF grows, Str
<1>2. b # <<>>
  BY <1>1, ParseKinds
<1>3. 1 <= Len(b) /\ c # <<>>
  BY <1>1, <1>2 DEF Str
<1>4. \A type : Resp!holds(c, 1, type) <=> Resp!holds(b, 1, type)
  BY <1>3, HoldsStays
<1>5. \A p, e : one(p, e) # Resp!incomplete => e # None
  BY DEF one
<1>6. /\ Resp!parseBulkString(b, 1) # None =>
             Resp!parseBulkString(c, 1) = Resp!parseBulkString(b, 1)
      /\ Resp!parseSimpleString(b, 1) # None =>
             Resp!parseSimpleString(c, 1) = Resp!parseSimpleString(b, 1)
      /\ Resp!parseError(b, 1) # None => Resp!parseError(c, 1) = Resp!parseError(b, 1)
      /\ Resp!parseInt(b, 1) # None => Resp!parseInt(c, 1) = Resp!parseInt(b, 1)
      /\ Resp!line(b, 1) # None => Resp!line(c, 1) = Resp!line(b, 1)
  BY BulkStays, SimpleStays, IntStays, LineStays
<1>7. Resp!parseArray(b) # Resp!incomplete => Resp!parseArray(c) = Resp!parseArray(b)
  BY ArrayStays
<1> QED
  BY <1>1, <1>2, <1>3, <1>4, <1>5, <1>6, <1>7, ParseKinds

LEMMA TryBeginStays ==
    ASSUME NEW b, NEW c, grows(b, c), Resp!tryBeginStreaming(b) # None
    PROVE  Resp!tryBeginStreaming(c) = Resp!tryBeginStreaming(b)
<1> DEFINE count == Resp!line(b, 1)
           command == Resp!parseBulkString(b, count.next)
           key == Resp!parseBulkString(b, command.next)
           value == Resp!line(b, key.next + 1)
<1>1. /\ count # None /\ command # None /\ key # None /\ value # None
      /\ Resp!holds(b, key.next, "$")
  BY DEF Resp!tryBeginStreaming
<1>2. Resp!line(c, 1) = count /\ count.next \in Nat \ {0}
  BY <1>1, LineStays
<1>3. Resp!parseBulkString(c, count.next) = command /\ command.next \in Nat \ {0}
  BY <1>1, <1>2, BulkStays DEF Reading
<1>4. Resp!parseBulkString(c, command.next) = key /\ key.next \in Nat \ {0}
  BY <1>1, <1>3, BulkStays DEF Reading
<1>5. Resp!holds(c, key.next, "$")
  <2>1. \A pos \in Nat \ {0} : Resp!holds(b, pos, "$") => Resp!holds(c, pos, "$")
    BY HoldsStays DEF Resp!holds
  <2> QED
    BY <1>1, <1>4, <2>1, Zenon
<1>6. Resp!line(c, key.next + 1) = value
  <2>1. key.next + 1 \in Nat \ {0}
    BY <1>4
  <2> QED
    BY <1>1, <2>1, LineStays
<1> QED
  BY <1>1, <1>2, <1>3, <1>4, <1>5, <1>6, Zenon DEF Resp!tryBeginStreaming

-----------------------------------------------------------------------------
(* Reading HTTP *)

HeadersEnd == Http!CRLF \o Http!CRLF

LEMMA HttpText ==
    /\ \A s, p, i : Http!find(s, p, i) = find(s, p, i)
    /\ HeadersEnd \in Str /\ Len(HeadersEnd) = 4
<1>1. \A s, p, i : Http!find(s, p, i) = find(s, p, i)
  BY DEF Http!find, find, Http!Min, Min
<1>2. ASSUME NEW S, NEW x \in S, NEW y \in S
      PROVE  <<x, y>> \o <<x, y>> \in Seq(S) /\ Len(<<x, y>> \o <<x, y>>) = 4
  <2>1. <<x, y>> \in Seq(S) /\ Len(<<x, y>>) = 2
    OBVIOUS
  <2> QED
    BY <2>1, ConcatProperties
<1>3. "\r" \in Chars /\ "\n" \in Chars
  BY DEF Chars
<1>4. HeadersEnd \in Str /\ Len(HeadersEnd) = 4
  BY <1>2, <1>3, Zenon DEF HeadersEnd, Http!CRLF, Str
<1> QED
  BY <1>1, <1>4, Zenon

\* A header section that has ended is not changed by what follows it.
LEMMA HeadersStay ==
    ASSUME NEW b, NEW c, grows(b, c), terminated(b)
    PROVE  /\ terminated(c)
           /\ Http!parseHeadersOnly(c) = Http!parseHeadersOnly(b)
           /\ Http!wantsStreaming(c) = Http!wantsStreaming(b)
<1> DEFINE end == find(b, HeadersEnd, 1)
<1>1. end # 0 /\ Http!find(b, HeadersEnd, 1) = end
  BY HttpText, Zenon DEF terminated, HeadersEnd
<1>2. find(c, HeadersEnd, 1) = end
  BY <1>1, FindStays, HttpText
<1>3. Http!find(c, HeadersEnd, 1) = end
  BY <1>2, HttpText, Zenon
<1>4. SubSeq(c, 1, end - 1) = SubSeq(b, 1, end - 1)
  <2>1. b \in Str /\ Len(b) \in Nat
    BY DEF grows, Str
  <2>2. end \in Nat /\ end \in 1 .. (Len(b) - Len(HeadersEnd) + 1) /\ Len(HeadersEnd) = 4
    <3>1. 1 \in Nat \ {0}
      OBVIOUS
    <3> QED
      BY <1>1, <2>1, <3>1, FindFirst, HttpText, Zenon
  <2> HIDE DEF end
  <2>3. end - 1 \in Int /\ end - 1 <= Len(b)
    BY <2>1, <2>2
  <2> QED
    BY <2>3, PieceStays
<1>5. terminated(c)
  BY <1>1, <1>3, Zenon DEF terminated, HeadersEnd
<1> HIDE DEF end
<1>6. Http!parseHeadersOnly(c) = Http!parseHeadersOnly(b)
  BY <1>1, <1>3, <1>4, Zenon DEF Http!parseHeadersOnly, HeadersEnd
<1>7. Http!wantsStreaming(c) = Http!wantsStreaming(b)
  BY <1>6, Zenon DEF Http!wantsStreaming
<1> QED
  BY <1>5, <1>6, <1>7

LEMMA HeadersConsumed ==
    ASSUME NEW b \in Str, Http!parseHeadersOnly(b).result = "Complete"
    PROVE  /\ terminated(b)
           /\ Http!parseHeadersOnly(b).consumed \in 4 .. Len(b)
<1> DEFINE end == Http!find(b, HeadersEnd, 1)
<1>1. Http!incomplete.result = "Incomplete" /\ Http!error.result = "Error"
  BY DEF Http!incomplete, Http!error
<1>2. end # 0 /\ Http!parseHeadersOnly(b).consumed = end + 3
  BY <1>1 DEF Http!parseHeadersOnly, HeadersEnd
<1>3. Len(b) \in Nat
  BY DEF Str
<1>4. end \in 1 .. (Len(b) - 4 + 1)
  <2>1. 1 \in Nat \ {0}
    OBVIOUS
  <2>2. end = find(b, HeadersEnd, 1)
    BY HttpText, Zenon
  <2> HIDE DEF end
  <2>3. end \in 1 .. (Len(b) - Len(HeadersEnd) + 1) /\ Len(HeadersEnd) = 4
    BY <1>2, <2>1, <2>2, FindFirst, HttpText, Zenon
  <2> QED
    BY <2>3
<1>5. terminated(b)
  BY <1>2, Zenon DEF terminated, HeadersEnd
<1> HIDE DEF end
<1>6. end + 3 \in 4 .. Len(b)
  BY <1>3, <1>4
<1> QED
  BY <1>2, <1>5, <1>6

\* The length of the body that parse waits for.
bodyLength(h) == IF h.contentLength = None THEN 0 ELSE Http!stol(h.contentLength)

LEMMA HttpParseIs ==
    ASSUME NEW b
    PROVE  LET h == Http!parseHeadersOnly(b)
           IN  Http!parse(b) = IF h.result # "Complete" THEN h
                               ELSE Http!takeBody(b, h, bodyLength(h))
BY Zenon DEF Http!parse, bodyLength

LEMMA HttpParseStays ==
    ASSUME NEW b, NEW c, grows(b, c), terminated(b), Http!parse(b) # Http!incomplete
    PROVE  Http!parse(c) = Http!parse(b)
<1> DEFINE h == Http!parseHeadersOnly(b)
           length == bodyLength(h)
<1>1. Http!parseHeadersOnly(c) = h
  BY HeadersStay
<1>2. b \in Str /\ Len(b) \in Nat /\ Len(c) \in Nat /\ Len(b) <= Len(c)
  BY DEF grows, Str
<1>3. CASE h.result # "Complete"
  BY <1>1, <1>3, HttpParseIs, Zenon
<1>4. CASE h.result = "Complete"
  <2>1. h.consumed \in 4 .. Len(b)
    BY <1>2, <1>4, HeadersConsumed, Zenon
  <2>2. Http!parse(b) = Http!takeBody(b, h, length) /\ Http!parse(c) = Http!takeBody(c, h, length)
    BY <1>1, <1>4, HttpParseIs, Zenon
  <2> HIDE DEF h, length
  <2>3. CASE length = None \/ length \notin 0 .. kMaxBodySize
    BY <2>2, <2>3 DEF Http!takeBody
  <2>4. CASE length # None /\ length \in 0 .. kMaxBodySize
    <3>1. length \in Nat /\ h.consumed \in Nat
      BY <1>2, <2>1, <2>4, LimitsAssumption
    <3>2. ~(Len(b) < h.consumed + length)
      BY <2>2, <2>4 DEF Http!takeBody
    <3>3. ~(Len(c) < h.consumed + length) /\ h.consumed + length \in Int
          /\ h.consumed + length <= Len(b) /\ h.consumed + 1 \in Nat \ {0}
      BY <1>2, <3>1, <3>2
    <3>4. SubSeq(c, h.consumed + 1, h.consumed + length)
            = SubSeq(b, h.consumed + 1, h.consumed + length)
      BY <3>3, PieceStays
    <3> QED
      BY <2>2, <2>4, <3>2, <3>3, <3>4, Zenon DEF Http!takeBody
  <2> QED
    BY <2>3, <2>4
<1> QED
  BY <1>3, <1>4

-----------------------------------------------------------------------------
(* The protocol *)

LEMMA MinOfTwo ==
    ASSUME NEW x \in Nat, NEW y \in Nat
    PROVE  Detector!Min({x, y}) = IF x <= y THEN x ELSE y
<1>1. Detector!Min({x, y}) = Min({x, y})
  BY DEF Detector!Min, Min
<1>2. Min({x, y}) \in {x, y} /\ \A n \in {x, y} : Min({x, y}) <= n
  <2>1. {x, y} \subseteq Nat /\ {x, y} # {}
    OBVIOUS
  <2> QED
    BY <2>1, MinOfNats, Zenon
<1> QED
  BY <1>1, <1>2

LEMMA PrefixesAgree ==
    ASSUME NEW S, NEW d \in Seq(S), NEW m \in Seq(S), NEW n \in Nat, n <= Len(d), n <= Len(m)
    PROVE  SubSeq(d, 1, n) = SubSeq(m, 1, n) <=> \A i \in 1 .. n : d[i] = m[i]
<1>1. SubSeq(d, 1, n) = [i \in 1 .. n |-> d[i]]
  OBVIOUS
<1>2. SubSeq(m, 1, n) = [i \in 1 .. n |-> m[i]]
  OBVIOUS
<1> QED
  BY <1>1, <1>2

\* d begins like the method m, as far as both go.
agrees(d, m) == \A i \in 1 .. Len(d) : i <= Len(m) => d[i] = m[i]
Methods == {Append(name, " ") : name \in Detector!methodNames}

MethodChars == Chars \cup {"G", "E", "T", "P", "U", "D", "L", " "}

LEMMA MethodsAreTexts == \A m \in Methods : m \in Seq(MethodChars) /\ Len(m) \in Nat
<1> DEFINE S == MethodChars
<1>1. /\ "G" \in S /\ "E" \in S /\ "T" \in S /\ "P" \in S
      /\ "U" \in S /\ "D" \in S /\ "L" \in S /\ " " \in S
  BY DEF MethodChars
<1>2. ASSUME NEW X, NEW u \in X, NEW v \in X, NEW w \in X, NEW x \in X
      PROVE  <<u, v, w>> \in Seq(X) /\ <<u, v, w, v, x, v>> \in Seq(X)
             /\ \A name \in Seq(X) : Append(name, u) \in Seq(X)
  OBVIOUS
<1> HIDE DEF S
<1>3. /\ <<"G", "E", "T">> \in Seq(S) /\ <<"P", "U", "T">> \in Seq(S)
      /\ <<"D", "E", "L", "E", "T", "E">> \in Seq(S)
  BY <1>1, <1>2, Zenon
<1>4. \A name \in Detector!methodNames : name \in Seq(S)
  BY <1>3, Zenon DEF Detector!methodNames
<1>5. \A name \in Seq(S) : Append(name, " ") \in Seq(S)
  BY <1>1, <1>2, Zenon
<1>6. \A m \in Seq(S) : Len(m) \in Nat
  OBVIOUS
<1> QED
  BY <1>4, <1>5, <1>6, Zenon DEF S, Methods

LEMMA IsHttpIs ==
    ASSUME NEW d \in Str
    PROVE  Detector!isHttp(d) =
             IF \E m \in Methods : agrees(d, m) /\ Len(d) >= Len(m) THEN "Match"
             ELSE IF \E m \in Methods : agrees(d, m) THEN "NeedMoreData" ELSE "NoMatch"
<1> DEFINE S == MethodChars
           least(m) == Detector!Min({Len(d), Len(m)})
           agreeing == {m \in Methods : SubSeq(d, 1, least(m)) = SubSeq(m, 1, least(m))}
<1>1. ASSUME NEW m \in Methods
      PROVE  SubSeq(d, 1, least(m)) = SubSeq(m, 1, least(m)) <=> agrees(d, m)
  <2>1. d \in Seq(S) /\ m \in Seq(S)
    <3>1. Chars \subseteq MethodChars
      BY DEF MethodChars
    <3>2. d \in Seq(MethodChars)
      BY <3>1 DEF Str
    <3> QED
      BY <3>2, MethodsAreTexts, Zenon
  <2> HIDE DEF S
  <2>2. Len(d) \in Nat /\ Len(m) \in Nat
    BY <2>1
  <2>3. least(m) = IF Len(d) <= Len(m) THEN Len(d) ELSE Len(m)
    BY <2>2, MinOfTwo, Zenon
  <2> HIDE DEF least
  <2>4. least(m) \in Nat /\ least(m) <= Len(d) /\ least(m) <= Len(m)
    BY <2>2, <2>3
  <2>5. SubSeq(d, 1, least(m)) = SubSeq(m, 1, least(m)) <=> \A i \in 1 .. least(m) : d[i] = m[i]
    BY <2>1, <2>4, PrefixesAgree, Zenon
  <2>6. \A i \in 1 .. Len(d) : i <= Len(m) <=> i \in 1 .. least(m)
    BY <2>2, <2>3
  <2>7. \A i \in 1 .. least(m) : i \in 1 .. Len(d)
    BY <2>2, <2>3
  <2> QED
    BY <2>5, <2>6, <2>7, Zenon DEF agrees
<1>2. Detector!isHttp(d) =
        IF \E m \in agreeing : Len(d) >= Len(m) THEN "Match"
        ELSE IF agreeing # {} THEN "NeedMoreData" ELSE "NoMatch"
  BY Zenon DEF Detector!isHttp, Methods
<1>3. (\E m \in agreeing : Len(d) >= Len(m)) <=> \E m \in Methods : agrees(d, m) /\ Len(d) >= Len(m)
  BY <1>1, Zenon
<1>4. agreeing # {} <=> \E m \in Methods : agrees(d, m)
  BY <1>1, Zenon
<1> QED
  BY <1>2, <1>3, <1>4, Zenon

LEMMA ChosenStays ==
    ASSUME NEW b, NEW c, grows(b, c), Detector!chosen(b) # "NeedMoreData"
    PROVE  Detector!chosen(c) = Detector!chosen(b)
<1>1. b \in Str /\ c \in Str /\ Len(b) \in Nat /\ Len(c) \in Nat /\ Len(b) <= Len(c)
  BY DEF grows, Str
<1>2. b # <<>>
  BY DEF Detector!chosen
<1>3. c # <<>> /\ c[1] = b[1]
  BY <1>1, <1>2 DEF grows, Str
<1>4. ASSUME NEW m \in Methods
      PROVE  /\ agrees(c, m) => agrees(b, m)
             /\ agrees(b, m) /\ Len(b) >= Len(m) => agrees(c, m) /\ Len(c) >= Len(m)
  <2>1. Len(m) \in Nat
    BY MethodsAreTexts, Zenon
  <2>2. agrees(c, m) => agrees(b, m)
    BY <1>1 DEF agrees, grows
  <2>3. agrees(b, m) /\ Len(b) >= Len(m) => agrees(c, m) /\ Len(c) >= Len(m)
    BY <1>1, <2>1 DEF agrees, grows
  <2> QED
    BY <2>2, <2>3
<1>5. Detector!isHttp(b) # "NeedMoreData" => Detector!isHttp(c) = Detector!isHttp(b)
  BY <1>1, <1>4, IsHttpIs
<1> QED
  BY <1>2, <1>3, <1>5 DEF Detector!chosen

-----------------------------------------------------------------------------
(* Verdicts *)

\* What is fed is the beginning of a job's text.
IInv ==
    /\ job \in RespJobs \cup HttpJobs \cup PathJobs \cup ArgJobs
    /\ fed \in 0 .. Len(job.text)

LEMMA JobText ==
    ASSUME IInv
    PROVE  /\ Len(job.text) \in Nat /\ fed \in Nat /\ fed <= Len(job.text)
           /\ job.kind # "args" =>
                  job.text \in Str /\ buffer \in Str /\ Len(buffer) = fed
<1>1. job.text \in Seq(STRING) \/ job.text \in Seq(Seq(STRING))
  BY JobsAssumption DEF IInv
<1>2. Len(job.text) \in Nat /\ fed \in Nat /\ fed <= Len(job.text)
  BY <1>1 DEF IInv
<1>3. ASSUME job.kind # "args" PROVE job.text \in Str
  <2>1. job.text \in Seq(STRING)
    BY <1>3, JobsAssumption DEF IInv
  <2> QED
    BY <2>1 DEF Str, Chars
<1>4. ASSUME NEW t \in Seq(Chars), fed <= Len(t)
      PROVE  SubSeq(t, 1, fed) \in Seq(Chars) /\ Len(SubSeq(t, 1, fed)) = fed
  BY <1>2, <1>4, SubSeqProperties
<1> QED
  BY <1>2, <1>3, <1>4 DEF buffer, Str

\* The job stays, and what is fed of its text lies within it.
LEMMA Feeding == Spec => []IInv
<1>1. Init => IInv
  <2> SUFFICES ASSUME Init PROVE IInv
    OBVIOUS
  <2>1. job \in RespJobs \cup HttpJobs \cup PathJobs \cup ArgJobs
    BY DEF Init
  <2>2. Len(job.text) \in Nat
    BY <2>1, JobsAssumption
  <2> QED
    BY <2>1, <2>2 DEF Init, IInv
<1>2. IInv /\ [Feed]_vars => IInv'
  <2> SUFFICES ASSUME IInv, [Feed]_vars PROVE IInv'
    OBVIOUS
  <2>1. Len(job.text) \in Nat
    BY JobText
  <2>2. CASE Feed
    BY <2>1, <2>2 DEF Feed, IInv
  <2>3. CASE UNCHANGED vars
    BY <2>3 DEF vars, IInv
  <2> QED
    BY <2>2, <2>3
<1> QED
  BY <1>1, <1>2, PTL DEF Spec

\* No verdict that a parser, the detector or the start of streaming gave on
\* part of its input is taken back when one more character arrives, whatever
\* the texts are and however long.
THEOREM VerdictsAreFinal == Spec => VerdictsFinal
<1>1. ASSUME IInv, IInv', [Feed]_vars, job.kind \in {"resp", "http"}
      PROVE  grows(buffer, buffer')
  <2>1. /\ job.text \in Str /\ buffer \in Str /\ Len(buffer) = fed
        /\ Len(job.text) \in Nat /\ fed \in Nat /\ fed <= Len(job.text)
    BY <1>1, JobText
  <2>2. job' = job /\ fed' \in {fed, fed + 1} /\ fed' <= Len(job.text)
    BY <1>1, <2>1 DEF Feed, vars
  <2>3. buffer' = SubSeq(job.text, 1, fed')
    BY <2>2 DEF buffer
  <2>4. \A n \in 0 .. Len(job.text) :
          /\ SubSeq(job.text, 1, n) \in Str /\ Len(SubSeq(job.text, 1, n)) = n
          /\ \A i \in 1 .. n : SubSeq(job.text, 1, n)[i] = job.text[i]
    BY <2>1 DEF Str
  <2>5. fed \in 0 .. Len(job.text) /\ fed' \in 0 .. Len(job.text) /\ fed <= fed'
    BY <2>1, <2>2
  <2>6. ASSUME NEW m \in 0 .. Len(job.text), NEW n \in 0 .. Len(job.text), m <= n
        PROVE  grows(SubSeq(job.text, 1, m), SubSeq(job.text, 1, n))
    <3>1. \A i \in 1 .. m : i \in 1 .. n
      BY <2>1, <2>6
    <3> QED
      BY <2>4, <2>6, <3>1, Zenon DEF grows
  <2> QED
    BY <2>3, <2>5, <2>6, Zenon DEF buffer
<1>2. IInv /\ IInv' /\ [Feed]_vars =>
        [\A b \in {buffer}, longer \in {buffer'} :
            /\ job.kind = "resp" =>
                /\ final(Resp!incomplete, Resp!parse(b), Resp!parse(longer))
                /\ final(None, Resp!tryBeginStreaming(b), Resp!tryBeginStreaming(longer))
            /\ job.kind = "http" /\ terminated(b) =>
                /\ final(Http!incomplete, Http!parse(b), Http!parse(longer))
                /\ Http!wantsStreaming(longer) = Http!wantsStreaming(b)
            /\ job.kind \in {"resp", "http"} =>
                   final("NeedMoreData", Detector!chosen(b), Detector!chosen(longer))
          ]_vars
  <2> SUFFICES ASSUME IInv, IInv', [Feed]_vars, job.kind \in {"resp", "http"}
               PROVE  LET b == buffer
                          longer == buffer'
                      IN  /\ final(Resp!incomplete, Resp!parse(b), Resp!parse(longer))
                          /\ final(None, Resp!tryBeginStreaming(b), Resp!tryBeginStreaming(longer))
                          /\ terminated(b) =>
                                /\ final(Http!incomplete, Http!parse(b), Http!parse(longer))
                                /\ Http!wantsStreaming(longer) = Http!wantsStreaming(b)
                          /\ final("NeedMoreData", Detector!chosen(b), Detector!chosen(longer))
    BY Zenon
  <2>1. grows(buffer, buffer')
    BY <1>1
  <2> QED
    BY <2>1, RespParseStays, TryBeginStays, HttpParseStays, HeadersStay, ChosenStays, Zenon DEF final
<1> QED
  BY <1>2, Feeding, PTL DEF Spec, VerdictsFinal

-----------------------------------------------------------------------------
(* Numbers *)

LEMMA SpanIs ==
    ASSUME NEW S, NEW s \in Seq(S), NEW chars
    PROVE  /\ span(s, chars) \in 0 .. Len(s)
           /\ \A i \in 1 .. span(s, chars) : s[i] \in chars
           /\ span(s, chars) < Len(s) => s[span(s, chars) + 1] \notin chars
<1> DEFINE T == {k \in 0 .. Len(s) : \A i \in 1 .. k : s[i] \in chars}
           m == span(s, chars)
<1>1. Len(s) \in Nat
  OBVIOUS
<1>2. 0 \in T
  BY <1>1
<1>3. T \subseteq 0 .. Len(s) /\ T # {}
  BY <1>2
<1>4. m = Max(T)
  BY Zenon DEF span
<1>5. Max(T) \in T /\ \A k \in T : Max(T) >= k
  <2> HIDE DEF T
  <2> QED
    BY <1>1, <1>3, MaxOfNats, Zenon
<1> HIDE DEF m
<1>6. m \in 0 .. Len(s) /\ \A i \in 1 .. m : s[i] \in chars
  BY <1>4, <1>5, Zenon
<1>7. ASSUME m < Len(s) PROVE s[m + 1] \notin chars
  <2> SUFFICES ASSUME s[m + 1] \in chars PROVE FALSE
    OBVIOUS
  <2>1. m + 1 \in 0 .. Len(s) /\ \A i \in 1 .. (m + 1) : i \in 1 .. m \/ i = m + 1
    BY <1>1, <1>6, <1>7
  <2>2. m + 1 \in T
    BY <1>6, <2>1, Zenon
  <2>3. m >= m + 1
    BY <1>4, <1>5, <2>2, Zenon
  <2> QED
    BY <1>6, <2>3
<1> QED
  BY <1>6, <1>7 DEF m

digitOf(c) == CHOOSE d \in 0 .. 9 : digits[d + 1] = c

LEMMA DigitOf == \A c \in ToSet(digits) : digitOf(c) \in 0 .. 9
<1> TAKE c \in ToSet(digits)
<1>1. DOMAIN digits = 1 .. 10
  BY DEF digits
<1>2. PICK i \in 1 .. 10 : digits[i] = c
  BY <1>1 DEF ToSet
<1>3. i - 1 \in 0 .. 9 /\ (i - 1) + 1 = i
  OBVIOUS
<1>4. \E d \in 0 .. 9 : digits[d + 1] = c
  BY <1>2, <1>3
<1> QED
  BY <1>4, Zenon DEF digitOf

valueUpTo(s, f) ==
    f = [k \in 0 .. Len(s) |-> IF k = 0 THEN 0 ELSE 10 * f[k - 1] + digitOf(s[k])]

LEMMA ValueOfIs ==
    ASSUME NEW S, NEW s \in Seq(S), \A i \in 1 .. Len(s) : s[i] \in ToSet(digits)
    PROVE  /\ valueOf(s) \in Nat
           /\ Len(s) = 1 => valueOf(s) = digitOf(s[1])
<1> DEFINE n == Len(s)
           step == [k \in 1 .. n |-> [x \in Nat |-> 10 * x + digitOf(s[k])]]
           f == CHOOSE f : valueUpTo(s, f)
<1>1. n \in Nat
  OBVIOUS
<1>2. \A k \in 1 .. n : digitOf(s[k]) \in 0 .. 9
  BY DigitOf
<1>3. step \in [1 .. n -> [Nat -> Nat]]
  BY <1>2
<1>4. PICK g \in [0 .. n -> Nat] : recursive(n, 0, step, g)
  <2>1. 0 \in Nat
    OBVIOUS
  <2> HIDE DEF n, step
  <2> QED
    BY <1>1, <1>3, <2>1, Recursion, Zenon
<1>5. valueUpTo(s, g)
  <2>1. g = [k \in 0 .. n |-> IF k = 0 THEN 0 ELSE step[k][g[k - 1]]]
    BY <1>4, Zenon DEF recursive
  <2>2. \A k \in 0 .. n : k # 0 => step[k][g[k - 1]] = 10 * g[k - 1] + digitOf(s[k])
    <3> TAKE k \in 0 .. n
    <3>1. k # 0 => k \in 1 .. n /\ k - 1 \in 0 .. n
      <4> HIDE DEF n
      <4> QED
        BY <1>1
    <3>2. k # 0 => g[k - 1] \in Nat
      <4> HIDE DEF n
      <4> QED
        BY <3>1, <1>4
    <3> QED
      BY <3>1, <3>2
  <2>3. g = [k \in 0 .. n |-> IF k = 0 THEN 0 ELSE 10 * g[k - 1] + digitOf(s[k])]
    <3> HIDE DEF step, n
    <3> QED
      BY <2>1, <2>2
  <2> QED
    BY <2>3, Zenon DEF valueUpTo
<1>6. valueUpTo(s, f)
  BY <1>5, Zenon
<1>7. valueOf(s) = f[n]
  BY DEF valueOf, valueUpTo, digitOf
<1> HIDE DEF f, n
<1>8. f[0] = 0 /\ \A k \in 1 .. n : f[k] = 10 * f[k - 1] + digitOf(s[k])
  BY <1>1, <1>6 DEF valueUpTo, n
<1> DEFINE T == {k \in 0 .. n : f[k] \in Nat}
<1>9. 0 \in T
  BY <1>1, <1>8
<1>10. \A k \in 1 .. n : k - 1 \in T => k \in T
  <2> SUFFICES ASSUME NEW k \in 1 .. n, f[k - 1] \in Nat PROVE f[k] \in Nat
    OBVIOUS
  <2>1. digitOf(s[k]) \in 0 .. 9 /\ f[k] = 10 * f[k - 1] + digitOf(s[k])
    BY <1>2, <1>8
  <2> QED
    BY <2>1
<1> HIDE DEF T
<1>11. \A k \in 0 .. n : k \in T
  BY <1>1, <1>9, <1>10, Induct, Zenon
<1>12. f[n] \in Nat
  BY <1>1, <1>11 DEF T
<1>13. ASSUME n = 1 PROVE f[n] = digitOf(s[1])
  <2>1. f[1] = 10 * f[0] + digitOf(s[1]) /\ digitOf(s[1]) \in 0 .. 9
    BY <1>2, <1>8, <1>13
  <2> QED
    BY <1>8, <1>13, <2>1
<1> QED
  BY <1>7, <1>12, <1>13 DEF n

\* What number reads, apart from whether there is anything to read.
LEMMA NumberIs ==
    ASSUME NEW s \in Str, number(s) # None
    PROVE  /\ number(s) = [negative |-> number(s).negative, size |-> number(s).size]
           /\ number(s).size \in Nat /\ number(s).negative \in BOOLEAN
           /\ number(s).negative => "-" \in ToSet(s)
<1> DEFINE t == from(s, span(s, Space) + 1)
           signed == t # <<>> /\ t[1] \in {"+", "-"}
           u == IF signed THEN Tail(t) ELSE t
           read == SubSeq(u, 1, span(u, ToSet(digits)))
<1>1. number(s) = [negative |-> signed /\ t[1] = "-", size |-> valueOf(read)]
  BY DEF number
<1>2. span(s, Space) \in 0 .. Len(s) /\ Len(s) \in Nat
  <2>1. s \in Seq(Chars)
    BY DEF Str
  <2> QED
    BY <2>1, SpanIs
<1>3. t \in Seq(Chars) /\ \A i \in 1 .. Len(t) : t[i] = s[span(s, Space) + i]
  <2> DEFINE k == span(s, Space)
  <2> HIDE DEF k
  <2>1. k \in 0 .. Len(s) /\ Len(s) \in Nat /\ s \in Seq(Chars)
    BY <1>2 DEF k, Str
  <2>2. SubSeq(s, k + 1, Len(s)) \in Seq(Chars)
        /\ \A i \in 1 .. Len(SubSeq(s, k + 1, Len(s))) : SubSeq(s, k + 1, Len(s))[i] = s[k + i]
    BY <2>1, SubSeqProperties
  <2> QED
    BY <2>2 DEF from, k
<1>4. Len(t) = Len(s) - span(s, Space)
  <2> DEFINE k == span(s, Space)
  <2> HIDE DEF k
  <2>1. k \in 0 .. Len(s) /\ Len(s) \in Nat /\ s \in Seq(Chars)
    BY <1>2 DEF k, Str
  <2>2. Len(SubSeq(s, k + 1, Len(s))) = Len(s) - k
    BY <2>1, SubSeqProperties
  <2> QED
    BY <2>2 DEF from, k
<1>5. ASSUME t # <<>> /\ t[1] = "-" PROVE "-" \in ToSet(s)
  <2> HIDE DEF t
  <2>1. Len(t) \in Nat /\ 1 \in 1 .. Len(t)
    BY <1>3, <1>5
  <2>2. s[span(s, Space) + 1] = "-"
    BY <1>3, <1>5, <2>1
  <2>3. span(s, Space) + 1 \in 1 .. Len(s)
    BY <1>2, <1>4, <2>1
  <2>4. DOMAIN s = 1 .. Len(s)
    BY DEF Str
  <2> QED
    BY <2>2, <2>3, <2>4 DEF ToSet
<1> HIDE DEF t
<1>6. u \in Seq(Chars)
  BY <1>3
<1> HIDE DEF u
<1>7. /\ span(u, ToSet(digits)) \in 0 .. Len(u) /\ Len(u) \in Nat
      /\ \A i \in 1 .. span(u, ToSet(digits)) : u[i] \in ToSet(digits)
  BY <1>6, SpanIs
<1>8. read \in Seq(Chars) /\ \A i \in 1 .. Len(read) : read[i] \in ToSet(digits)
  <2> DEFINE k == span(u, ToSet(digits))
  <2> HIDE DEF k
  <2>1. k \in 0 .. Len(u) /\ Len(u) \in Nat /\ \A i \in 1 .. k : u[i] \in ToSet(digits)
    BY <1>7 DEF k
  <2>2. /\ SubSeq(u, 1, k) \in Seq(Chars) /\ Len(SubSeq(u, 1, k)) = k
        /\ \A i \in 1 .. k : SubSeq(u, 1, k)[i] = u[i]
    BY <1>6, <2>1
  <2> QED
    BY <2>1, <2>2 DEF k
<1> HIDE DEF read
<1>9. valueOf(read) \in Nat
  BY <1>8, ValueOfIs, Zenon
<1>10. (signed /\ t[1] = "-") \in BOOLEAN
  BY Zenon
<1>11. ASSUME NEW r, NEW p, NEW q, r = [negative |-> p, size |-> q]
       PROVE  r.negative = p /\ r.size = q
  BY <1>11
<1> QED
  BY <1>1, <1>5, <1>9, <1>10, <1>11, Zenon

LEMMA NumberThree == number(<<"3">>) = [negative |-> FALSE, size |-> 3]
<1> DEFINE s == <<"3">>
<1>1. s \in Seq({"3"}) /\ Len(s) = 1 /\ s[1] = "3"
  OBVIOUS
<1>2. SubSeq(s, 1, 1) = s /\ s # <<>>
  <2>1. ASSUME NEW S, NEW t \in Seq(S), Len(t) = 1
        PROVE  SubSeq(t, 1, 1) = t /\ t # <<>>
    <3>1. SubSeq(t, 1, 1) \in Seq(S) /\ Len(SubSeq(t, 1, 1)) = 1 /\ SubSeq(t, 1, 1)[1] = t[1]
      BY <2>1
    <3> QED
      BY <2>1, <3>1
  <2> HIDE DEF s
  <2> QED
    BY <1>1, <2>1, Zenon
<1>3. "3" \notin Space /\ "3" \notin {"+", "-"}
  BY DEF Space
<1>4. DOMAIN digits = 1 .. 10 /\ digits[4] = "3"
  BY DEF digits
<1>5. "3" \in ToSet(digits)
  <2>1. 4 \in 1 .. 10
    OBVIOUS
  <2> QED
    BY <1>4, <2>1, Zenon DEF ToSet
<1>6. digitOf("3") = 3
  <2>1. \A d \in 0 .. 9 : digits[d + 1] = "3" => d = 3
    BY DEF digits
  <2>2. 3 \in 0 .. 9 /\ digits[3 + 1] = "3"
    BY <1>4
  <2>3. (CHOOSE d \in 0 .. 9 : digits[d + 1] = "3") \in 0 .. 9
        /\ digits[(CHOOSE d \in 0 .. 9 : digits[d + 1] = "3") + 1] = "3"
    BY <2>2, Zenon
  <2> QED
    BY <2>1, <2>3, Zenon DEF digitOf
<1> HIDE DEF s
<1>7. span(s, Space) = 0
  <2>1. /\ span(s, Space) \in 0 .. Len(s)
        /\ \A i \in 1 .. span(s, Space) : s[i] \in Space
    BY <1>1, SpanIs, Zenon
  <2> QED
    BY <1>1, <1>3, <2>1
<1>8. span(s, ToSet(digits)) = 1
  <2>1. /\ span(s, ToSet(digits)) \in 0 .. Len(s)
        /\ span(s, ToSet(digits)) < Len(s) => s[span(s, ToSet(digits)) + 1] \notin ToSet(digits)
    BY <1>1, SpanIs, Zenon
  <2>2. span(s, ToSet(digits)) # 0
    BY <1>1, <1>5, <2>1
  <2> QED
    BY <1>1, <2>1, <2>2
<1>9. from(s, span(s, Space) + 1) = s
  BY <1>1, <1>2, <1>7 DEF from
<1>10. valueOf(s) = 3
  <2>1. \A i \in 1 .. Len(s) : s[i] \in ToSet(digits)
    BY <1>1, <1>5
  <2> QED
    BY <1>1, <1>6, <2>1, ValueOfIs, Zenon
<1>11. number(s) = [negative |-> FALSE, size |-> valueOf(s)]
  BY <1>1, <1>2, <1>3, <1>8, <1>9 DEF number
<1> QED
  BY <1>10, <1>11 DEF s

LEMMA RespNumbers ==
    /\ \A s : Resp!number(s) = number(s)
    /\ \A s : Resp!stoi(s) = within(number(s), INT_MAX)
    /\ \A s : Resp!stol(s) = within(number(s), LONG_MAX)
<1>1. \A s : Resp!number(s) = number(s)
  BY DEF Resp!number, number, Resp!from, from, Resp!span, span, Resp!Max, Max,
         Resp!ToSet, ToSet, Resp!digits, digits, Resp!Space, Space, Resp!valueOf, valueOf
<1>2. \A n, m : Resp!within(n, m) = within(n, m)
  BY DEF Resp!within, within
<1> QED
  BY <1>1, <1>2, Zenon DEF Resp!stoi, Resp!stol

LEMMA HttpNumbers ==
    /\ \A s : Http!number(s) = number(s)
    /\ \A s : Http!stol(s) = within(number(s), LONG_MAX)
    /\ \A s : Http!stoul(s) = stoul(s)
<1>1. \A s : Http!number(s) = number(s)
  BY DEF Http!number, number, Http!from, from, Http!span, span, Http!Max, Max,
         Http!ToSet, ToSet, Http!digits, digits, Http!Space, Space, Http!valueOf, valueOf
<1>2. \A n, m : Http!within(n, m) = within(n, m)
  BY DEF Http!within, within
<1> QED
  BY <1>1, <1>2, Zenon DEF Http!stol, Http!stoul, stoul

-----------------------------------------------------------------------------
(* Streaming and collecting *)

LEMMA PieceIsRead ==
    ASSUME NEW b \in Seq(STRING), NEW i \in Nat \ {0}, NEW j \in Int, j <= Len(b), NEW n \in Nat
    PROVE  [data |-> SubSeq(b, i, j), next |-> n] # None
<1>1. SubSeq(b, i, j) \in Seq(STRING)
  <2>1. \A k \in i .. j : b[k] \in STRING
    OBVIOUS
  <2> QED
    BY <2>1, SubSeqProperties
<1>2. \A d \in Seq(STRING) : [data |-> d, next |-> n] \in [data : Seq(STRING), next : Nat]
  OBVIOUS
<1> QED
  BY <1>1, <1>2, NoneAssumption, Zenon

LEMMA TextIsStr ==
    ASSUME NEW b \in Seq(STRING)
    PROVE  b \in Str /\ Len(b) \in Nat /\ grows(b, b)
<1>1. b \in Str /\ Len(b) \in Nat
  BY DEF Str, Chars
<1> QED
  BY <1>1 DEF grows

\* The first line of a streamed command, read as an array of three elements.
LEMMA HeaderLine ==
    ASSUME NEW b \in Seq(STRING), Resp!line(b, 1) # None, Resp!line(b, 1).data = <<"*", "3">>
    PROVE  /\ Resp!holds(b, 1, "*")
           /\ Resp!line(b, 2) # None
           /\ Resp!line(b, 2) = [data |-> <<"3">>, next |-> 5]
           /\ Resp!line(b, 1).next = 5
<1> DEFINE end == find(b, Resp!CRLF, 1)
           end2 == find(b, Resp!CRLF, 2)
<1>1. b \in Str /\ Len(b) \in Nat
  BY TextIsStr
<1>2. end # 0 /\ Resp!line(b, 1) = [data |-> SubSeq(b, 1, end - 1), next |-> end + 2]
  BY RespText DEF Resp!line
<1>3. SubSeq(b, 1, end - 1) = <<"*", "3">> /\ Resp!line(b, 1).next = end + 2
  <2> HIDE DEF end
  <2>1. Resp!line(b, 1) = [data |-> SubSeq(b, 1, end - 1), next |-> end + 2]
    BY <1>2
  <2>2. Resp!line(b, 1).data = SubSeq(b, 1, end - 1)
    BY <2>1, Fields, Zenon
  <2>3. Resp!line(b, 1).next = end + 2
    BY <2>1
  <2> QED
    BY <2>2, <2>3, Zenon
<1>4. /\ end \in Nat /\ end \in 1 .. (Len(b) - 1) /\ occurs(b, Resp!CRLF, end)
      /\ \A i \in 1 .. (Len(b) - 1) : occurs(b, Resp!CRLF, i) => end <= i
  <2>1. 1 \in Nat \ {0} /\ Len(b) - 2 + 1 = Len(b) - 1
    BY <1>1
  <2>2. /\ end \in Nat /\ end \in 1 .. (Len(b) - Len(Resp!CRLF) + 1) /\ occurs(b, Resp!CRLF, end)
        /\ \A i \in 1 .. (Len(b) - Len(Resp!CRLF) + 1) : occurs(b, Resp!CRLF, i) => end <= i
    BY <1>1, <1>2, <2>1, FindFirst, RespText, Zenon
  <2> QED
    BY <2>1, <2>2, RespText, Zenon
<1> HIDE DEF end
<1>5. ASSUME NEW x, NEW y, NEW n \in 1 .. Len(b), SubSeq(b, 1, n - 1) = <<x, y>>
      PROVE  n = 3 /\ b[1] = x /\ b[2] = y
  <2>1. Len(SubSeq(b, 1, n - 1)) = n - 1 /\ Len(<<x, y>>) = 2
    BY <1>1, <1>5
  <2>2. n - 1 = 2
    BY <1>5, <2>1, Zenon
  <2>3. n = 3 /\ 2 <= Len(b)
    BY <1>1, <2>2
  <2>4. SubSeq(b, 1, 2)[1] = b[1] /\ SubSeq(b, 1, 2)[2] = b[2]
    BY <1>1, <2>3
  <2>5. SubSeq(b, 1, 2) = <<x, y>>
    BY <1>5, <2>2, Zenon
  <2>6. <<x, y>>[1] = x /\ <<x, y>>[2] = y
    OBVIOUS
  <2> QED
    BY <2>3, <2>4, <2>5, <2>6, Zenon
<1>6. end = 3 /\ b[1] = "*" /\ b[2] = "3"
  <2>1. end \in 1 .. Len(b)
    BY <1>1, <1>4
  <2> QED
    BY <1>3, <1>5, <2>1, Zenon
<1>7. /\ end2 \in Nat /\ end2 # 0 /\ end2 <= 3
      /\ end2 \in 2 .. (Len(b) - 1) /\ occurs(b, Resp!CRLF, end2)
  <2>1. 2 \in Nat \ {0} /\ Len(b) - 2 + 1 = Len(b) - 1 /\ 3 \in 2 .. (Len(b) - 1)
    BY <1>1, <1>4, <1>6
  <2>2. 3 \in 2 .. (Len(b) - Len(Resp!CRLF) + 1) /\ occurs(b, Resp!CRLF, 3)
    BY <2>1, <1>4, <1>6, RespText, Zenon
  <2>3. /\ end2 \in Nat /\ end2 # 0 /\ end2 <= 3
        /\ end2 \in 2 .. (Len(b) - Len(Resp!CRLF) + 1) /\ occurs(b, Resp!CRLF, end2)
    BY <1>1, <2>1, <2>2, FindFirst, RespText, Zenon
  <2> QED
    BY <2>1, <2>3, RespText, Zenon
<1>8. Resp!line(b, 2) = [data |-> SubSeq(b, 2, end2 - 1), next |-> end2 + 2]
  BY <1>7, RespText DEF Resp!line
<1> HIDE DEF end2
<1>9. end2 = 3
  <2>1. end2 \in 1 .. (Len(b) - 1)
    BY <1>1, <1>7
  <2>2. end <= end2
    BY <1>4, <1>7, <2>1, Zenon
  <2> QED
    BY <1>6, <1>7, <2>2
<1>10. SubSeq(b, 2, 2) = <<b[2]>> /\ 2 <= Len(b)
  <2>1. 2 <= Len(b)
    BY <1>1, <1>4, <1>6
  <2>2. /\ SubSeq(b, 2, 2) = [k \in 1 .. (2 - 2 + 1) |-> b[k + 2 - 1]]
    BY <1>1
  <2>3. 2 - 2 + 1 = 1 /\ \A k \in 1 .. 1 : b[k + 2 - 1] = b[2]
    OBVIOUS
  <2>4. <<b[2]>> = [k \in 1 .. 1 |-> b[2]]
    OBVIOUS
  <2> QED
    BY <2>1, <2>2, <2>3, <2>4
<1>11. Resp!line(b, 2) = [data |-> <<"3">>, next |-> 5]
  <2>1. end2 - 1 = 2 /\ end2 + 2 = 5
    BY <1>9
  <2> QED
    BY <1>6, <1>8, <1>10, <2>1, Zenon
<1>12. Resp!line(b, 2) # None
  <2>1. end2 - 1 = 2 /\ end2 + 2 = 5 /\ 2 \in Nat \ {0} /\ 2 \in Int /\ 5 \in Nat
    BY <1>9
  <2>2. [data |-> SubSeq(b, 2, 2), next |-> 5] # None
    BY <1>10, <2>1, PieceIsRead, Zenon
  <2> QED
    BY <1>8, <2>1, <2>2, Zenon
<1>13. Resp!holds(b, 1, "*") /\ Resp!line(b, 1).next = 5
  BY <1>1, <1>3, <1>4, <1>6 DEF Resp!holds
<1> QED
  BY <1>11, <1>12, <1>13

\* A turn of parseArray's loop that meets a bulk string.
LEMMA BulkTurn ==
    ASSUME NEW b \in Str, NEW cs, NEW p \in Nat \ {0}, Resp!holds(b, p, "$")
    PROVE  LET e == Resp!parseBulkString(b, p)
           IN  Resp!readElement(b, Resp!complete(cs, p)) =
                   IF e = None THEN Resp!incomplete
                   ELSE Resp!complete(Append(cs, e.data), e.next)
<1> DEFINE a == Resp!complete(cs, p)
<1>1. a.consumed = p - 1 /\ a.commands = cs /\ a.result = "Complete"
  BY TurnMade, Zenon
<1>2. Len(b) \in Nat /\ p <= Len(b) /\ b[p] = "$"
  BY DEF Str, Resp!holds
<1> HIDE DEF a
<1>3. a.consumed + 1 = p /\ ~(a.consumed >= Len(b))
  BY <1>1, <1>2
<1>4. b[p] \in {"$", "+", ":"}
  BY <1>2
<1>5. elementAt(b, p) = Resp!parseBulkString(b, p)
  BY ElementKinds, Zenon
<1>6. Resp!readElement(b, a) =
         IF Resp!parseBulkString(b, p) = None THEN Resp!incomplete
         ELSE Resp!complete(Append(cs, Resp!parseBulkString(b, p).data),
                            Resp!parseBulkString(b, p).next)
  BY <1>1, <1>3, <1>4, <1>5, ReadElementIs, Zenon
<1> QED
  BY <1>6 DEF a

LEMMA Appends ==
    /\ \A d, e : Append(<<d>>, e) = <<d, e>>
    /\ \A d, e, x : Append(<<d, e>>, x) = <<d, e, x>>
<1>1. ASSUME NEW d, NEW e PROVE Append(<<d>>, e) = <<d, e>>
  <2> DEFINE S == {d, e}
             s == Append(<<d>>, e)
             t == <<d, e>>
  <2>1. <<d>> \in Seq(S) /\ Len(<<d>>) = 1 /\ <<d>>[1] = d /\ e \in S
    OBVIOUS
  <2>2. s \in Seq(S) /\ Len(s) = 2 /\ s[1] = d /\ s[2] = e
    <3> HIDE DEF S
    <3> QED
      BY <2>1, AppendProperties
  <2>3. t \in Seq(S) /\ Len(t) = 2 /\ t[1] = d /\ t[2] = e
    OBVIOUS
  <2> HIDE DEF S, s, t
  <2>4. \A i \in 1 .. 2 : s[i] = t[i]
    BY <2>2, <2>3
  <2>5. s = t
    BY <2>2, <2>3, <2>4, SeqEqual
  <2> QED
    BY <2>5 DEF s, t
<1>2. ASSUME NEW d, NEW e, NEW x PROVE Append(<<d, e>>, x) = <<d, e, x>>
  <2> DEFINE S == {d, e, x}
             s == Append(<<d, e>>, x)
             t == <<d, e, x>>
  <2>1. <<d, e>> \in Seq(S) /\ Len(<<d, e>>) = 2 /\ <<d, e>>[1] = d /\ <<d, e>>[2] = e /\ x \in S
    OBVIOUS
  <2>2. s \in Seq(S) /\ Len(s) = 3 /\ s[1] = d /\ s[2] = e /\ s[3] = x
    <3> HIDE DEF S
    <3> QED
      BY <2>1, AppendProperties
  <2>3. t \in Seq(S) /\ Len(t) = 3 /\ t[1] = d /\ t[2] = e /\ t[3] = x
    OBVIOUS
  <2> HIDE DEF S, s, t
  <2>4. \A i \in 1 .. 3 : s[i] = t[i]
    BY <2>2, <2>3
  <2>5. s = t
    BY <2>2, <2>3, <2>4, SeqEqual
  <2> QED
    BY <2>5 DEF s, t
<1> QED
  BY <1>1, <1>2

LEMMA ThreeElements ==
    ASSUME NEW b \in Seq(STRING), Resp!tryBeginStreaming(b) # None
    PROVE  LET count == Resp!line(b, 1)
               command == Resp!parseBulkString(b, count.next)
               key == Resp!parseBulkString(b, command.next)
               third == Resp!parseBulkString(b, key.next)
           IN  /\ key.next \in Nat \ {0}
               /\ Resp!parse(b) =
                    IF third = None THEN Resp!incomplete
                    ELSE Resp!complete(<<command.data, key.data, third.data>>, third.next)
<1> DEFINE count == Resp!line(b, 1)
           command == Resp!parseBulkString(b, count.next)
           key == Resp!parseBulkString(b, command.next)
           third == Resp!parseBulkString(b, key.next)
<1>1. /\ count # None /\ count.data = <<"*", "3">> /\ command # None /\ key # None
      /\ Resp!holds(b, key.next, "$")
  BY DEF Resp!tryBeginStreaming
<1>2. b \in Str /\ Len(b) \in Nat /\ grows(b, b)
  BY TextIsStr
<1>3. /\ Resp!holds(b, 1, "*") /\ Resp!line(b, 2) # None
      /\ Resp!line(b, 2) = [data |-> <<"3">>, next |-> 5] /\ count.next = 5
  BY <1>1, HeaderLine, Zenon
<1>4. Resp!line(b, 2).data = <<"3">> /\ Resp!line(b, 2).next = 5
  BY <1>3, Fields
<1>5. Resp!stoi(<<"3">>) = 3 /\ 3 # None
  <2>1. 3 \in Int /\ 3 \in (-INT_MAX - 1) .. INT_MAX
    BY LimitsAssumption
  <2>2. 3 # None
    BY <2>1, NoneAssumption
  <2> DEFINE n == [negative |-> FALSE, size |-> 3]
  <2>3. n \in [negative : BOOLEAN, size : Nat] /\ n.negative = FALSE /\ n.size = 3
    OBVIOUS
  <2>4. n # None
    BY <2>3, NoneAssumption, Zenon
  <2> HIDE DEF n
  <2>5. within(n, INT_MAX) = 3
    BY <2>1, <2>3, <2>4 DEF within
  <2> QED
    BY <2>2, <2>5, NumberThree, RespNumbers, Zenon DEF n
<1>6. PICK f : reads(b, 5, 3, f) /\ Resp!parseArray(b) = f[3]
  <2>1. 3 \in 0 .. kMaxArrayElements
    BY LimitsAssumption
  <2> QED
    BY <1>2, <1>3, <1>4, <1>5, <2>1, ArrayRead, Zenon
<1>7. Resp!parse(b) = f[3]
  <2>1. b # <<>>
    BY <1>3 DEF Resp!holds
  <2> QED
    BY <1>2, <1>3, <1>6, <2>1, ParseKinds, Zenon
<1>8. /\ f[0] = Resp!complete(<<>>, 5) /\ f[1] = Resp!readElement(b, f[0])
      /\ f[2] = Resp!readElement(b, f[1]) /\ f[3] = Resp!readElement(b, f[2])
  <2>1. 5 \in Nat \ {0} /\ 3 \in Nat
    OBVIOUS
  <2>2. f[0] = Resp!complete(<<>>, 5) /\ \A i \in 1 .. 3 : f[i] = Resp!readElement(b, f[i - 1])
    BY <1>2, <1>6, <2>1, ReadsTyped
  <2> QED
    BY <2>2
<1>9. Resp!holds(b, 5, "$") /\ command.next \in Nat \ {0}
  <2>1. 5 \in Nat \ {0}
    OBVIOUS
  <2>2. command = Resp!parseBulkString(b, 5)
    BY <1>3, Zenon
  <2>3. command \in Reading
    BY <1>1, <1>2, <2>1, <2>2, BulkStays, Zenon
  <2>4. Resp!holds(b, 5, "$")
    BY <1>1, <1>2, <2>1, <2>2, BulkRead, Zenon
  <2> QED
    BY <2>3, <2>4 DEF Reading
<1>10. Resp!holds(b, command.next, "$") /\ key.next \in Nat \ {0}
  <2>1. key \in Reading
    BY <1>1, <1>2, <1>9, BulkStays, Zenon
  <2>2. Resp!holds(b, command.next, "$")
    BY <1>1, <1>2, <1>9, BulkRead, Zenon
  <2> QED
    BY <2>1, <2>2 DEF Reading
<1>11. f[1] = Resp!complete(<<command.data>>, command.next)
  <2>1. 5 \in Nat \ {0} /\ command = Resp!parseBulkString(b, 5)
    BY <1>3
  <2>2. f[1] = Resp!complete(Append(<<>>, command.data), command.next)
    BY <1>1, <1>2, <1>8, <1>9, <2>1, BulkTurn, Zenon
  <2>3. \A d : Append(<<>>, d) = <<d>>
    OBVIOUS
  <2> QED
    BY <2>2, <2>3, Zenon
<1>12. f[2] = Resp!complete(<<command.data, key.data>>, key.next)
  <2>1. f[2] = Resp!complete(Append(<<command.data>>, key.data), key.next)
    BY <1>1, <1>2, <1>8, <1>9, <1>10, <1>11, BulkTurn, Zenon
  <2>2. \A d, e : Append(<<d>>, e) = <<d, e>>
    BY Appends, Zenon
  <2> QED
    BY <2>1, <2>2, Zenon
<1>13. f[3] = IF third = None THEN Resp!incomplete
              ELSE Resp!complete(<<command.data, key.data, third.data>>, third.next)
  <2>1. f[3] = IF third = None THEN Resp!incomplete
               ELSE Resp!complete(Append(<<command.data, key.data>>, third.data), third.next)
    <3> DEFINE cs == <<command.data, key.data>>
               p == key.next
    <3>1. f[3] = Resp!readElement(b, Resp!complete(cs, p)) /\ p \in Nat \ {0}
          /\ Resp!holds(b, p, "$")
      BY <1>1, <1>8, <1>10, <1>12, Zenon
    <3>2. third = Resp!parseBulkString(b, p)
      OBVIOUS
    <3> HIDE DEF third, cs, p
    <3>3. f[3] = IF third = None THEN Resp!incomplete
                 ELSE Resp!complete(Append(cs, third.data), third.next)
      BY <1>2, <3>1, <3>2, BulkTurn, Zenon
    <3> QED
      BY <3>3, Zenon DEF cs
  <2>2. \A d, e, x : Append(<<d, e>>, x) = <<d, e, x>>
    BY Appends, Zenon
  <2> QED
    BY <2>1, <2>2, Zenon
<1> QED
  BY <1>7, <1>10, <1>13, Zenon

\* int and long read the same number, as far as both can hold it.
LEMMA IntAndLong ==
    ASSUME NEW n, within(n, LONG_MAX) # None, within(n, LONG_MAX) >= 0
    PROVE  /\ within(n, LONG_MAX) \in Nat
           /\ within(n, LONG_MAX) <= INT_MAX => within(n, INT_MAX) = within(n, LONG_MAX)
           /\ within(n, LONG_MAX) > INT_MAX => within(n, INT_MAX) = None
<1> DEFINE v == IF n.negative THEN -n.size ELSE n.size
<1>1. n # None /\ v \in (-LONG_MAX - 1) .. LONG_MAX /\ within(n, LONG_MAX) = v
  BY DEF within
<1>2. within(n, INT_MAX) = IF v \in (-INT_MAX - 1) .. INT_MAX THEN v ELSE None
  BY <1>1 DEF within
<1> HIDE DEF v
<1>3. INT_MAX \in Nat /\ LONG_MAX \in Nat
  BY LimitsAssumption
<1>4. v \in Nat
  BY <1>1, <1>3
<1>5. v <= INT_MAX <=> v \in (-INT_MAX - 1) .. INT_MAX
  BY <1>3, <1>4
<1>6. v > INT_MAX <=> ~(v <= INT_MAX)
  BY <1>3, <1>4
<1> QED
  BY <1>1, <1>2, <1>4, <1>5, <1>6

LEMMA RespReadingsAgree ==
    ASSUME NEW b \in Seq(STRING), Resp!tryBeginStreaming(b) # None
    PROVE  LET s == Resp!tryBeginStreaming(b)
               out == Resp!parse(b)
               end == s.start + s.size + 1
           IN  IF s.size > INT_MAX \/ Len(b) < end THEN out.result = "Incomplete"
               ELSE /\ out.result = "Complete" /\ out.consumed = end
                    /\ out.commands[2] = s.key
                    /\ out.commands[3] = SubSeq(b, s.start, s.start + s.size - 1)
<1> DEFINE count == Resp!line(b, 1)
           command == Resp!parseBulkString(b, count.next)
           key == Resp!parseBulkString(b, command.next)
           value == Resp!line(b, key.next + 1)
           length == Resp!stol(value.data)
           third == Resp!parseBulkString(b, key.next)
           s == Resp!tryBeginStreaming(b)
           out == Resp!parse(b)
<1>1. /\ Resp!holds(b, key.next, "$") /\ value # None
      /\ length # None /\ ~(length <= kStreamingThreshold)
      /\ s = [setnx |-> Resp!toUpper(command.data) = Resp!SETNX, key |-> key.data,
              size |-> length, start |-> value.next]
  BY Zenon DEF Resp!tryBeginStreaming
<1>2. s.key = key.data /\ s.size = length /\ s.start = value.next
  <2>1. \A r, w, x, y, z : r = [setnx |-> w, key |-> x, size |-> y, start |-> z] =>
            r.key = x /\ r.size = y /\ r.start = z
    OBVIOUS
  <2> HIDE DEF command, key, value, length, s
  <2> QED
    BY <1>1, <2>1, Zenon
<1>3. b \in Str /\ Len(b) \in Nat /\ grows(b, b)
  BY TextIsStr
<1>4. /\ key.next \in Nat \ {0}
      /\ out = IF third = None THEN Resp!incomplete
               ELSE Resp!complete(<<command.data, key.data, third.data>>, third.next)
  BY ThreeElements, Zenon
<1>5. value.next \in Nat \ {0}
  <2>1. key.next + 1 \in Nat \ {0}
    BY <1>4
  <2> QED
    BY <1>1, <1>3, <2>1, LineStays, Zenon
<1>6. length \in Nat /\ length >= 0
  <2>1. length \in Int
    BY <1>1, RespText, Zenon
  <2> HIDE DEF length
  <2> QED
    BY <1>1, <2>1, LimitsAssumption
<1>7. /\ length <= INT_MAX => Resp!stoi(value.data) = length
      /\ length > INT_MAX => Resp!stoi(value.data) = None
  <2>1. length = within(number(value.data), LONG_MAX)
        /\ Resp!stoi(value.data) = within(number(value.data), INT_MAX)
    BY RespNumbers, Zenon
  <2> HIDE DEF length, value
  <2> QED
    BY <1>1, <1>6, <2>1, IntAndLong, Zenon
<1>8. third =
        IF Resp!stoi(value.data) = None THEN None
        ELSE IF Resp!stoi(value.data) = -1 THEN [data |-> <<>>, next |-> value.next]
        ELSE IF Resp!stoi(value.data) < -1 \/ value.next + Resp!stoi(value.data) + 1 > Len(b)
             THEN None
        ELSE [data |-> SubSeq(b, value.next, value.next + Resp!stoi(value.data) - 1),
              next |-> value.next + Resp!stoi(value.data) + 2]
  BY <1>1, Zenon DEF Resp!parseBulkString
<1> DEFINE p == value.next
           end == p + length + 1
<1> HIDE DEF count, command, key, value, length, third, s, out, p
<1>9. p \in Nat \ {0}
  BY <1>5 DEF p
<1>10. CASE length > INT_MAX
  <2>1. out = Resp!incomplete
    BY <1>4, <1>7, <1>8, <1>10, Zenon
  <2>2. out.result = "Incomplete"
    BY <2>1, TurnMade, Zenon
  <2>3. s.size > INT_MAX
    BY <1>2, <1>10, Zenon
  <2> QED
    BY <2>2, <2>3, Zenon DEF s, out
<1>11. CASE ~(length > INT_MAX)
  <2>1. Resp!stoi(value.data) = length /\ length # -1 /\ ~(length < -1)
    BY <1>6, <1>7, <1>11, LimitsAssumption
  <2>2. third = IF end > Len(b) THEN None
                ELSE [data |-> SubSeq(b, p, p + length - 1), next |-> p + length + 2]
    BY <1>1, <1>8, <2>1, Zenon DEF p
  <2>3. end > Len(b) <=> Len(b) < end
    BY <1>3, <1>6, <1>9
  <2>4. CASE end > Len(b)
    <3>1. out.result = "Incomplete"
      BY <1>4, <2>2, <2>4, TurnMade, Zenon
    <3> QED
      BY <1>2, <2>3, <2>4, <3>1, Zenon DEF s, out, p
  <2>5. CASE ~(end > Len(b))
    <3>1. p + length - 1 \in Int /\ p + length - 1 <= Len(b) /\ p + length + 2 \in Nat
          /\ (p + length + 2) - 1 = end
      BY <1>3, <1>6, <1>9, <2>5
    <3>2. third # None
      BY <1>9, <2>2, <2>5, <3>1, PieceIsRead, Zenon
    <3>3. third = [data |-> SubSeq(b, p, p + length - 1), next |-> p + length + 2]
      BY <2>2, <2>5, Zenon
    <3>4. third.data = SubSeq(b, p, p + length - 1) /\ third.next = p + length + 2
      <4>1. ASSUME NEW d, NEW n, third = [data |-> d, next |-> n]
            PROVE  third.data = d /\ third.next = n
        BY <4>1
      <4> QED
        BY <3>3, <4>1, Zenon
    <3>5. out = Resp!complete(<<command.data, key.data, third.data>>, third.next)
      BY <1>4, <3>2, Zenon
    <3>6. /\ out.commands = <<command.data, key.data, third.data>>
          /\ out.consumed = third.next - 1 /\ out.result = "Complete"
      BY <3>5, TurnMade, Zenon
    <3>7. out.commands[2] = key.data /\ out.commands[3] = third.data
      BY <3>6
    <3>8. out.consumed = end
      BY <3>1, <3>4, <3>6, Zenon
    <3>9. ~(s.size > INT_MAX) /\ s.start = p /\ s.size = length /\ s.key = key.data
      BY <1>2, <1>11, Zenon DEF p
    <3> QED
      BY <2>3, <2>5, <3>4, <3>6, <3>7, <3>8, <3>9, Zenon DEF s, out
  <2> QED
    BY <2>4, <2>5
<1> QED
  BY <1>10, <1>11

-----------------------------------------------------------------------------
(* Pieces of a text *)

LEMMA FromTyped ==
    ASSUME NEW S, NEW s \in Seq(S), NEW i \in Nat \ {0}
    PROVE  from(s, i) \in Seq(S)
<1>1. Len(s) \in Nat /\ \A k \in i .. Len(s) : s[k] \in S
  OBVIOUS
<1> QED
  BY <1>1, SubSeqProperties DEF from

LEMMA ExtendTyped ==
    ASSUME NEW S, NEW p \in Seq(Seq(S)), p # <<>>, NEW c \in S
    PROVE  /\ extend(p, c) \in Seq(Seq(S)) /\ extend(p, c) # <<>>
           /\ Len(extend(p, c)) = Len(p)
           /\ extend(p, c)[Len(p)] = Append(p[Len(p)], c)
           /\ \A i \in 1 .. (Len(p) - 1) : extend(p, c)[i] = p[i]
<1>1. Len(p) \in Nat /\ Len(p) # 0 /\ DOMAIN p = 1 .. Len(p) /\ Len(p) \in 1 .. Len(p)
  OBVIOUS
<1>2. p[Len(p)] \in Seq(S)
  BY <1>1
<1>3. Append(p[Len(p)], c) \in Seq(S)
  BY <1>2
<1> DEFINE q == [p EXCEPT ![Len(p)] = Append(p[Len(p)], c)]
<1>4. q \in Seq(Seq(S)) /\ Len(q) = Len(p)
  BY <1>1, <1>3
<1>5. q[Len(p)] = Append(p[Len(p)], c) /\ \A i \in 1 .. (Len(p) - 1) : q[i] = p[i]
  <2>1. \A i \in 1 .. (Len(p) - 1) : i \in 1 .. Len(p) /\ i # Len(p)
    <3>1. \A n \in Nat : \A i \in 1 .. (n - 1) : i \in 1 .. n /\ i # n
      OBVIOUS
    <3> QED
      BY <1>1, <3>1, Zenon
  <2>2. ASSUME NEW x, NEW n \in DOMAIN p
        PROVE  /\ [p EXCEPT ![n] = x][n] = x
               /\ \A i \in DOMAIN p : i # n => [p EXCEPT ![n] = x][i] = p[i]
    OBVIOUS
  <2> QED
    BY <1>1, <2>1, <2>2, Zenon
<1>6. q # <<>>
  BY <1>1, <1>4
<1>7. extend(p, c) = q
  BY DEF extend
<1> HIDE DEF q
<1> QED
  BY <1>4, <1>5, <1>6, <1>7, Zenon

splitUpTo(s, separators, f) ==
    f = [k \in 0 .. Len(s) |->
            IF k = 0 THEN << <<>> >>
            ELSE IF s[k] \in separators THEN Append(f[k - 1], <<>>)
            ELSE extend(f[k - 1], s[k])]

LEMMA SplitTyped ==
    ASSUME NEW s \in Str, NEW separators
    PROVE  split(s, separators) \in Seq(Str)
<1> DEFINE n == Len(s)
           X == {p \in Seq(Str) : p # <<>>}
           turn(p, k) == IF s[k] \in separators THEN Append(p, <<>>) ELSE extend(p, s[k])
           base == << <<>> >>
           step == [k \in 1 .. n |-> [p \in X |-> turn(p, k)]]
           f == CHOOSE f : splitUpTo(s, separators, f)
<1>1. n \in Nat /\ \A k \in 1 .. n : s[k] \in Chars
  BY DEF Str
<1>2. <<>> \in Str
  BY DEF Str
<1>3. base \in X
  BY <1>2
<1>4. ASSUME NEW p \in X, NEW k \in 1 .. n PROVE turn(p, k) \in X
  <2>1. CASE s[k] \in separators
    <3>1. Append(p, <<>>) \in Seq(Str) /\ Append(p, <<>>) # <<>>
      BY <1>2, AppendProperties
    <3> QED
      BY <2>1, <3>1
  <2>2. CASE s[k] \notin separators
    <3>1. p \in Seq(Seq(Chars)) /\ p # <<>> /\ s[k] \in Chars
      BY <1>1 DEF Str
    <3>2. extend(p, s[k]) \in Seq(Seq(Chars)) /\ extend(p, s[k]) # <<>>
      BY <3>1, ExtendTyped
    <3> QED
      BY <2>2, <3>2 DEF Str
  <2> QED
    BY <2>1, <2>2
<1>5. step \in [1 .. n -> [X -> X]]
  <2> HIDE DEF X, turn
  <2> QED
    BY <1>4
<1>6. PICK g \in [0 .. n -> X] : recursive(n, base, step, g)
  <2> HIDE DEF n, X, base, step
  <2> QED
    BY <1>1, <1>3, <1>5, Recursion, Zenon
<1>7. splitUpTo(s, separators, g)
  <2>1. g = [k \in 0 .. n |-> IF k = 0 THEN base ELSE step[k][g[k - 1]]]
    BY <1>6, Zenon DEF recursive
  <2>2. \A k \in 0 .. n : k # 0 => step[k][g[k - 1]] = turn(g[k - 1], k)
    <3> HIDE DEF n, X, turn
    <3> TAKE k \in 0 .. n
    <3>1. k # 0 => k \in 1 .. n /\ k - 1 \in 0 .. n
      BY <1>1
    <3>2. k # 0 => g[k - 1] \in X
      BY <3>1, <1>6
    <3> QED
      BY <3>1, <3>2
  <2>3. g = [k \in 0 .. n |-> IF k = 0 THEN base ELSE turn(g[k - 1], k)]
    <3> HIDE DEF step, n, base, turn, X
    <3> QED
      BY <2>1, <2>2
  <2> QED
    BY <2>3, Zenon DEF splitUpTo
<1>8. splitUpTo(s, separators, f)
  BY <1>7, Zenon
<1>9. split(s, separators) = f[n]
  BY DEF split, splitUpTo
<1> HIDE DEF f, n, base
<1>10. f[0] = base /\ \A k \in 1 .. n : f[k] = turn(f[k - 1], k)
  <2>1. f = [k \in 0 .. n |-> IF k = 0 THEN base ELSE turn(f[k - 1], k)]
    BY <1>8, Zenon DEF splitUpTo, n, base
  <2> HIDE DEF turn
  <2>2. 0 \in 0 .. n /\ \A k \in 1 .. n : k \in 0 .. n /\ k # 0
    BY <1>1
  <2> QED
    BY <2>1, <2>2
<1> DEFINE T == {k \in 0 .. n : f[k] \in X}
<1> HIDE DEF X, turn
<1>11. 0 \in T
  BY <1>1, <1>3, <1>10
<1>12. \A k \in 1 .. n : k - 1 \in T => k \in T
  BY <1>4, <1>10
<1> HIDE DEF T
<1>13. \A k \in 0 .. n : k \in T
  BY <1>1, <1>11, <1>12, Induct, Zenon
<1>14. f[n] \in X
  BY <1>1, <1>13 DEF T
<1> QED
  BY <1>9, <1>14 DEF X

LEMMA HttpPieces ==
    /\ \A s, i : Http!from(s, i) = from(s, i)
    /\ \A s, chars : Http!span(s, chars) = span(s, chars)
    /\ \A s, separators : Http!split(s, separators) = split(s, separators)
    /\ \A T : Http!Max(T) = Max(T)
    /\ \A s : Http!ToSet(s) = ToSet(s)
<1>1. \A s, i : Http!from(s, i) = from(s, i)
  BY DEF Http!from, from
<1>2. \A s, chars : Http!span(s, chars) = span(s, chars)
  BY DEF Http!span, span, Http!Max, Max
<1>3. \A s, separators : Http!split(s, separators) = split(s, separators)
  BY DEF Http!split, split, Http!extend, extend
<1>4. \A T : Http!Max(T) = Max(T)
  BY DEF Http!Max, Max
<1>5. \A s : Http!ToSet(s) = ToSet(s)
  BY DEF Http!ToSet, ToSet
<1> QED
  BY <1>1, <1>2, <1>3, <1>4, <1>5, Zenon

LEMMA LinesTyped ==
    ASSUME NEW s \in Str
    PROVE  Http!linesOf(s) \in Seq(Str)
<1> DEFINE lines == Http!split(s, {"\n"})
           cut(x) == IF x # <<>> /\ Http!Last(x) = "\r" THEN Http!Front(x) ELSE x
<1>1. lines \in Seq(Str)
  BY HttpPieces, SplitTyped, Zenon
<1>2. Http!linesOf(s) = [i \in DOMAIN lines |-> cut(lines[i])]
  BY Zenon DEF Http!linesOf
<1> HIDE DEF lines
<1>3. ASSUME NEW x \in Str PROVE cut(x) \in Str
  <2>1. x # <<>> => Http!Front(x) \in Str
    BY DEF Http!Front, Str
  <2> QED
    BY <2>1
<1> HIDE DEF cut
<1>4. DOMAIN lines = 1 .. Len(lines) /\ Len(lines) \in Nat /\ \A i \in 1 .. Len(lines) : lines[i] \in Str
  BY <1>1
<1>5. Http!linesOf(s) \in [1 .. Len(lines) -> Str]
  BY <1>2, <1>3, <1>4
<1> QED
  BY <1>4, <1>5

LEMMA HeaderValueTyped ==
    ASSUME NEW x \in Str, Http!parseHeaderLine(x) # None
    PROVE  Http!parseHeaderLine(x).value \in Str
<1> DEFINE colon == Http!find(x, <<":">>, 1)
           value == Http!from(x, colon + 1)
           n == Http!toLower(SubSeq(x, 1, colon - 1))
           v == Http!from(value, Http!span(value, {" "}) + 1)
<1>1. colon # 0 /\ Http!parseHeaderLine(x) = [name |-> n, value |-> v]
  BY Zenon DEF Http!parseHeaderLine
<1>2. colon \in Nat
  <2> DEFINE at == {i \in 1 .. (Len(x) - Len(<<":">>) + 1) :
                      SubSeq(x, i, i + Len(<<":">>) - 1) = <<":">>}
  <2>1. colon = IF at = {} THEN 0 ELSE Min(at)
    BY HttpText, Zenon DEF find
  <2>2. at \subseteq Nat
    <3>1. Len(x) \in Nat
      BY DEF Str
    <3>2. Len(<<":">>) = 1
      OBVIOUS
    <3> QED
      BY <3>1, <3>2
  <2> HIDE DEF at, colon
  <2> QED
    BY <2>1, <2>2, MinOfNats
<1> HIDE DEF colon
<1>3. value \in Seq(Chars)
  <2>1. colon + 1 \in Nat \ {0} /\ x \in Seq(Chars)
    BY <1>2 DEF Str
  <2> QED
    BY <2>1, FromTyped, HttpPieces, Zenon
<1> HIDE DEF value
<1>4. v \in Str
  <2>1. Http!span(value, {" "}) \in 0 .. Len(value)
    <3>1. span(value, {" "}) \in 0 .. Len(value)
      BY <1>3, SpanIs, Zenon
    <3> QED
      BY <3>1, HttpPieces, Zenon
  <2>2. Len(value) \in Nat
    BY <1>3
  <2>3. Http!span(value, {" "}) + 1 \in Nat \ {0}
    <3>1. \A n1 \in Nat : \A m \in 0 .. n1 : m + 1 \in Nat \ {0}
      OBVIOUS
    <3> QED
      BY <2>1, <2>2, <3>1, Zenon
  <2> QED
    BY <1>3, <2>3, FromTyped, HttpPieces, Zenon DEF Str
<1>5. \A r, p, q : r = [name |-> p, value |-> q] => r.value = q
  OBVIOUS
<1> HIDE DEF n, v
<1> QED
  BY <1>1, <1>4, <1>5, Zenon

LEMMA ContentLengthTyped ==
    ASSUME NEW b \in Str, Http!parseHeadersOnly(b).result = "Complete",
           Http!parseHeadersOnly(b).contentLength # None
    PROVE  Http!parseHeadersOnly(b).contentLength \in Str
<1> DEFINE h == Http!parseHeadersOnly(b)
           end == Http!find(b, HeadersEnd, 1)
           lines == Http!linesOf(SubSeq(b, 1, end - 1))
           at == {i \in Http!headerLines(lines) :
                     Http!parseHeaderLine(lines[i]).name = Http!kContentLength}
<1>1. Http!incomplete.result = "Incomplete" /\ Http!error.result = "Error"
  BY DEF Http!incomplete, Http!error
<1>2. /\ end # 0 /\ h.contentLength = Http!header(lines, Http!kContentLength)
      /\ \A i \in Http!headerLines(lines) : Http!parseHeaderLine(lines[i]) # None
  BY <1>1 DEF Http!parseHeadersOnly, HeadersEnd
<1>3. SubSeq(b, 1, end - 1) \in Str
  <2>1. Len(b) \in Nat /\ grows(b, b) /\ 1 \in Nat \ {0}
    BY DEF Str, grows
  <2>2. end = find(b, HeadersEnd, 1)
    BY HttpText, Zenon
  <2>3. end \in 1 .. (Len(b) - Len(HeadersEnd) + 1) /\ Len(HeadersEnd) = 4
    BY <1>2, <2>1, <2>2, FindFirst, HttpText, Zenon
  <2> HIDE DEF end
  <2>4. end - 1 \in Int /\ end - 1 <= Len(b)
    BY <2>1, <2>3
  <2> QED
    BY <2>1, <2>4, PieceStays, Zenon
<1>4. lines \in Seq(Str)
  BY <1>3, LinesTyped, Zenon
<1> HIDE DEF lines, h
<1>5. at # {} /\ h.contentLength = Http!parseHeaderLine(lines[Http!Max(at)]).value
  BY <1>2, Zenon DEF Http!header, h
<1>6. Http!headerLines(lines) \subseteq 1 .. Len(lines) /\ Len(lines) \in Nat
  BY <1>4 DEF Http!headerLines
<1>7. Http!Max(at) \in at
  <2>1. at \subseteq 0 .. Len(lines)
    BY <1>6
  <2> HIDE DEF at
  <2> QED
    BY <1>5, <1>6, <2>1, MaxOfNats, HttpPieces, Zenon
<1>8. Http!Max(at) \in 1 .. Len(lines) /\ Http!Max(at) \in Http!headerLines(lines)
  BY <1>6, <1>7, Zenon
<1> HIDE DEF at
<1>9. lines[Http!Max(at)] \in Str
  BY <1>4, <1>8
<1>10. h.contentLength \in Str
  BY <1>2, <1>5, <1>8, <1>9, HeaderValueTyped, Zenon
<1> QED
  BY <1>10 DEF h

LEMMA TakeBodyIs ==
    ASSUME NEW b, NEW h, NEW length, h.result = "Complete"
    PROVE  LET out == Http!takeBody(b, h, length)
           IN  /\ (length = None \/ length \notin 0 .. kMaxBodySize) => out.result = "Error"
               /\ length # None /\ length \in 0 .. kMaxBodySize =>
                      IF Len(b) < h.consumed + length THEN out.result = "Incomplete"
                      ELSE out = [h EXCEPT !.body = SubSeq(b, h.consumed + 1, h.consumed + length),
                                           !.consumed = h.consumed + length]
<1>1. Http!incomplete.result = "Incomplete" /\ Http!error.result = "Error"
  BY DEF Http!incomplete, Http!error
<1> QED
  BY <1>1, Zenon DEF Http!takeBody

LEMMA HeadersAre ==
    ASSUME NEW b, Http!parseHeadersOnly(b).result = "Complete"
    PROVE  \E m, p, cl, n : Http!parseHeadersOnly(b) =
               [result |-> "Complete", method |-> m, path |-> p, contentLength |-> cl,
                body |-> <<>>, consumed |-> n]
<1>1. Http!incomplete.result = "Incomplete" /\ Http!error.result = "Error"
  BY DEF Http!incomplete, Http!error
<1> QED
  BY <1>1 DEF Http!parseHeadersOnly

LEMMA HttpReadingsAgree ==
    ASSUME NEW b \in Str, Http!wantsStreaming(b) # None
    PROVE  LET s == Http!wantsStreaming(b)
               out == Http!parse(b)
               end == s.start + s.size - 1
           IN  \/ /\ out.result = "Error"
                  /\ \/ s.size > kMaxBodySize
                     \/ "-" \in ToSet(Http!parseHeadersOnly(b).contentLength)
               \/ out.result = "Incomplete" /\ Len(b) < end
               \/ out.result = "Complete" /\ Len(b) >= end /\ out.consumed = end
<1> DEFINE h == Http!parseHeadersOnly(b)
           cl == h.contentLength
           announced == IF cl = None THEN 0 ELSE Http!parseContentLength(cl)
           s == Http!wantsStreaming(b)
           out == Http!parse(b)
           end == s.start + s.size - 1
           n == number(cl)
           word == 2 * LONG_MAX + 2
<1>1. /\ h.result = "Complete" /\ announced # None /\ ~(announced <= kStreamingThreshold)
      /\ s = [size |-> announced, start |-> h.consumed + 1]
  BY Zenon DEF Http!wantsStreaming
<1>2. cl # None
  <2>1. 0 <= kStreamingThreshold
    BY LimitsAssumption
  <2> QED
    BY <1>1, <2>1, Zenon
<1>3. announced = stoul(cl)
  BY <1>1, <1>2, HttpNumbers, Zenon DEF Http!parseContentLength
<1>4. cl \in Str
  BY <1>1, <1>2, ContentLengthTyped, Zenon
<1>5. /\ n # None /\ ~(n.size >= word)
      /\ announced = IF n.negative THEN (word - n.size) % word ELSE n.size
  BY <1>1, <1>3, Zenon DEF stoul
<1>6. n.size \in Nat /\ n.negative \in BOOLEAN /\ (n.negative => "-" \in ToSet(cl))
  BY <1>4, <1>5, NumberIs, Zenon
<1>7. out = Http!takeBody(b, h, within(n, LONG_MAX))
  BY <1>1, <1>2, HttpParseIs, HttpNumbers, Zenon DEF bodyLength
<1>8. h.consumed \in 4 .. Len(b) /\ Len(b) \in Nat
  BY <1>1, HeadersConsumed DEF Str
<1>9. PICK m, p, x, y : h = [result |-> "Complete", method |-> m, path |-> p,
                             contentLength |-> x, body |-> <<>>, consumed |-> y]
  BY <1>1, HeadersAre, Zenon
<1> HIDE DEF h, cl, announced, s, out, n
<1>10. s.size = announced /\ s.start = h.consumed + 1
  <2>1. \A r, u, v : r = [size |-> u, start |-> v] => r.size = u /\ r.start = v
    OBVIOUS
  <2> QED
    BY <1>1, <2>1, Zenon
<1>11. /\ LONG_MAX \in Nat /\ kMaxBodySize \in Nat /\ kStreamingThreshold \in Nat
       /\ kMaxBodySize < LONG_MAX
  BY LimitsAssumption
<1> DEFINE w == within(n, LONG_MAX)
<1>12. out = Http!takeBody(b, h, w)
  BY <1>7
<1> HIDE DEF w
<1>13. CASE n.negative
  <2>1. n.size # 0
    <3> SUFFICES ASSUME n.size = 0 PROVE FALSE
      OBVIOUS
    <3>1. announced = (word - 0) % word
      BY <1>5, <1>13
    <3>2. \A z \in Nat : z > 0 => (z - 0) % z = 0
      OBVIOUS
    <3>3. word \in Nat /\ word > 0
      BY <1>11
    <3>4. announced = 0
      BY <3>1, <3>2, <3>3, Zenon
    <3> QED
      BY <1>1, <1>11, <3>4
  <2>2. within(n, LONG_MAX) = None \/ within(n, LONG_MAX) = -n.size
    BY <1>5, <1>13 DEF within
  <2>3. -n.size \notin 0 .. kMaxBodySize
    BY <1>6, <1>11, <2>1
  <2>4. w = None \/ w \notin 0 .. kMaxBodySize
    BY <2>2, <2>3, Zenon DEF w
  <2>5. out.result = "Error"
    BY <1>1, <1>12, <2>4, TakeBodyIs, Zenon
  <2> QED
    BY <1>6, <1>13, <2>5, Zenon DEF out, cl, h
<1>14. CASE ~n.negative
  <2>1. announced = n.size /\ announced \in Nat
    BY <1>5, <1>6, <1>14
  <2>2. within(n, LONG_MAX) = IF n.size \in (-LONG_MAX - 1) .. LONG_MAX THEN n.size ELSE None
    BY <1>5, <1>14 DEF within
  <2>3. CASE announced > kMaxBodySize
    <3>1. announced \notin 0 .. kMaxBodySize
      BY <1>11, <2>1, <2>3
    <3>2. out.result = "Error"
      <4>1. w = None \/ w \notin 0 .. kMaxBodySize
        BY <2>1, <2>2, <3>1, Zenon DEF w
      <4> QED
        BY <1>1, <1>12, <4>1, TakeBodyIs, Zenon
    <3> QED
      BY <1>10, <2>3, <3>2, Zenon DEF out, s
  <2>4. CASE ~(announced > kMaxBodySize)
    <3>1. announced \in (-LONG_MAX - 1) .. LONG_MAX /\ announced \in 0 .. kMaxBodySize
      BY <1>11, <2>1, <2>4
    <3>2. within(n, LONG_MAX) = announced
      BY <2>1, <2>2, <3>1, Zenon
    <3>3. announced # None
      BY <1>1
    <3>4. end = h.consumed + announced
      BY <1>8, <1>10, <2>1
    <3> HIDE DEF end
    <3>5. CASE Len(b) < end
      <4>1. out.result = "Incomplete"
        BY <1>1, <1>7, <3>1, <3>2, <3>3, <3>4, <3>5, TakeBodyIs, Zenon
      <4> QED
        BY <3>5, <4>1, Zenon DEF out, end, s
    <3>6. CASE ~(Len(b) < end)
      <4>1. out = [h EXCEPT !.body = SubSeq(b, h.consumed + 1, h.consumed + announced),
                            !.consumed = h.consumed + announced]
        <5>1. out = Http!takeBody(b, h, announced) /\ ~(Len(b) < h.consumed + announced)
          BY <1>7, <3>2, <3>4, <3>6, Zenon
        <5> QED
          BY <3>1, <3>3, <5>1, Zenon DEF Http!takeBody
      <4>2. out.result = "Complete" /\ out.consumed = h.consumed + announced
        <5>1. ASSUME NEW d, NEW e
              PROVE  /\ [h EXCEPT !.body = d, !.consumed = e].result = "Complete"
                     /\ [h EXCEPT !.body = d, !.consumed = e].consumed = e
          BY <1>9
        <5> QED
          BY <4>1, <5>1, Zenon
      <4>3. Len(b) >= end
        BY <1>8, <2>1, <3>4, <3>6
      <4> QED
        BY <3>4, <4>2, <4>3, Zenon DEF out, end, s
    <3> QED
      BY <3>5, <3>6
  <2> QED
    BY <2>3, <2>4
<1> QED
  BY <1>13, <1>14

\* Where a value would be streamed, the parser that collects it finds the same
\* key and length at the same place and ends at the same character, for every
\* text and every limit of the order that LimitsAssumption states.
THEOREM StreamingAgreesAlways == Spec => []StreamingAgrees
<1>1. IInv => StreamingAgrees
  <2> SUFFICES ASSUME IInv PROVE StreamingAgrees
    OBVIOUS
  <2>1. ASSUME job.kind # "args"
        PROVE  buffer \in Seq(STRING) /\ buffer \in Str /\ Len(buffer) = fed
    <3>1. job.text \in Seq(STRING)
      BY <2>1, JobsAssumption DEF IInv
    <3>2. fed \in Nat /\ fed <= Len(job.text)
      BY JobText
    <3>3. SubSeq(job.text, 1, fed) \in Seq(STRING)
      BY <3>1, <3>2, SubSeqProperties
    <3> QED
      BY <2>1, <3>3, JobText DEF buffer
  <2>2. ASSUME job.kind = "resp"
        PROVE  respAgrees(Resp!tryBeginStreaming(buffer), Resp!parse(buffer))
    <3>1. buffer \in Seq(STRING) /\ Len(buffer) = fed
      BY <2>1, <2>2
    <3> HIDE DEF IInv
    <3> QED
      BY <3>1, RespReadingsAgree, Zenon DEF respAgrees
  <2>3. ASSUME job.kind = "http"
        PROVE  httpAgrees(Http!wantsStreaming(buffer), Http!parse(buffer))
    <3> DEFINE s == Http!wantsStreaming(buffer)
               out == Http!parse(buffer)
               end == s.start + s.size - 1
    <3>1. buffer \in Str /\ Len(buffer) = fed
      BY <2>1, <2>3
    <3>2. s # None =>
            \/ /\ out.result = "Error"
               /\ \/ s.size > kMaxBodySize
                  \/ "-" \in ToSet(Http!parseHeadersOnly(buffer).contentLength)
            \/ out.result = "Incomplete" /\ fed < end
            \/ out.result = "Complete" /\ fed >= end /\ out.consumed = end
      BY <3>1, HttpReadingsAgree, Zenon
    <3>3. httpAgrees(s, out)
      <4> HIDE DEF s, out
      <4> QED
        BY <3>2 DEF httpAgrees
    <3> QED
      BY <3>3
  <2> QED
    BY <2>2, <2>3 DEF StreamingAgrees
<1> QED
  BY <1>1, Feeding, PTL

-----------------------------------------------------------------------------
(* The names of a path *)

wordsTurn(s, separators, p, k) ==
    IF s[k] \in separators THEN p
    ELSE IF k = 1 THEN << <<s[k]>> >>
    ELSE IF s[k - 1] \in separators THEN Append(p, <<s[k]>>)
    ELSE extend(p, s[k])

wordsUpTo(s, separators, f) ==
    f = [k \in 0 .. Len(s) |->
            IF k = 0 THEN <<>> ELSE wordsTurn(s, separators, f[k - 1], k)]

LEMMA ExtendTotal ==
    ASSUME NEW S, NEW p \in Seq(Seq(S)), NEW c \in S
    PROVE  extend(p, c) \in Seq(Seq(S))
<1>1. CASE p = <<>>
  <2>1. extend(p, c) = <<>>
    BY <1>1 DEF extend
  <2> QED
    BY <2>1
<1>2. CASE p # <<>>
  BY <1>2, ExtendTyped
<1> QED
  BY <1>1, <1>2

LEMMA WordsExist ==
    ASSUME NEW S, NEW s \in Seq(S), NEW separators
    PROVE  \E f : wordsUpTo(s, separators, f)
<1> DEFINE n == Len(s)
           X == Seq(Seq(S))
           turn(p, k) == wordsTurn(s, separators, p, k)
           step == [k \in 1 .. n |-> [p \in X |-> turn(p, k)]]
<1>1. n \in Nat /\ \A k \in 1 .. n : s[k] \in S
  OBVIOUS
<1>2. <<>> \in X
  OBVIOUS
<1>3. ASSUME NEW p \in X, NEW k \in 1 .. n PROVE turn(p, k) \in X
  <2>1. s[k] \in S /\ <<s[k]>> \in Seq(S)
    BY <1>1
  <2>2. << <<s[k]>> >> \in X /\ Append(p, <<s[k]>>) \in X
    BY <2>1
  <2>3. extend(p, s[k]) \in X
    BY <2>1, ExtendTotal
  <2> HIDE DEF X
  <2> QED
    BY <2>2, <2>3 DEF wordsTurn
<1>4. step \in [1 .. n -> [X -> X]]
  <2> HIDE DEF X, turn
  <2> QED
    BY <1>3
<1>5. PICK g \in [0 .. n -> X] : recursive(n, <<>>, step, g)
  <2> HIDE DEF n, X, step
  <2> QED
    BY <1>1, <1>2, <1>4, Recursion, Zenon
<1>6. g = [k \in 0 .. n |-> IF k = 0 THEN <<>> ELSE step[k][g[k - 1]]]
  BY <1>5, Zenon DEF recursive
<1>7. \A k \in 0 .. n : k # 0 => step[k][g[k - 1]] = turn(g[k - 1], k)
  <2> HIDE DEF n, X, turn
  <2> TAKE k \in 0 .. n
  <2>1. k # 0 => k \in 1 .. n /\ k - 1 \in 0 .. n
    BY <1>1
  <2>2. k # 0 => g[k - 1] \in X
    BY <2>1, <1>5
  <2> QED
    BY <2>1, <2>2
<1>8. g = [k \in 0 .. n |-> IF k = 0 THEN <<>> ELSE turn(g[k - 1], k)]
  <2> HIDE DEF step, n, turn, X
  <2> QED
    BY <1>6, <1>7
<1> QED
  BY <1>8, Zenon DEF wordsUpTo

\* The turns that make words, and that the last piece is there to be extended.
wordsMade(S, s, separators, f) ==
    /\ words(s, separators) = f[Len(s)] /\ f[0] = <<>>
    /\ \A k \in 1 .. Len(s) : f[k] = wordsTurn(s, separators, f[k - 1], k)
    /\ \A k \in 0 .. Len(s) : f[k] \in Seq(Seq(S))
    /\ \A k \in 1 .. Len(s) : s[k] \notin separators => f[k] # <<>>

LEMMA WordsAre ==
    ASSUME NEW S, NEW s \in Seq(S), NEW separators
    PROVE  \E f : wordsMade(S, s, separators, f)
<1> DEFINE n == Len(s)
           f == CHOOSE f : wordsUpTo(s, separators, f)
<1>1. n \in Nat /\ \A k \in 1 .. n : s[k] \in S
  OBVIOUS
<1>2. wordsUpTo(s, separators, f)
  BY WordsExist, Zenon
<1>3. words(s, separators) = f[n]
  BY DEF words, wordsUpTo, wordsTurn
<1> HIDE DEF f, n
<1>4. f[0] = <<>> /\ \A k \in 1 .. n : f[k] = wordsTurn(s, separators, f[k - 1], k)
  <2>1. f = [k \in 0 .. n |-> IF k = 0 THEN <<>> ELSE wordsTurn(s, separators, f[k - 1], k)]
    BY <1>2, Zenon DEF wordsUpTo, n
  <2>2. 0 \in 0 .. n /\ \A k \in 1 .. n : k \in 0 .. n /\ k # 0
    BY <1>1
  <2> QED
    BY <2>1, <2>2
<1> DEFINE T == {k \in 0 .. n : /\ f[k] \in Seq(Seq(S))
                                /\ k # 0 /\ s[k] \notin separators => f[k] # <<>>}
<1>5. 0 \in T
  <2>1. f[0] \in Seq(Seq(S))
    BY <1>4
  <2> QED
    BY <2>1, <1>1
<1>6. ASSUME NEW k \in 1 .. n, k - 1 \in T PROVE k \in T
  <2>1. f[k - 1] \in Seq(Seq(S)) /\ s[k] \in S /\ f[k] = wordsTurn(s, separators, f[k - 1], k)
    BY <1>1, <1>4, <1>6
  <2>2. k # 1 /\ s[k - 1] \notin separators => f[k - 1] # <<>>
    BY <1>6
  <2>3. CASE s[k] \in separators
    BY <2>1, <2>3 DEF wordsTurn
  <2>4. f[k] \in Seq(Seq(S)) /\ f[k] # <<>> => k \in T
    <3>1. k \in 0 .. n
      BY <1>1
    <3> QED
      BY <3>1, Zenon
  <2>5. CASE s[k] \notin separators /\ k = 1
    <3>1. f[k] = << <<s[k]>> >>
      BY <2>1, <2>5, Zenon DEF wordsTurn
    <3>2. << <<s[k]>> >> \in Seq(Seq(S)) /\ << <<s[k]>> >> # <<>>
      BY <2>1
    <3>3. f[k] \in Seq(Seq(S)) /\ f[k] # <<>>
      BY <3>1, <3>2, Zenon
    <3> QED
      BY <2>4, <3>3, Zenon
  <2>6. CASE s[k] \notin separators /\ k # 1 /\ s[k - 1] \in separators
    <3>1. f[k] = Append(f[k - 1], <<s[k]>>)
      BY <2>1, <2>6, Zenon DEF wordsTurn
    <3>2. <<s[k]>> \in Seq(S)
      BY <2>1
    <3>3. f[k] \in Seq(Seq(S)) /\ f[k] # <<>>
      <4>1. \A p \in Seq(Seq(S)), x \in Seq(S) : Append(p, x) \in Seq(Seq(S)) /\ Append(p, x) # <<>>
        BY AppendProperties
      <4> QED
        BY <2>1, <3>1, <3>2, <4>1, Zenon
    <3> QED
      BY <2>4, <3>3, Zenon
  <2>7. CASE s[k] \notin separators /\ k # 1 /\ s[k - 1] \notin separators
    <3>1. f[k] = extend(f[k - 1], s[k])
      BY <2>1, <2>7, Zenon DEF wordsTurn
    <3>2. f[k] \in Seq(Seq(S)) /\ f[k] # <<>>
      <4>1. f[k - 1] # <<>>
        BY <2>2, <2>7
      <4>2. extend(f[k - 1], s[k]) \in Seq(Seq(S)) /\ extend(f[k - 1], s[k]) # <<>>
        BY <2>1, <4>1, ExtendTyped
      <4> QED
        BY <3>1, <4>2, Zenon
    <3> QED
      BY <2>4, <3>2, Zenon
  <2> QED
    BY <2>3, <2>5, <2>6, <2>7
<1> HIDE DEF T
<1>7. \A k \in 1 .. n : k - 1 \in T => k \in T
  BY <1>6
<1>8. \A k \in 0 .. n : k \in T
  BY <1>1, <1>5, <1>7, Induct, Zenon
<1>9. /\ \A k \in 0 .. n : f[k] \in Seq(Seq(S))
      /\ \A k \in 1 .. n : s[k] \notin separators => f[k] # <<>>
  BY <1>1, <1>8 DEF T
<1> QED
  BY <1>3, <1>4, <1>9, Zenon DEF n, wordsMade

LEMMA FrontAndLast ==
    ASSUME NEW S, NEW u \in Seq(S), u # <<>>
    PROVE  /\ Front(u) \in Seq(S) /\ Len(Front(u)) = Len(u) - 1 /\ Last(u) \in S
           /\ \A i \in 1 .. (Len(u) - 1) : Front(u)[i] = u[i]
           /\ \A x : x \in ToSet(u) <=> x \in ToSet(Front(u)) \/ x = Last(u)
<1>1. Len(u) \in Nat /\ Len(u) # 0 /\ DOMAIN u = 1 .. Len(u)
  OBVIOUS
<1>2. Front(u) \in Seq(S) /\ Len(Front(u)) = Len(u) - 1
  BY <1>1 DEF Front
<1>3. \A i \in 1 .. (Len(u) - 1) : Front(u)[i] = u[i]
  BY <1>1 DEF Front
<1>4. Last(u) \in S
  BY <1>1 DEF Last
<1>5. DOMAIN Front(u) = 1 .. (Len(u) - 1)
  BY <1>2
<1>6. /\ \A i \in 1 .. Len(u) : i \in 1 .. (Len(u) - 1) \/ i = Len(u)
      /\ \A i \in 1 .. (Len(u) - 1) : i \in 1 .. Len(u)
      /\ Len(u) \in 1 .. Len(u)
  <2>1. \A n \in Nat : n # 0 => /\ \A i \in 1 .. n : i \in 1 .. (n - 1) \/ i = n
                                /\ \A i \in 1 .. (n - 1) : i \in 1 .. n
                                /\ n \in 1 .. n
    OBVIOUS
  <2> QED
    BY <1>1, <2>1, Zenon
<1>7. \A x : x \in ToSet(u) <=> x \in ToSet(Front(u)) \/ x = Last(u)
  <2> TAKE x
  <2>1. x \in ToSet(u) <=> \E i \in 1 .. Len(u) : u[i] = x
    BY <1>1, Zenon DEF ToSet
  <2>2. x \in ToSet(Front(u)) <=> \E i \in 1 .. (Len(u) - 1) : u[i] = x
    <3>1. x \in ToSet(Front(u)) <=> \E i \in 1 .. (Len(u) - 1) : Front(u)[i] = x
      BY <1>5, Zenon DEF ToSet
    <3> QED
      BY <1>3, <3>1, Zenon
  <2> QED
    BY <1>6, <2>1, <2>2, Zenon DEF Last
<1> QED
  BY <1>2, <1>3, <1>4, <1>7

LEMMA FrontOfAppend ==
    ASSUME NEW S, NEW u \in Seq(S), NEW x \in S
    PROVE  /\ Append(u, x) \in Seq(S) /\ Append(u, x) # <<>>
           /\ Front(Append(u, x)) = u /\ Last(Append(u, x)) = x
<1> DEFINE v == Append(u, x)
<1>1. /\ v \in Seq(S) /\ v # <<>> /\ Len(v) = Len(u) + 1 /\ v[Len(v)] = x
      /\ \A i \in 1 .. Len(u) : v[i] = u[i]
  BY AppendProperties
<1> HIDE DEF v
<1>2. /\ Front(v) \in Seq(S) /\ Len(Front(v)) = Len(v) - 1
      /\ \A i \in 1 .. (Len(v) - 1) : Front(v)[i] = v[i]
  BY <1>1, FrontAndLast, Zenon
<1>3. Len(u) \in Nat /\ Len(v) - 1 = Len(u)
  BY <1>1
<1>4. Len(Front(v)) = Len(u) /\ \A i \in 1 .. Len(u) : Front(v)[i] = u[i]
  BY <1>1, <1>2, <1>3
<1>5. Front(v) = u
  BY <1>2, <1>4, SeqEqual
<1> QED
  BY <1>1, <1>5 DEF Last, v

LEMMA FrontOfExtend ==
    ASSUME NEW S, NEW p \in Seq(Seq(S)), p # <<>>, NEW c \in S
    PROVE  /\ Front(extend(p, c)) = Front(p)
           /\ Last(extend(p, c)) = Append(Last(p), c)
<1> DEFINE q == extend(p, c)
<1>1. /\ q \in Seq(Seq(S)) /\ q # <<>> /\ Len(q) = Len(p)
      /\ q[Len(p)] = Append(p[Len(p)], c)
      /\ \A i \in 1 .. (Len(p) - 1) : q[i] = p[i]
  BY ExtendTyped, Zenon
<1> HIDE DEF q
<1>2. /\ Front(q) \in Seq(Seq(S)) /\ Len(Front(q)) = Len(q) - 1
      /\ \A i \in 1 .. (Len(q) - 1) : Front(q)[i] = q[i]
  BY <1>1, FrontAndLast, Zenon
<1>3. /\ Front(p) \in Seq(Seq(S)) /\ Len(Front(p)) = Len(p) - 1
      /\ \A i \in 1 .. (Len(p) - 1) : Front(p)[i] = p[i]
  BY FrontAndLast, Zenon
<1>4. Front(q) = Front(p)
  <2>1. \A i \in 1 .. Len(Front(q)) : Front(q)[i] = Front(p)[i]
    BY <1>1, <1>2, <1>3
  <2> QED
    BY <1>1, <1>2, <1>3, <2>1, SeqEqual, Zenon
<1>5. Last(q) = Append(Last(p), c)
  BY <1>1, Zenon DEF Last
<1> QED
  BY <1>4, <1>5 DEF q

LEMMA PieceGrows ==
    ASSUME NEW S, NEW s \in Seq(S), NEW i \in 1 .. Len(s), NEW k \in i .. Len(s)
    PROVE  Append(SubSeq(s, i, k - 1), s[k]) = SubSeq(s, i, k)
<1>1. Len(s) \in Nat /\ s[k] \in S
  OBVIOUS
<1> DEFINE x == SubSeq(s, i, k - 1)
           y == SubSeq(s, i, k)
<1>2. x \in Seq(S) /\ Len(x) = k - i /\ \A m \in 1 .. (k - i) : x[m] = s[i + m - 1]
  <2>1. \A m \in i .. (k - 1) : s[m] \in S
    BY <1>1
  <2>2. x \in Seq(S)
    BY <1>1, <2>1, SubSeqProperties
  <2> QED
    BY <1>1, <2>2
<1>3. y \in Seq(S) /\ Len(y) = k - i + 1 /\ \A m \in 1 .. (k - i + 1) : y[m] = s[i + m - 1]
  <2>1. \A m \in i .. k : s[m] \in S
    BY <1>1
  <2>2. y \in Seq(S)
    BY <1>1, <2>1, SubSeqProperties
  <2> QED
    BY <1>1, <2>2
<1> HIDE DEF x, y
<1>4. /\ Append(x, s[k]) \in Seq(S) /\ Len(Append(x, s[k])) = k - i + 1
      /\ \A m \in 1 .. (k - i) : Append(x, s[k])[m] = x[m]
      /\ Append(x, s[k])[k - i + 1] = s[k]
  <2>1. /\ Append(x, s[k]) \in Seq(S) /\ Len(Append(x, s[k])) = Len(x) + 1
        /\ \A m \in 1 .. Len(x) : Append(x, s[k])[m] = x[m]
        /\ Append(x, s[k])[Len(x) + 1] = s[k]
    BY <1>1, <1>2, AppendProperties
  <2> QED
    BY <1>2, <2>1, Zenon
<1>5. \A m \in 1 .. (k - i + 1) : Append(x, s[k])[m] = y[m]
  <2> TAKE m \in 1 .. (k - i + 1)
  <2>1. CASE m = k - i + 1
    <3>1. i + m - 1 = k
      BY <1>1, <2>1
    <3> QED
      BY <1>3, <1>4, <2>1, <3>1
  <2>2. CASE m # k - i + 1
    <3>1. m \in 1 .. (k - i)
      BY <1>1, <2>2
    <3> QED
      BY <1>2, <1>3, <1>4, <3>1
  <2> QED
    BY <2>1, <2>2
<1>6. Append(x, s[k]) = y
  <2>1. Len(Append(x, s[k])) = Len(y) /\ \A m \in 1 .. Len(y) : Append(x, s[k])[m] = y[m]
    BY <1>3, <1>4, <1>5, Zenon
  <2> QED
    BY <1>3, <1>4, <2>1, SeqEqual, Zenon
<1> QED
  BY <1>6 DEF x, y

\* From i to j there is no separator, and none is missing in front of i.
run(s, separators, i, j) ==
    /\ i \in 1 .. Len(s) /\ j \in i .. Len(s)
    /\ i = 1 \/ s[i - 1] \in separators
    /\ \A m \in i .. j : s[m] \notin separators

\* x is what is between two separators in front of position k, or between the
\* beginning and one.
closed(s, separators, k, x) ==
    \E i \in 1 .. Len(s), j \in 1 .. Len(s) :
        run(s, separators, i, j) /\ j < k /\ s[j + 1] \in separators /\ x = SubSeq(s, i, j)

open(s, separators, k) == k # 0 /\ s[k] \notin separators

LEMMA OneRun ==
    ASSUME NEW S, NEW s \in Seq(S), NEW separators, NEW k, NEW i, NEW j,
           run(s, separators, i, k), run(s, separators, j, k)
    PROVE  i = j
<1>1. i \in 1 .. k /\ j \in 1 .. k /\ k \in Nat
  BY DEF run
<1>2. ~(i < j)
  <2> SUFFICES ASSUME i < j PROVE FALSE
    OBVIOUS
  <2>1. j - 1 \in i .. k /\ j # 1
    BY <1>1
  <2> QED
    BY <2>1 DEF run
<1>3. ~(j < i)
  <2> SUFFICES ASSUME j < i PROVE FALSE
    OBVIOUS
  <2>1. i - 1 \in j .. k /\ i # 1
    BY <1>1
  <2> QED
    BY <2>1 DEF run
<1> QED
  BY <1>1, <1>2, <1>3

\* What position k adds to the closed runs.
LEMMA ClosedAt ==
    ASSUME NEW S, NEW s \in Seq(S), NEW separators, NEW k \in 1 .. Len(s), NEW x
    PROVE  closed(s, separators, k, x) <=>
             \/ closed(s, separators, k - 1, x)
             \/ /\ k # 1 /\ s[k] \in separators
                /\ \E i \in 1 .. Len(s) : run(s, separators, i, k - 1) /\ x = SubSeq(s, i, k - 1)
<1>1. Len(s) \in Nat
  OBVIOUS
<1>2. ASSUME closed(s, separators, k, x)
      PROVE  \/ closed(s, separators, k - 1, x)
             \/ /\ k # 1 /\ s[k] \in separators
                /\ \E i \in 1 .. Len(s) : run(s, separators, i, k - 1) /\ x = SubSeq(s, i, k - 1)
  <2>1. PICK i \in 1 .. Len(s), j \in 1 .. Len(s) :
          run(s, separators, i, j) /\ j < k /\ s[j + 1] \in separators /\ x = SubSeq(s, i, j)
    BY <1>2, Zenon DEF closed
  <2>2. CASE j < k - 1
    BY <2>1, <2>2, Zenon DEF closed
  <2>3. CASE ~(j < k - 1)
    <3>1. j = k - 1 /\ j + 1 = k /\ k # 1
      BY <1>1, <2>1, <2>3
    <3> QED
      BY <2>1, <3>1, Zenon
  <2> QED
    BY <2>2, <2>3
<1>3. ASSUME closed(s, separators, k - 1, x) PROVE closed(s, separators, k, x)
  <2>1. PICK i \in 1 .. Len(s), j \in 1 .. Len(s) :
          run(s, separators, i, j) /\ j < k - 1 /\ s[j + 1] \in separators /\ x = SubSeq(s, i, j)
    BY <1>3, Zenon DEF closed
  <2>2. j < k
    BY <1>1, <2>1
  <2> QED
    BY <2>1, <2>2, Zenon DEF closed
<1>4. ASSUME k # 1, s[k] \in separators, NEW i \in 1 .. Len(s),
             run(s, separators, i, k - 1), x = SubSeq(s, i, k - 1)
      PROVE  closed(s, separators, k, x)
  <2>1. k - 1 \in 1 .. Len(s) /\ k - 1 < k /\ (k - 1) + 1 = k
    BY <1>1, <1>4
  <2> QED
    BY <1>4, <2>1 DEF closed
<1> QED
  BY <1>2, <1>3, <1>4

\* The pieces after k characters: the closed runs, and the open one as the last.
pieces(s, separators, u, k) ==
    IF open(s, separators, k)
    THEN /\ \E i \in 1 .. Len(s) : run(s, separators, i, k) /\ Last(u) = SubSeq(s, i, k)
         /\ \A x : x \in ToSet(Front(u)) <=> closed(s, separators, k, x)
    ELSE \A x : x \in ToSet(u) <=> closed(s, separators, k, x)

LEMMA PiecesStep ==
    ASSUME NEW S, NEW s \in Seq(S), NEW separators, NEW k \in 1 .. Len(s),
           NEW u \in Seq(Seq(S)), open(s, separators, k - 1) => u # <<>>,
           pieces(s, separators, u, k - 1), k = 1 => u = <<>>
    PROVE  pieces(s, separators, wordsTurn(s, separators, u, k), k)
<1> DEFINE v == wordsTurn(s, separators, u, k)
<1>1. Len(s) \in Nat /\ s[k] \in S /\ k # 0 /\ k - 1 \in 0 .. Len(s) /\ <<s[k]>> \in Seq(S)
  OBVIOUS
<1>2. open(s, separators, k) <=> s[k] \notin separators
  BY <1>1, Zenon DEF open
<1>3. open(s, separators, k - 1) <=> k # 1 /\ s[k - 1] \notin separators
  BY <1>1 DEF open
<1>4. CASE s[k] \in separators /\ ~open(s, separators, k - 1)
  <2>1. v = u
    BY <1>4 DEF wordsTurn
  <2>2. \A i : ~(k # 1 /\ run(s, separators, i, k - 1))
    <3> SUFFICES ASSUME NEW i, k # 1, run(s, separators, i, k - 1) PROVE FALSE
      OBVIOUS
    <3>1. k - 1 \in i .. (k - 1)
      BY <1>1 DEF run
    <3> QED
      BY <1>3, <1>4, <3>1, Zenon DEF run
  <2>3. \A x : closed(s, separators, k, x) <=> closed(s, separators, k - 1, x)
    BY <2>2, ClosedAt, Zenon
  <2> QED
    BY <1>2, <1>4, <2>1, <2>3, Zenon DEF pieces
<1>5. CASE s[k] \in separators /\ open(s, separators, k - 1)
  <2>1. v = u /\ k # 1
    BY <1>3, <1>5 DEF wordsTurn
  <2>2. PICK i \in 1 .. Len(s) : run(s, separators, i, k - 1) /\ Last(u) = SubSeq(s, i, k - 1)
    BY <1>5, Zenon DEF pieces
  <2>3. \A x : x \in ToSet(u) <=> x \in ToSet(Front(u)) \/ x = Last(u)
    BY <1>5, FrontAndLast, Zenon
  <2>4. \A j : run(s, separators, j, k - 1) => j = i
    BY <2>2, OneRun, Zenon
  <2>5. \A x : closed(s, separators, k, x) <=>
                 closed(s, separators, k - 1, x) \/ x = SubSeq(s, i, k - 1)
    <3> TAKE x
    <3>1. closed(s, separators, k, x) <=>
            \/ closed(s, separators, k - 1, x)
            \/ \E j \in 1 .. Len(s) : run(s, separators, j, k - 1) /\ x = SubSeq(s, j, k - 1)
      BY <1>5, <2>1, ClosedAt, Zenon
    <3>2. (\E j \in 1 .. Len(s) : run(s, separators, j, k - 1) /\ x = SubSeq(s, j, k - 1))
            <=> x = SubSeq(s, i, k - 1)
      BY <2>2, <2>4, Zenon
    <3> QED
      BY <3>1, <3>2, Zenon
  <2>6. \A x : x \in ToSet(Front(u)) <=> closed(s, separators, k - 1, x)
    BY <1>5, Zenon DEF pieces
  <2> QED
    BY <1>2, <1>5, <2>1, <2>2, <2>3, <2>5, <2>6, Zenon DEF pieces
<1>6. ASSUME s[k] \notin separators
      PROVE  \A x : closed(s, separators, k, x) <=> closed(s, separators, k - 1, x)
  BY <1>6, ClosedAt, Zenon
<1>7. CASE s[k] \notin separators /\ ~open(s, separators, k - 1)
  <2>1. v = Append(u, <<s[k]>>)
    <3>1. CASE k = 1
      <4>1. \A y : Append(<<>>, y) = <<y>>
        OBVIOUS
      <4> QED
        BY <1>7, <3>1, <4>1, Zenon DEF wordsTurn
    <3>2. CASE k # 1
      BY <1>3, <1>7, <3>2, Zenon DEF wordsTurn
    <3> QED
      BY <3>1, <3>2
  <2>2. Front(v) = u /\ Last(v) = <<s[k]>>
    BY <1>1, <2>1, FrontOfAppend, Zenon
  <2>3. run(s, separators, k, k)
    BY <1>1, <1>3, <1>7 DEF run
  <2>4. SubSeq(s, k, k) = <<s[k]>>
    <3>1. SubSeq(s, k, k - 1) = <<>> /\ k \in k .. Len(s)
      BY <1>1
    <3>2. Append(SubSeq(s, k, k - 1), s[k]) = SubSeq(s, k, k)
      BY <3>1, PieceGrows, Zenon
    <3>3. \A y : Append(<<>>, y) = <<y>>
      OBVIOUS
    <3> QED
      BY <3>1, <3>2, <3>3, Zenon
  <2> HIDE DEF v
  <2>5. \A x : x \in ToSet(Front(v)) <=> closed(s, separators, k, x)
    BY <1>6, <1>7, <2>2, Zenon DEF pieces
  <2>6. pieces(s, separators, v, k)
    BY <1>2, <1>7, <2>2, <2>3, <2>4, <2>5, Zenon DEF pieces
  <2> QED
    BY <2>6 DEF v
<1>8. CASE s[k] \notin separators /\ open(s, separators, k - 1)
  <2>1. v = extend(u, s[k])
    BY <1>3, <1>8, Zenon DEF wordsTurn
  <2>2. Front(v) = Front(u) /\ Last(v) = Append(Last(u), s[k])
    <3>1. u # <<>> /\ s[k] \in S
      BY <1>1, <1>8
    <3>2. Front(extend(u, s[k])) = Front(u) /\ Last(extend(u, s[k])) = Append(Last(u), s[k])
      BY <3>1, FrontOfExtend
    <3> QED
      BY <2>1, <3>2, Zenon
  <2>3. PICK i \in 1 .. Len(s) : run(s, separators, i, k - 1) /\ Last(u) = SubSeq(s, i, k - 1)
    BY <1>8, Zenon DEF pieces
  <2>4. k \in i .. Len(s)
    BY <1>1, <2>3 DEF run
  <2>5. run(s, separators, i, k)
    <3>1. \A m \in i .. k : m \in i .. (k - 1) \/ m = k
      BY <1>1, <2>4
    <3> QED
      BY <1>8, <2>3, <2>4, <3>1, Zenon DEF run
  <2>6. Last(v) = SubSeq(s, i, k)
    BY <2>2, <2>3, <2>4, PieceGrows, Zenon
  <2> HIDE DEF v
  <2>7. \A x : x \in ToSet(Front(v)) <=> closed(s, separators, k, x)
    BY <1>6, <1>8, <2>2, Zenon DEF pieces
  <2>8. pieces(s, separators, v, k)
    BY <1>2, <1>8, <2>5, <2>6, <2>7, Zenon DEF pieces
  <2> QED
    BY <2>8 DEF v
<1> QED
  BY <1>4, <1>5, <1>7, <1>8

isWord(s, separators, x) ==
    \E i \in 1 .. Len(s), j \in 1 .. Len(s) :
        /\ run(s, separators, i, j)
        /\ j = Len(s) \/ s[j + 1] \in separators
        /\ x = SubSeq(s, i, j)

\* The words of a text are its runs between separators.
LEMMA WordsAreRuns ==
    ASSUME NEW S, NEW s \in Seq(S), NEW separators
    PROVE  /\ words(s, separators) \in Seq(Seq(S))
           /\ \A x : x \in ToSet(words(s, separators)) <=> isWord(s, separators, x)
<1>0. PICK f : wordsMade(S, s, separators, f)
  BY WordsAre, Zenon
<1>1. /\ words(s, separators) = f[Len(s)] /\ f[0] = <<>>
      /\ \A k \in 1 .. Len(s) : f[k] = wordsTurn(s, separators, f[k - 1], k)
      /\ \A k \in 0 .. Len(s) : f[k] \in Seq(Seq(S))
      /\ \A k \in 1 .. Len(s) : s[k] \notin separators => f[k] # <<>>
  BY <1>0, Zenon DEF wordsMade
<1> DEFINE n == Len(s)
           T == {k \in 0 .. n : pieces(s, separators, f[k], k)}
<1>2. n \in Nat
  OBVIOUS
<1>3. 0 \in T
  <2>1. ~open(s, separators, 0)
    BY DEF open
  <2>2. \A x : x \notin ToSet(f[0])
    BY <1>1 DEF ToSet
  <2>3. \A x : ~closed(s, separators, 0, x)
    BY <1>2 DEF closed
  <2>4. 0 \in 0 .. n
    BY <1>2
  <2> QED
    BY <2>1, <2>2, <2>3, <2>4, Zenon DEF pieces
<1>4. ASSUME NEW k \in 1 .. n, k - 1 \in T PROVE k \in T
  <2>1. k - 1 \in 0 .. n /\ k \in 0 .. n
    BY <1>2
  <2>2. open(s, separators, k - 1) => f[k - 1] # <<>>
    <3>1. k - 1 # 0 => k - 1 \in 1 .. n
      BY <1>2
    <3> QED
      BY <1>1, <3>1, Zenon DEF open
  <2>3. k = 1 => f[k - 1] = <<>>
    BY <1>1
  <2>4. pieces(s, separators, wordsTurn(s, separators, f[k - 1], k), k)
    <3>1. f[k - 1] \in Seq(Seq(S)) /\ pieces(s, separators, f[k - 1], k - 1)
      BY <1>1, <1>4, <2>1, Zenon
    <3> QED
      BY <2>2, <2>3, <3>1, PiecesStep, Zenon
  <2> QED
    BY <1>1, <2>1, <2>4, Zenon
<1>5. \A k \in 1 .. n : k - 1 \in T => k \in T
  BY <1>4, Zenon
<1> HIDE DEF T, n
<1>6. \A k \in 0 .. n : k \in T
  BY <1>2, <1>3, <1>5, Induct, Zenon
<1>7. n \in 0 .. n /\ n \in T
  BY <1>2, <1>6
<1>8. pieces(s, separators, f[n], n)
  BY <1>7, Zenon DEF T
<1>9. f[n] \in Seq(Seq(S)) /\ words(s, separators) = f[n]
  BY <1>1, <1>7, Zenon DEF n
<1> DEFINE whole(x) == isWord(s, separators, x)
<1>10. \A x : whole(x) <=> \/ closed(s, separators, n, x)
                           \/ \E i \in 1 .. n : run(s, separators, i, n) /\ x = SubSeq(s, i, n)
  <2> TAKE x
  <2>1. \A j \in 1 .. n : j = n \/ j < n
    BY <1>2
  <2>2. \A i : run(s, separators, i, n) => n \in 1 .. n
    BY <1>2 DEF run, n
  <2> QED
    BY <2>1, <2>2, Zenon DEF closed, isWord, n
<1>11. CASE open(s, separators, n)
  <2>1. f[n] # <<>>
    <3>1. n \in 1 .. n
      BY <1>2, <1>11 DEF open
    <3> QED
      BY <1>1, <1>11, <3>1, Zenon DEF open, n
  <2>2. \A x : x \in ToSet(f[n]) <=> x \in ToSet(Front(f[n])) \/ x = Last(f[n])
    BY <1>9, <2>1, FrontAndLast, Zenon
  <2>3. PICK i \in 1 .. n : run(s, separators, i, n) /\ Last(f[n]) = SubSeq(s, i, n)
    BY <1>8, <1>11, Zenon DEF pieces, n
  <2>4. \A j : run(s, separators, j, n) => j = i
    BY <2>3, OneRun, Zenon
  <2>5. \A x : x \in ToSet(Front(f[n])) <=> closed(s, separators, n, x)
    BY <1>8, <1>11, Zenon DEF pieces
  <2>6. \A x : (\E j \in 1 .. n : run(s, separators, j, n) /\ x = SubSeq(s, j, n))
                 <=> x = Last(f[n])
    BY <2>3, <2>4, Zenon
  <2>7. \A x : x \in ToSet(f[n]) <=> whole(x)
    <3> HIDE DEF whole
    <3> QED
      BY <1>10, <2>2, <2>5, <2>6, Zenon
  <2> QED
    BY <1>9, <2>7, Zenon DEF n
<1>12. CASE ~open(s, separators, n)
  <2>1. \A i \in 1 .. n : ~run(s, separators, i, n)
    <3> SUFFICES ASSUME NEW i \in 1 .. n, run(s, separators, i, n) PROVE FALSE
      OBVIOUS
    <3>1. n \in i .. n /\ n # 0
      BY <1>2
    <3> QED
      BY <1>12, <3>1, Zenon DEF run, open
  <2>2. \A x : x \in ToSet(f[n]) <=> closed(s, separators, n, x)
    BY <1>8, <1>12, Zenon DEF pieces
  <2>3. \A x : x \in ToSet(f[n]) <=> whole(x)
    <3> HIDE DEF whole
    <3> QED
      BY <1>10, <2>1, <2>2, Zenon
  <2> QED
    BY <1>9, <2>3, Zenon DEF n
<1> QED
  BY <1>11, <1>12

\* A name of a path: a slash cannot be part of it.
Name == {x \in Str : x # <<>> /\ \A i \in 1 .. Len(x) : x[i] # "/"}

LEMMA WordsAreNames ==
    ASSUME NEW s \in Str
    PROVE  words(s, {"/"}) \in Seq(Name)
<1> DEFINE w == words(s, {"/"})
<1>1. s \in Seq(Chars) /\ Len(s) \in Nat
  BY DEF Str
<1>2. w \in Seq(Seq(Chars))
  BY <1>1, WordsAreRuns
<1>3. ASSUME NEW x \in ToSet(w) PROVE x \in Name
  <2>0. isWord(s, {"/"}, x)
    BY <1>1, <1>3, WordsAreRuns, Zenon
  <2>1. PICK i \in 1 .. Len(s), j \in 1 .. Len(s) : run(s, {"/"}, i, j) /\ x = SubSeq(s, i, j)
    BY <2>0, Zenon DEF isWord
  <2>2. j \in i .. Len(s) /\ \A m \in i .. j : s[m] # "/"
    BY <2>1 DEF run
  <2>3. x \in Seq(Chars)
    <3>1. \A m \in i .. j : s[m] \in Chars
      BY <1>1
    <3> QED
      BY <1>1, <2>1, <3>1, SubSeqProperties
  <2>4. Len(x) = j - i + 1 /\ \A m \in 1 .. (j - i + 1) : x[m] = s[i + m - 1]
    BY <1>1, <2>1, <2>2
  <2>5. x # <<>>
    <3>1. j - i + 1 # 0
      BY <1>1, <2>2
    <3> QED
      BY <2>4, <3>1
  <2>6. \A m \in 1 .. (j - i + 1) : i + m - 1 \in i .. j
    BY <1>1, <2>2
  <2>7. \A m \in 1 .. Len(x) : x[m] # "/"
    BY <2>2, <2>4, <2>6, Zenon
  <2> QED
    BY <2>3, <2>5, <2>7, Zenon DEF Name, Str
<1> HIDE DEF w
<1>4. \A m \in 1 .. Len(w) : w[m] \in Name
  <2>1. DOMAIN w = 1 .. Len(w)
    BY <1>2
  <2> QED
    BY <1>3, <2>1, Zenon DEF ToSet
<1>5. w \in Seq(Name)
  <2>1. w = [m \in 1 .. Len(w) |-> w[m]] /\ Len(w) \in Nat
    BY <1>2
  <2>2. w \in [1 .. Len(w) -> Name]
    BY <1>4, <2>1
  <2> QED
    BY <2>1, <2>2
<1> QED
  BY <1>5 DEF w

\* A path has the name ".." exactly when it traverses.
LEMMA TraversesIs ==
    ASSUME NEW s \in Str
    PROVE  <<".", ".">> \in ToSet(words(s, {"/"})) <=> traverses(s)
<1> DEFINE dd == <<".", ".">>
<1>1. s \in Seq(Chars) /\ Len(s) \in Nat
  BY DEF Str
<1>2. "." # "/" /\ \A c : c \in {"/"} <=> c = "/"
  OBVIOUS
<1>3. Len(dd) = 2 /\ dd[1] = "." /\ dd[2] = "."
  OBVIOUS
<1> HIDE DEF dd
<1>4. ASSUME dd \in ToSet(words(s, {"/"})) PROVE traverses(s)
  <2>0. isWord(s, {"/"}, dd)
    BY <1>1, <1>4, WordsAreRuns, Zenon
  <2>1. PICK i \in 1 .. Len(s), j \in 1 .. Len(s) :
          /\ run(s, {"/"}, i, j)
          /\ j = Len(s) \/ s[j + 1] \in {"/"}
          /\ dd = SubSeq(s, i, j)
    BY <2>0, Zenon DEF isWord
  <2>2. j \in i .. Len(s) /\ (i = 1 \/ s[i - 1] = "/")
    BY <2>1 DEF run
  <2>3. Len(SubSeq(s, i, j)) = j - i + 1
    BY <1>1, <2>2
  <2>4. j - i + 1 = 2
    BY <1>3, <2>1, <2>3, Zenon
  <2>5. j = i + 1 /\ i \in 1 .. (Len(s) - 1) /\ j + 1 = i + 2
    BY <1>1, <2>2, <2>4
  <2>6. SubSeq(s, i, i + 1) = dd
    BY <2>1, <2>5, Zenon
  <2>7. (i > 1 => s[i - 1] = "/") /\ (i + 1 < Len(s) => s[i + 2] = "/")
    BY <1>1, <1>2, <2>1, <2>2, <2>5
  <2> QED
    BY <2>5, <2>6, <2>7, Zenon DEF traverses, dd
<1>5. ASSUME traverses(s) PROVE dd \in ToSet(words(s, {"/"}))
  <2>1. PICK i \in 1 .. (Len(s) - 1) :
          /\ SubSeq(s, i, i + 1) = dd
          /\ i > 1 => s[i - 1] = "/"
          /\ i + 1 < Len(s) => s[i + 2] = "/"
    BY <1>5, Zenon DEF traverses, dd
  <2>2. SubSeq(s, i, i + 1)[1] = s[i] /\ SubSeq(s, i, i + 1)[2] = s[i + 1]
    BY <1>1
  <2>3. s[i] = "." /\ s[i + 1] = "."
    BY <1>3, <2>1, <2>2, Zenon
  <2>4. i \in 1 .. Len(s) /\ i + 1 \in i .. Len(s) /\ i + 1 \in 1 .. Len(s)
    BY <1>1
  <2>5. run(s, {"/"}, i, i + 1)
    <3>1. \A m \in i .. (i + 1) : m = i \/ m = i + 1
      BY <1>1
    <3>2. \A m \in i .. (i + 1) : s[m] \notin {"/"}
      BY <1>2, <2>3, <3>1, Zenon
    <3>3. i = 1 \/ s[i - 1] \in {"/"}
      BY <1>1, <2>1
    <3> QED
      BY <2>4, <3>2, <3>3, Zenon DEF run
  <2>6. i + 1 = Len(s) \/ s[(i + 1) + 1] \in {"/"}
    <3>1. (i + 1) + 1 = i + 2 /\ (i + 1 = Len(s) \/ i + 1 < Len(s))
      BY <1>1
    <3> QED
      BY <2>1, <3>1
  <2> QED
    <3>1. isWord(s, {"/"}, dd)
      BY <2>1, <2>4, <2>5, <2>6 DEF isWord
    <3> QED
      BY <1>1, <3>1, WordsAreRuns, Zenon
<1> QED
  BY <1>4, <1>5 DEF dd

-----------------------------------------------------------------------------
(* Normal forms *)

LEMMA DiskText ==
    /\ Disk!Dot = <<".">> /\ Disk!DotDot = <<".", ".">> /\ Disk!Dot # Disk!DotDot
    /\ \A s : Disk!Last(s) = Last(s)
    /\ \A s : Disk!Front(s) = Front(s)
    /\ \A s : Disk!ToSet(s) = ToSet(s)
    /\ \A s, separators : Disk!words(s, separators) = words(s, separators)
    /\ \A s, i : Disk!from(s, i) = from(s, i)
<1>1. Disk!Dot = <<".">> /\ Disk!DotDot = <<".", ".">>
  BY DEF Disk!Dot, Disk!DotDot
<1>2. <<".">> # <<".", ".">>
  <2>1. Len(<<".">>) = 1 /\ Len(<<".", ".">>) = 2
    OBVIOUS
  <2> QED
    BY <2>1
<1>3. \A s, separators : Disk!words(s, separators) = words(s, separators)
  BY DEF Disk!words, words, Disk!extend, extend
<1>4. /\ \A s : Disk!Last(s) = Last(s)
      /\ \A s : Disk!Front(s) = Front(s)
      /\ \A s : Disk!ToSet(s) = ToSet(s)
      /\ \A s, i : Disk!from(s, i) = from(s, i)
  BY DEF Disk!Last, Last, Disk!Front, Front, Disk!ToSet, ToSet, Disk!from, from
<1> QED
  BY <1>1, <1>2, <1>3, <1>4, Zenon

normStep(absolute, done, name) ==
    IF name = Disk!Dot THEN done
    ELSE IF name # Disk!DotDot THEN Append(done, name)
    ELSE IF done # <<>> /\ Last(done) # Disk!DotDot THEN Front(done)
    ELSE IF absolute THEN done ELSE Append(done, name)

\* The turns of lexically_normal over the names w.
normTurns(absolute, w, f) ==
    /\ f[0] = <<>>
    /\ \A k \in 1 .. Len(w) : f[k] = normStep(absolute, f[k - 1], w[k])

normUpTo(absolute, w, f) ==
    f = [k \in 0 .. Len(w) |-> IF k = 0 THEN <<>> ELSE normStep(absolute, f[k - 1], w[k])]

LEMMA NormStepTyped ==
    ASSUME NEW S, NEW absolute, NEW done \in Seq(S), NEW name \in S
    PROVE  normStep(absolute, done, name) \in Seq(S)
<1>1. Append(done, name) \in Seq(S)
  OBVIOUS
<1>2. done # <<>> => Front(done) \in Seq(S)
  BY FrontAndLast
<1> QED
  BY <1>1, <1>2 DEF normStep

LEMMA NormExists ==
    ASSUME NEW S, NEW w \in Seq(S), NEW absolute
    PROVE  \E f : normUpTo(absolute, w, f)
<1> DEFINE n == Len(w)
           X == Seq(S)
           turn(d, k) == normStep(absolute, d, w[k])
           step == [k \in 1 .. n |-> [d \in X |-> turn(d, k)]]
<1>1. n \in Nat /\ \A k \in 1 .. n : w[k] \in S
  OBVIOUS
<1>2. <<>> \in X
  OBVIOUS
<1>3. ASSUME NEW d \in X, NEW k \in 1 .. n PROVE turn(d, k) \in X
  BY <1>1, NormStepTyped
<1>4. step \in [1 .. n -> [X -> X]]
  <2> HIDE DEF X, turn
  <2> QED
    BY <1>3
<1>5. PICK g \in [0 .. n -> X] : recursive(n, <<>>, step, g)
  <2> HIDE DEF n, X, step
  <2> QED
    BY <1>1, <1>2, <1>4, Recursion, Zenon
<1>6. g = [k \in 0 .. n |-> IF k = 0 THEN <<>> ELSE step[k][g[k - 1]]]
  BY <1>5, Zenon DEF recursive
<1>7. \A k \in 0 .. n : k # 0 => step[k][g[k - 1]] = turn(g[k - 1], k)
  <2> HIDE DEF n, X, turn
  <2> TAKE k \in 0 .. n
  <2>1. k # 0 => k \in 1 .. n /\ k - 1 \in 0 .. n
    BY <1>1
  <2>2. k # 0 => g[k - 1] \in X
    BY <2>1, <1>5
  <2> QED
    BY <2>1, <2>2
<1>8. g = [k \in 0 .. n |-> IF k = 0 THEN <<>> ELSE turn(g[k - 1], k)]
  <2> HIDE DEF step, n, turn, X
  <2> QED
    BY <1>6, <1>7
<1> QED
  BY <1>8, Zenon DEF normUpTo

path(absolute, names, slash) == [absolute |-> absolute, names |-> names, slash |-> slash]

\* A path that lexically_normal may leave with a slash behind it.
endsOpen(p) == p.slash \/ (p.names # <<>> /\ Last(p.names) \in {Disk!Dot, Disk!DotDot})

\* What lexically_normal makes of a path with the names that are left over.
normalForm(p, names) ==
    IF names = <<>> /\ ~p.absolute THEN path(FALSE, <<Disk!Dot>>, FALSE)
    ELSE path(p.absolute, names, names # <<>> /\ Last(names) # Disk!DotDot /\ endsOpen(p))

LEMMA NormalFormIs ==
    ASSUME NEW S, NEW p, p.names \in Seq(S)
    PROVE  \E f : /\ normTurns(p.absolute, p.names, f)
                  /\ Disk!lexically_normal(p) = normalForm(p, f[Len(p.names)])
<1> DEFINE n == Len(p.names)
           f == CHOOSE f : normUpTo(p.absolute, p.names, f)
<1>1. normUpTo(p.absolute, p.names, f)
  BY NormExists, Zenon
<1>2. Disk!lexically_normal(p) = normalForm(p, f[n])
  BY DEF Disk!lexically_normal, normalForm, path, endsOpen, normUpTo, normStep,
         Disk!Last, Last, Disk!Front, Front
<1> HIDE DEF f
<1>3. normTurns(p.absolute, p.names, f)
  <2>1. f = [k \in 0 .. n |-> IF k = 0 THEN <<>> ELSE normStep(p.absolute, f[k - 1], p.names[k])]
    BY <1>1, Zenon DEF normUpTo
  <2>2. n \in Nat
    OBVIOUS
  <2> HIDE DEF n
  <2>3. 0 \in 0 .. n /\ \A k \in 1 .. n : k \in 0 .. n /\ k # 0
    BY <2>2
  <2>4. f[0] = <<>> /\ \A k \in 1 .. n : f[k] = normStep(p.absolute, f[k - 1], p.names[k])
    BY <2>1, <2>3
  <2> QED
    BY <2>4 DEF normTurns, n
<1> QED
  BY <1>2, <1>3

\* Names in normal form: no ".", and ".." only in front and not from the root.
normal(absolute, w) ==
    \A i \in 1 .. Len(w) :
        /\ w[i] # Disk!Dot
        /\ w[i] = Disk!DotDot => ~absolute /\ \A j \in 1 .. (i - 1) : w[j] = Disk!DotDot

LEMMA NormStepNormal ==
    ASSUME NEW S, NEW absolute, NEW done \in Seq(S), NEW name \in S, normal(absolute, done)
    PROVE  normal(absolute, normStep(absolute, done, name))
<1>1. Len(done) \in Nat
  OBVIOUS
<1>2. CASE name = Disk!Dot
  BY <1>2 DEF normStep
<1>3. CASE name = Disk!DotDot /\ done # <<>> /\ Last(done) # Disk!DotDot
  <2>1. normStep(absolute, done, name) = Front(done)
    BY <1>3, DiskText DEF normStep
  <2>2. /\ Len(Front(done)) = Len(done) - 1
        /\ \A i \in 1 .. (Len(done) - 1) : Front(done)[i] = done[i]
    BY <1>3, FrontAndLast
  <2>3. \A i \in 1 .. (Len(done) - 1) : /\ i \in 1 .. Len(done)
                                        /\ \A j \in 1 .. (i - 1) : j \in 1 .. (Len(done) - 1)
    BY <1>1
  <2>4. normal(absolute, Front(done))
    BY <2>2, <2>3, Zenon DEF normal
  <2> QED
    BY <2>1, <2>4
<1>4. CASE name = Disk!DotDot /\ ~(done # <<>> /\ Last(done) # Disk!DotDot) /\ absolute
  BY <1>4, DiskText DEF normStep
<1> DEFINE v == Append(done, name)
<1>5. /\ Len(v) = Len(done) + 1 /\ v[Len(done) + 1] = name
      /\ \A i \in 1 .. Len(done) : v[i] = done[i]
  BY AppendProperties
<1>6. \A i \in 1 .. (Len(done) + 1) :
        /\ i \in 1 .. Len(done) \/ i = Len(done) + 1
        /\ i \in 1 .. Len(done) => \A j \in 1 .. (i - 1) : j \in 1 .. Len(done)
  BY <1>1
<1> HIDE DEF v
<1>7. CASE name # Disk!Dot /\ name # Disk!DotDot
  <2>1. normStep(absolute, done, name) = v
    BY <1>7 DEF normStep, v
  <2>2. normal(absolute, v)
    BY <1>5, <1>6, <1>7, Zenon DEF normal
  <2> QED
    BY <2>1, <2>2
<1>8. CASE name = Disk!DotDot /\ ~(done # <<>> /\ Last(done) # Disk!DotDot) /\ ~absolute
  <2>1. normStep(absolute, done, name) = v
    BY <1>8, DiskText, Zenon DEF normStep, v
  <2>2. \A j \in 1 .. Len(done) : done[j] = Disk!DotDot
    <3> TAKE j \in 1 .. Len(done)
    <3>1. done # <<>> /\ Len(done) \in 1 .. Len(done)
      BY <1>1
    <3>2. done[Len(done)] = Disk!DotDot
      BY <1>8, <3>1 DEF Last
    <3>3. j = Len(done) \/ j \in 1 .. (Len(done) - 1)
      BY <1>1
    <3> QED
      BY <3>1, <3>2, <3>3, Zenon DEF normal
  <2>3. \A j \in 1 .. ((Len(done) + 1) - 1) : j \in 1 .. Len(done)
    BY <1>1
  <2>4. normal(absolute, v)
    BY <1>5, <1>6, <1>8, <2>2, <2>3, DiskText, Zenon DEF normal
  <2> QED
    BY <2>1, <2>4
<1> QED
  BY <1>2, <1>3, <1>4, <1>7, <1>8

LEMMA NormTurnsNormal ==
    ASSUME NEW S, NEW w \in Seq(S), NEW absolute, NEW f, normTurns(absolute, w, f)
    PROVE  \A k \in 0 .. Len(w) : f[k] \in Seq(S) /\ normal(absolute, f[k])
<1> DEFINE n == Len(w)
           T == {k \in 0 .. n : f[k] \in Seq(S) /\ normal(absolute, f[k])}
<1>1. n \in Nat /\ \A k \in 1 .. n : w[k] \in S
  OBVIOUS
<1>2. f[0] = <<>> /\ \A k \in 1 .. n : f[k] = normStep(absolute, f[k - 1], w[k])
  BY DEF normTurns
<1> HIDE DEF n
<1>3. 0 \in T
  <2>1. normal(absolute, <<>>)
    BY DEF normal
  <2>2. 0 \in 0 .. n /\ <<>> \in Seq(S)
    BY <1>1
  <2> QED
    BY <1>2, <2>1, <2>2, Zenon
<1>4. \A k \in 1 .. n : k - 1 \in T => k \in T
  <2> SUFFICES ASSUME NEW k \in 1 .. n, k - 1 \in T PROVE k \in T
    OBVIOUS
  <2>1. k \in 0 .. n /\ w[k] \in S
    BY <1>1
  <2>2. f[k - 1] \in Seq(S) /\ normal(absolute, f[k - 1])
    OBVIOUS
  <2>3. normStep(absolute, f[k - 1], w[k]) \in Seq(S)
    BY <2>1, <2>2, NormStepTyped
  <2>4. normal(absolute, normStep(absolute, f[k - 1], w[k]))
    BY <2>1, <2>2, NormStepNormal
  <2> QED
    BY <1>2, <2>1, <2>3, <2>4, Zenon
<1> HIDE DEF T
<1>5. \A k \in 0 .. n : k \in T
  BY <1>1, <1>3, <1>4, Induct, Zenon
<1> QED
  BY <1>5 DEF T, n

LEMMA PrefixGrows ==
    ASSUME NEW S, NEW w \in Seq(S), NEW k \in 1 .. Len(w)
    PROVE  /\ SubSeq(w, 1, k - 1) \in Seq(S) /\ Len(SubSeq(w, 1, k - 1)) = k - 1
           /\ \A i \in 1 .. (k - 1) : SubSeq(w, 1, k - 1)[i] = w[i]
           /\ SubSeq(w, 1, k) = Append(SubSeq(w, 1, k - 1), w[k])
<1>1. Len(w) \in Nat
  OBVIOUS
<1>2. /\ SubSeq(w, 1, k - 1) \in Seq(S) /\ Len(SubSeq(w, 1, k - 1)) = k - 1
      /\ \A i \in 1 .. (k - 1) : SubSeq(w, 1, k - 1)[i] = w[i]
  BY <1>1
<1> DEFINE p == SubSeq(w, 1, k - 1)
           q == SubSeq(w, 1, k)
           r == Append(p, w[k])
<1>3. q \in Seq(S) /\ Len(q) = k /\ \A i \in 1 .. k : q[i] = w[i]
  BY <1>1
<1>4. r \in Seq(S) /\ Len(r) = k /\ r[k] = w[k] /\ \A i \in 1 .. (k - 1) : r[i] = w[i]
  <2> HIDE DEF p
  <2> QED
    BY <1>2 DEF p
<1>5. q = r
  <2> HIDE DEF q, r
  <2>1. \A i \in 1 .. k : i = k \/ i \in 1 .. (k - 1)
    BY <1>1
  <2>2. \A i \in 1 .. k : q[i] = r[i]
    BY <1>3, <1>4, <2>1, Zenon
  <2> QED
    BY <1>3, <1>4, <2>2
<1> QED
  BY <1>2, <1>5

\* Names in normal form are left as they are.
LEMMA NormalFixed ==
    ASSUME NEW S, NEW w \in Seq(S), NEW absolute, NEW f, normTurns(absolute, w, f),
           normal(absolute, w)
    PROVE  f[Len(w)] = w
<1> DEFINE n == Len(w)
           T == {k \in 0 .. n : f[k] = SubSeq(w, 1, k)}
<1>1. n \in Nat
  OBVIOUS
<1>2. f[0] = <<>> /\ \A k \in 1 .. n : f[k] = normStep(absolute, f[k - 1], w[k])
  BY DEF normTurns
<1>3. 0 \in T
  <2>1. 0 \in 0 .. n /\ SubSeq(w, 1, 0) = <<>>
    BY <1>1
  <2> QED
    BY <1>2, <2>1, Zenon
<1>4. \A k \in 1 .. n : k - 1 \in T => k \in T
  <2> SUFFICES ASSUME NEW k \in 1 .. n, k - 1 \in T PROVE k \in T
    OBVIOUS
  <2> DEFINE p == SubSeq(w, 1, k - 1)
  <2>1. /\ p \in Seq(S) /\ Len(p) = k - 1
        /\ \A i \in 1 .. (k - 1) : p[i] = w[i]
        /\ SubSeq(w, 1, k) = Append(p, w[k])
    BY PrefixGrows
  <2>2. f[k] = normStep(absolute, p, w[k])
    BY <1>2
  <2>3. /\ w[k] # Disk!Dot
        /\ w[k] = Disk!DotDot => ~absolute /\ \A j \in 1 .. (k - 1) : w[j] = Disk!DotDot
    BY DEF normal
  <2> HIDE DEF p
  <2>4. w[k] = Disk!DotDot => p = <<>> \/ Last(p) = Disk!DotDot
    <3>1. Last(p) = p[k - 1]
      BY <2>1 DEF Last
    <3>2. p # <<>> => k - 1 \in 1 .. (k - 1)
      BY <1>1, <2>1
    <3> QED
      BY <2>1, <2>3, <3>1, <3>2, Zenon
  <2>5. normStep(absolute, p, w[k]) = Append(p, w[k])
    BY <2>3, <2>4, Zenon DEF normStep
  <2>6. k \in 0 .. n
    BY <1>1
  <2> QED
    BY <2>1, <2>2, <2>5, <2>6, Zenon
<1> HIDE DEF T
<1>5. n \in T
  <2> HIDE DEF n
  <2>1. \A k \in 0 .. n : k \in T
    BY <1>1, <1>3, <1>4, Induct, Zenon
  <2> QED
    BY <1>1, <2>1
<1>6. SubSeq(w, 1, n) = w
  OBVIOUS
<1> QED
  BY <1>5, <1>6 DEF T

withoutTurn(done, x, name) == IF x = name THEN done ELSE Append(done, x)

withoutTurns(w, name, f) ==
    /\ f[0] = <<>>
    /\ \A k \in 1 .. Len(w) : f[k] = withoutTurn(f[k - 1], w[k], name)

withoutUpTo(w, name, f) ==
    f = [k \in 0 .. Len(w) |-> IF k = 0 THEN <<>> ELSE withoutTurn(f[k - 1], w[k], name)]

LEMMA WithoutExists ==
    ASSUME NEW S, NEW w \in Seq(S), NEW name
    PROVE  \E f : withoutUpTo(w, name, f)
<1> DEFINE n == Len(w)
           X == Seq(S)
           turn(d, k) == withoutTurn(d, w[k], name)
           step == [k \in 1 .. n |-> [d \in X |-> turn(d, k)]]
<1>1. n \in Nat /\ \A k \in 1 .. n : w[k] \in S
  OBVIOUS
<1>2. <<>> \in X
  OBVIOUS
<1>3. ASSUME NEW d \in X, NEW k \in 1 .. n PROVE turn(d, k) \in X
  BY <1>1 DEF withoutTurn
<1>4. step \in [1 .. n -> [X -> X]]
  <2> HIDE DEF X, turn
  <2> QED
    BY <1>3
<1>5. PICK g \in [0 .. n -> X] : recursive(n, <<>>, step, g)
  <2> HIDE DEF n, X, step
  <2> QED
    BY <1>1, <1>2, <1>4, Recursion, Zenon
<1>6. g = [k \in 0 .. n |-> IF k = 0 THEN <<>> ELSE step[k][g[k - 1]]]
  BY <1>5, Zenon DEF recursive
<1>7. \A k \in 0 .. n : k # 0 => step[k][g[k - 1]] = turn(g[k - 1], k)
  <2> HIDE DEF n, X, turn
  <2> TAKE k \in 0 .. n
  <2>1. k # 0 => k \in 1 .. n /\ k - 1 \in 0 .. n
    BY <1>1
  <2>2. k # 0 => g[k - 1] \in X
    BY <2>1, <1>5
  <2> QED
    BY <2>1, <2>2
<1>8. g = [k \in 0 .. n |-> IF k = 0 THEN <<>> ELSE turn(g[k - 1], k)]
  <2> HIDE DEF step, n, turn, X
  <2> QED
    BY <1>6, <1>7
<1> QED
  BY <1>8, Zenon DEF withoutUpTo

LEMMA WithoutIs ==
    ASSUME NEW S, NEW w \in Seq(S), NEW name
    PROVE  \E f : withoutTurns(w, name, f) /\ without(w, name) = f[Len(w)]
<1> DEFINE n == Len(w)
           f == CHOOSE f : withoutUpTo(w, name, f)
<1>1. withoutUpTo(w, name, f)
  BY WithoutExists, Zenon
<1>2. without(w, name) = f[n]
  BY DEF without, withoutUpTo, withoutTurn
<1> HIDE DEF f
<1>3. withoutTurns(w, name, f)
  <2>1. f = [k \in 0 .. n |-> IF k = 0 THEN <<>> ELSE withoutTurn(f[k - 1], w[k], name)]
    BY <1>1, Zenon DEF withoutUpTo
  <2>2. n \in Nat
    OBVIOUS
  <2> HIDE DEF n
  <2>3. 0 \in 0 .. n /\ \A k \in 1 .. n : k \in 0 .. n /\ k # 0
    BY <2>2
  <2>4. f[0] = <<>> /\ \A k \in 1 .. n : f[k] = withoutTurn(f[k - 1], w[k], name)
    BY <2>1, <2>3
  <2> QED
    BY <2>4 DEF withoutTurns, n
<1> QED
  BY <1>2, <1>3

LEMMA WithoutTyped ==
    ASSUME NEW S, NEW w \in Seq(S), NEW name, NEW f, withoutTurns(w, name, f)
    PROVE  \A k \in 0 .. Len(w) : f[k] \in Seq(S \ {name})
<1> DEFINE n == Len(w)
           T == {k \in 0 .. n : f[k] \in Seq(S \ {name})}
<1>1. n \in Nat /\ \A k \in 1 .. n : w[k] \in S
  OBVIOUS
<1>2. f[0] = <<>> /\ \A k \in 1 .. n : f[k] = withoutTurn(f[k - 1], w[k], name)
  BY DEF withoutTurns
<1> HIDE DEF n
<1>3. 0 \in T
  <2>1. 0 \in 0 .. n /\ <<>> \in Seq(S \ {name})
    BY <1>1
  <2> QED
    BY <1>2, <2>1, Zenon
<1>4. \A k \in 1 .. n : k - 1 \in T => k \in T
  <2> SUFFICES ASSUME NEW k \in 1 .. n, k - 1 \in T PROVE k \in T
    OBVIOUS
  <2>1. k \in 0 .. n /\ w[k] \in S
    BY <1>1
  <2>2. f[k - 1] \in Seq(S \ {name})
    OBVIOUS
  <2>3. withoutTurn(f[k - 1], w[k], name) \in Seq(S \ {name})
    <3>1. w[k] # name => w[k] \in S \ {name}
      BY <2>1
    <3> QED
      BY <2>2, <3>1, AppendProperties DEF withoutTurn
  <2> QED
    BY <1>2, <2>1, <2>3, Zenon
<1> HIDE DEF T
<1>5. \A k \in 0 .. n : k \in T
  BY <1>1, <1>3, <1>4, Induct, Zenon
<1> QED
  BY <1>5 DEF T, n

\* Where there is no name to be left out, nothing is.
LEMMA WithoutFixed ==
    ASSUME NEW S, NEW w \in Seq(S), NEW name, name \notin S
    PROVE  without(w, name) = w
<1>0. PICK f : withoutTurns(w, name, f) /\ without(w, name) = f[Len(w)]
  BY WithoutIs
<1> DEFINE n == Len(w)
           T == {k \in 0 .. n : f[k] = SubSeq(w, 1, k)}
<1>1. n \in Nat /\ \A k \in 1 .. n : w[k] # name
  OBVIOUS
<1>2. f[0] = <<>> /\ \A k \in 1 .. n : f[k] = withoutTurn(f[k - 1], w[k], name)
  BY <1>0 DEF withoutTurns
<1>3. 0 \in T
  <2>1. 0 \in 0 .. n /\ SubSeq(w, 1, 0) = <<>>
    BY <1>1
  <2> QED
    BY <1>2, <2>1, Zenon
<1>4. \A k \in 1 .. n : k - 1 \in T => k \in T
  <2> SUFFICES ASSUME NEW k \in 1 .. n, k - 1 \in T PROVE k \in T
    OBVIOUS
  <2>1. SubSeq(w, 1, k) = Append(SubSeq(w, 1, k - 1), w[k])
    BY PrefixGrows
  <2>2. f[k] = Append(SubSeq(w, 1, k - 1), w[k])
    BY <1>1, <1>2 DEF withoutTurn
  <2>3. k \in 0 .. n
    BY <1>1
  <2> QED
    BY <2>1, <2>2, <2>3, Zenon
<1> HIDE DEF T
<1>5. n \in T
  <2> HIDE DEF n
  <2>1. \A k \in 0 .. n : k \in T
    BY <1>1, <1>3, <1>4, Induct, Zenon
  <2> QED
    BY <1>1, <2>1
<1>6. SubSeq(w, 1, n) = w
  OBVIOUS
<1> QED
  BY <1>0, <1>5, <1>6 DEF T

behind(a, b, x) == Append(a \o b, x) = a \o Append(b, x)

LEMMA AppendConcat ==
    ASSUME NEW S, NEW a \in Seq(S), NEW b \in Seq(S), NEW x \in S
    PROVE  behind(a, b, x)
<1>1. a \o b \in Seq(S) /\ <<x>> \in Seq(S)
  OBVIOUS
<1>2. Append(a \o b, x) = (a \o b) \o <<x>> /\ Append(b, x) = b \o <<x>>
  BY <1>1, AppendIsConcat
<1> QED
  BY <1>1, <1>2, ConcatAssociative DEF behind

\* Behind names w, names r without ".." are kept, but for the names ".".
LEMMA NormConcat ==
    ASSUME NEW S, NEW w \in Seq(S), NEW r \in Seq(S), NEW absolute, NEW g,
           normTurns(absolute, w \o r, g), Disk!DotDot \notin ToSet(r)
    PROVE  /\ normTurns(absolute, w, g)
           /\ g[Len(w)] \in Seq(S)
           /\ g[Len(w \o r)] = g[Len(w)] \o without(r, Disk!Dot)
<1>0. PICK h : withoutTurns(r, Disk!Dot, h) /\ without(r, Disk!Dot) = h[Len(r)]
  BY WithoutIs
<1> DEFINE m == Len(w)
           n == Len(r)
           v == w \o r
           T == {k \in 0 .. n : g[m + k] = g[m] \o h[k]}
<1>1. m \in Nat /\ n \in Nat /\ Len(v) = m + n /\ DOMAIN r = 1 .. n
  OBVIOUS
<1>2. (\A k \in 1 .. m : v[k] = w[k]) /\ \A k \in 1 .. n : v[m + k] = r[k]
  OBVIOUS
<1>3. g[0] = <<>> /\ \A k \in 1 .. (m + n) : g[k] = normStep(absolute, g[k - 1], v[k])
  BY <1>1 DEF normTurns
<1>4. h[0] = <<>> /\ \A k \in 1 .. n : h[k] = withoutTurn(h[k - 1], r[k], Disk!Dot)
  BY <1>0 DEF withoutTurns
<1>5. \A k \in 0 .. n : h[k] \in Seq(S)
  <2>1. \A k \in 0 .. n : h[k] \in Seq(S \ {Disk!Dot})
    BY <1>0, WithoutTyped
  <2>2. \A x \in Seq(S \ {Disk!Dot}) : x \in Seq(S)
    OBVIOUS
  <2> QED
    BY <2>1, <2>2, Zenon
<1>6. normTurns(absolute, w, g)
  <2> HIDE DEF v
  <2>1. \A k \in 1 .. m : k \in 1 .. (m + n)
    BY <1>1
  <2> QED
    BY <1>2, <1>3, <2>1, Zenon DEF normTurns
<1>7. g[m] \in Seq(S)
  <2>1. \A k \in 0 .. m : g[k] \in Seq(S)
    BY <1>6, NormTurnsNormal
  <2>2. m \in 0 .. m
    BY <1>1
  <2> QED
    BY <2>1, <2>2, Zenon
<1>8. 0 \in T
  <2>1. 0 \in 0 .. n /\ m + 0 = m
    BY <1>1
  <2>2. g[m] \o <<>> = g[m]
    BY <1>7
  <2> QED
    BY <1>4, <2>1, <2>2, Zenon
<1>9. \A k \in 1 .. n : k - 1 \in T => k \in T
  <2> SUFFICES ASSUME NEW k \in 1 .. n, k - 1 \in T PROVE k \in T
    OBVIOUS
  <2> HIDE DEF v, n, m
  <2>1. /\ m + k \in 1 .. (m + n) /\ (m + k) - 1 = m + (k - 1)
        /\ k \in 0 .. n /\ k - 1 \in 0 .. n
    BY <1>1
  <2>2. r[k] # Disk!DotDot /\ r[k] \in S
    <3>1. r[k] # Disk!DotDot
      BY <1>1, Zenon DEF ToSet
    <3>2. r[k] \in S
      BY DEF n
    <3> QED
      BY <3>1, <3>2
  <2>3. g[m + k] = normStep(absolute, g[m] \o h[k - 1], r[k])
    BY <1>2, <1>3, <2>1, Zenon
  <2>4. r[k] # Disk!Dot => g[m + k] = Append(g[m] \o h[k - 1], r[k])
    BY <2>2, <2>3, Zenon DEF normStep
  <2>5. r[k] = Disk!Dot => g[m + k] = g[m] \o h[k - 1]
    BY <2>3, Zenon DEF normStep
  <2>6. h[k] = IF r[k] = Disk!Dot THEN h[k - 1] ELSE Append(h[k - 1], r[k])
    BY <1>4, Zenon DEF withoutTurn
  <2>7. Append(g[m] \o h[k - 1], r[k]) = g[m] \o Append(h[k - 1], r[k])
    <3>1. h[k - 1] \in Seq(S)
      BY <1>5, <2>1, Zenon
    <3> QED
      <4>1. behind(g[m], h[k - 1], r[k])
        BY <1>7, <2>2, <3>1, AppendConcat, Zenon
      <4> QED
        BY <4>1, Zenon DEF behind
  <2> QED
    BY <2>1, <2>4, <2>5, <2>6, <2>7, Zenon
<1> HIDE DEF T
<1>10. n \in T
  <2> HIDE DEF n
  <2>1. \A k \in 0 .. n : k \in T
    BY <1>1, <1>8, <1>9, Induct, Zenon
  <2> QED
    BY <1>1, <2>1
<1>11. g[m + n] = g[m] \o h[n]
  BY <1>10 DEF T
<1> QED
  BY <1>0, <1>1, <1>6, <1>7, <1>11

\* The words of a text turn by turn, of the text up to one more character.
LEMMA WordsTurns ==
    ASSUME NEW S, NEW s \in Seq(S), NEW separators
    PROVE  /\ words(SubSeq(s, 1, 0), separators) = <<>>
           /\ words(SubSeq(s, 1, Len(s)), separators) = words(s, separators)
           /\ \A k \in 1 .. Len(s) :
                  words(SubSeq(s, 1, k), separators)
                    = wordsTurn(s, separators, words(SubSeq(s, 1, k - 1), separators), k)
<1>0. PICK f : wordsMade(S, s, separators, f)
  BY WordsAre, Zenon
<1>1. /\ words(s, separators) = f[Len(s)] /\ f[0] = <<>>
      /\ \A k \in 1 .. Len(s) : f[k] = wordsTurn(s, separators, f[k - 1], k)
  BY <1>0, Zenon DEF wordsMade
<1> DEFINE n == Len(s)
<1>2. n \in Nat /\ SubSeq(s, 1, n) = s
  OBVIOUS
<1>3. ASSUME NEW k \in 0 .. n PROVE words(SubSeq(s, 1, k), separators) = f[k]
  <2> DEFINE t == SubSeq(s, 1, k)
  <2>1. t \in Seq(S) /\ Len(t) = k /\ \A i \in 1 .. k : t[i] = s[i]
    OBVIOUS
  <2> HIDE DEF t
  <2>2. PICK g : /\ words(t, separators) = g[k] /\ g[0] = <<>>
                 /\ \A i \in 1 .. k : g[i] = wordsTurn(t, separators, g[i - 1], i)
    <3>1. PICK g : wordsMade(S, t, separators, g)
      BY <2>1, WordsAre, Zenon
    <3> QED
      BY <2>1, <3>1, Zenon DEF wordsMade
  <2> DEFINE U == {i \in 0 .. k : g[i] = f[i]}
  <2>3. 0 \in U
    BY <1>1, <2>2
  <2>4. \A i \in 1 .. k : i - 1 \in U => i \in U
    <3> SUFFICES ASSUME NEW i \in 1 .. k, i - 1 \in U PROVE i \in U
      OBVIOUS
    <3>1. i \in 0 .. k /\ i \in 1 .. n /\ (i # 1 => i - 1 \in 1 .. k)
      BY <1>2
    <3>2. wordsTurn(t, separators, g[i - 1], i) = wordsTurn(s, separators, f[i - 1], i)
      <4>1. g[i - 1] = f[i - 1] /\ t[i] = s[i] /\ (i # 1 => t[i - 1] = s[i - 1])
        BY <2>1, <3>1, Zenon
      <4> QED
        BY <4>1, Zenon DEF wordsTurn
    <3>3. g[i] = f[i]
      BY <1>1, <2>2, <3>1, <3>2, Zenon DEF n
    <3> QED
      BY <3>1, <3>3, Zenon
  <2>5. k \in Nat /\ k \in 0 .. k
    BY <1>2
  <2> HIDE DEF U
  <2>6. \A i \in 0 .. k : i \in U
    BY <2>3, <2>4, <2>5, Induct, Zenon
  <2>7. g[k] = f[k]
    BY <2>5, <2>6 DEF U
  <2> QED
    BY <2>2, <2>7 DEF t
<1>4. \A k \in 1 .. n : k \in 0 .. n /\ k - 1 \in 0 .. n
  BY <1>2
<1>5. 0 \in 0 .. n
  BY <1>2
<1>6. words(SubSeq(s, 1, 0), separators) = <<>>
  BY <1>1, <1>3, <1>5, Zenon
<1>7. \A k \in 1 .. n :
        words(SubSeq(s, 1, k), separators)
          = wordsTurn(s, separators, words(SubSeq(s, 1, k - 1), separators), k)
  BY <1>1, <1>3, <1>4, Zenon
<1> QED
  BY <1>2, <1>6, <1>7

LEMMA ExtendLast ==
    ASSUME NEW S, NEW p \in Seq(Seq(S)), NEW x \in Seq(S), NEW c \in S
    PROVE  extend(Append(p, x), c) = Append(p, Append(x, c))
<1> DEFINE q == Append(p, x)
           r == Append(p, Append(x, c))
           n == Len(p) + 1
<1>1. /\ q \in Seq(Seq(S)) /\ Len(q) = n /\ q[n] = x
      /\ \A i \in 1 .. Len(p) : q[i] = p[i]
  BY AppendProperties
<1>2. Append(x, c) \in Seq(S)
  OBVIOUS
<1>3. /\ r \in Seq(Seq(S)) /\ Len(r) = n /\ r[n] = Append(x, c)
      /\ \A i \in 1 .. Len(p) : r[i] = p[i]
  BY <1>2, AppendProperties
<1>4. Len(p) \in Nat /\ \A i \in 1 .. n : i \in 1 .. Len(p) \/ i = n
  OBVIOUS
<1> HIDE DEF q, r
<1>5. DOMAIN q = 1 .. n /\ DOMAIN r = 1 .. n /\ n \in 1 .. n
  BY <1>1, <1>3, <1>4
<1> DEFINE e == extend(q, c)
<1>6. e = [i \in 1 .. n |-> IF i = n THEN Append(q[n], c) ELSE q[i]]
  BY <1>1, <1>5 DEF extend
<1> HIDE DEF e
<1>7. \A i \in 1 .. n : i # n => i \in 1 .. Len(p)
  BY <1>4
<1> HIDE DEF n
<1>8. \A i \in 1 .. n : e[i] = r[i]
  BY <1>1, <1>3, <1>6, <1>7
<1>9. e = r
  <2>1. r = [i \in 1 .. n |-> r[i]]
    BY <1>3, <1>5
  <2>2. e = [i \in 1 .. n |-> e[i]]
    BY <1>6
  <2> QED
    BY <1>8, <2>1, <2>2
<1> QED
  BY <1>9 DEF e, q, r

LEMMA SubSeqGrows ==
    ASSUME NEW S, NEW s \in Seq(S), NEW a \in Nat, NEW k \in Nat, a >= 1, a <= k, k <= Len(s)
    PROVE  SubSeq(s, a, k) = Append(SubSeq(s, a, k - 1), s[k])
<1> DEFINE p == SubSeq(s, a, k - 1)
           q == SubSeq(s, a, k)
           n == k - a
<1>1. /\ n \in Nat /\ k = a + n /\ Len(s) \in Nat /\ s[k] \in S
      /\ \A i \in 1 .. n : a + i - 1 \in 1 .. Len(s)
  OBVIOUS
<1>2. p \in Seq(S) /\ Len(p) = n /\ \A i \in 1 .. n : p[i] = s[a + i - 1]
  BY <1>1
<1>3. q \in Seq(S) /\ Len(q) = n + 1 /\ \A i \in 1 .. (n + 1) : q[i] = s[a + i - 1]
  BY <1>1
<1> HIDE DEF p, q, n
<1> DEFINE r == Append(p, s[k])
<1>4. /\ r \in Seq(S) /\ Len(r) = n + 1 /\ r[n + 1] = s[k]
      /\ \A i \in 1 .. n : r[i] = p[i]
  BY <1>1, <1>2, AppendProperties
<1> HIDE DEF r
<1>5. \A i \in 1 .. (n + 1) : i = n + 1 \/ i \in 1 .. n
  BY <1>1
<1>6. n + 1 \in 1 .. (n + 1) /\ a + (n + 1) - 1 = k
  BY <1>1
<1>7. \A i \in 1 .. (n + 1) : q[i] = r[i]
  BY <1>2, <1>3, <1>4, <1>5, <1>6, Zenon
<1>8. q = r
  BY <1>3, <1>4, <1>7
<1> QED
  BY <1>8 DEF p, q, r

LEMMA SubSeqOne ==
    ASSUME NEW S, NEW s \in Seq(S), NEW k \in 1 .. Len(s)
    PROVE  SubSeq(s, k, k) = <<s[k]>>
<1> DEFINE p == SubSeq(s, k, k)
           q == <<s[k]>>
<1>1. Len(s) \in Nat /\ s[k] \in S
  OBVIOUS
<1>2. p \in Seq(S) /\ Len(p) = 1 /\ p[1] = s[k]
  BY <1>1
<1>3. q \in Seq(S) /\ Len(q) = 1 /\ q[1] = s[k]
  BY <1>1
<1> HIDE DEF p, q
<1>4. p = q
  BY <1>2, <1>3
<1> QED
  BY <1>4 DEF p, q

\* Behind m the text is a name.
ends(s, separators, m) ==
    /\ m = 0 \/ s[m] \in separators
    /\ \A i \in (m + 1) .. Len(s) : s[i] \notin separators

\* A name at the end of a text is its last word.
LEMMA LastWord ==
    ASSUME NEW S, NEW s \in Seq(S), NEW separators, NEW m \in Nat, m < Len(s),
           ends(s, separators, m)
    PROVE  words(s, separators)
             = Append(words(SubSeq(s, 1, m), separators), SubSeq(s, m + 1, Len(s)))
<1> DEFINE n == Len(s) - m
           p == words(SubSeq(s, 1, m), separators)
           w(k) == words(SubSeq(s, 1, k), separators)
           T == {j \in 0 .. n : j # 0 => w(m + j) = Append(p, SubSeq(s, m + 1, m + j))}
<1> HIDE DEF p, w, T
<1>1. /\ Len(s) \in Nat /\ m \in Nat /\ n \in Nat /\ n # 0 /\ m + n = Len(s)
      /\ \A k \in 1 .. Len(s) : s[k] \in S
  OBVIOUS
<1> HIDE DEF n
<1>2. p \in Seq(Seq(S))
  <2>1. SubSeq(s, 1, m) \in Seq(S)
    BY <1>1
  <2> QED
    BY <2>1, WordsAreRuns DEF p
<1>3. /\ w(0) = <<>> /\ w(Len(s)) = words(s, separators)
      /\ \A k \in 1 .. Len(s) : w(k) = wordsTurn(s, separators, w(k - 1), k)
  BY WordsTurns DEF w
<1>4. 0 \in T
  <2>1. 0 \in 0 .. n
    BY <1>1
  <2> QED
    BY <2>1, Zenon DEF T
<1>5. \A j \in 1 .. n : j - 1 \in T => j \in T
  <2> SUFFICES ASSUME NEW j \in 1 .. n, j - 1 \in T PROVE j \in T
    OBVIOUS
  <2>1. /\ j \in 0 .. n /\ m + j \in 1 .. Len(s) /\ m + j \in (m + 1) .. Len(s)
        /\ (m + j) - 1 = m + (j - 1)
    BY <1>1
  <2>2. s[m + j] \notin separators /\ s[m + j] \in S
    BY <1>1, <2>1 DEF ends
  <2>3. w(m + j) = wordsTurn(s, separators, w(m + (j - 1)), m + j)
    <3> HIDE DEF w
    <3> QED
      BY <1>3, <2>1
  <2>4. CASE j = 1
    <3>1. m + j = m + 1 /\ m + (j - 1) = m /\ (m + j) - 1 = m /\ (m = 0 <=> m + j = 1)
      BY <1>1, <2>4
    <3>2. SubSeq(s, m + 1, m + j) = <<s[m + j]>>
      BY <2>1, <3>1, SubSeqOne, Zenon
    <3>3. w(m + (j - 1)) = p
      BY <3>1, Zenon DEF p, w
    <3>4. wordsTurn(s, separators, p, m + j) = Append(p, <<s[m + j]>>)
      <4>1. CASE m = 0
        <5>1. p = <<>>
          BY <1>3, <4>1, Zenon DEF p, w
        <5>2. wordsTurn(s, separators, p, m + j) = << <<s[m + j]>> >>
          BY <2>2, <3>1, <4>1, Zenon DEF wordsTurn
        <5>3. \A y : Append(<<>>, y) = <<y>>
          OBVIOUS
        <5> QED
          BY <5>1, <5>2, <5>3, Zenon
      <4>2. CASE m # 0
        <5> HIDE DEF p
        <5> QED
          BY <2>2, <3>1, <4>2, Zenon DEF wordsTurn, ends
      <4> QED
        BY <4>1, <4>2
    <3> HIDE DEF p, w
    <3> QED
      BY <2>1, <2>3, <3>2, <3>3, <3>4, Zenon DEF T
  <2>5. CASE j # 1
    <3> DEFINE x == SubSeq(s, m + 1, m + (j - 1))
    <3>1. /\ j - 1 # 0 /\ m + (j - 1) \in (m + 1) .. Len(s) /\ m + j # 1
          /\ (m + j) - 1 \in (m + 1) .. Len(s)
      BY <1>1, <2>1, <2>5
    <3>2. w(m + (j - 1)) = Append(p, x)
      <4> HIDE DEF w, p
      <4> QED
        BY <3>1, Zenon DEF T
    <3>3. s[(m + j) - 1] \notin separators
      BY <3>1, Zenon DEF ends
    <3>4. w(m + j) = extend(Append(p, x), s[m + j])
      <4> HIDE DEF w, p, x
      <4> QED
        BY <2>2, <2>3, <3>1, <3>2, <3>3, Zenon DEF wordsTurn
    <3>5. x \in Seq(S)
      BY <1>1, <3>1
    <3>6. extend(Append(p, x), s[m + j]) = Append(p, Append(x, s[m + j]))
      <4> HIDE DEF p, x
      <4>1. ASSUME NEW q \in Seq(Seq(S)), NEW y \in Seq(S), NEW c \in S
            PROVE  extend(Append(q, y), c) = Append(q, Append(y, c))
        BY ExtendLast
      <4> QED
        BY <1>2, <2>2, <3>5, <4>1, Zenon
    <3>7. Append(x, s[m + j]) = SubSeq(s, m + 1, m + j)
      <4>1. /\ m + 1 \in Nat /\ m + j \in Nat /\ m + 1 >= 1 /\ m + 1 <= m + j
            /\ m + j <= Len(s)
        BY <1>1, <2>1
      <4> HIDE DEF n
      <4>2. SubSeq(s, m + 1, m + j) = Append(SubSeq(s, m + 1, (m + j) - 1), s[m + j])
        BY <4>1, SubSeqGrows, Zenon
      <4> QED
        BY <2>1, <4>2, Zenon
    <3> HIDE DEF p, w, x
    <3> QED
      BY <2>1, <3>4, <3>6, <3>7, Zenon DEF T
  <2> QED
    BY <2>4, <2>5
<1> HIDE DEF T
<1>6. n \in T
  <2> HIDE DEF n
  <2>1. \A k \in 0 .. n : k \in T
    BY <1>1, <1>4, <1>5, Induct, Zenon
  <2> QED
    BY <1>1, <2>1
<1>7. w(m + n) = Append(p, SubSeq(s, m + 1, m + n))
  <2> HIDE DEF w, p, n
  <2> QED
    BY <1>1, <1>6, Zenon DEF T
<1> HIDE DEF w, n
<1> QED
  BY <1>1, <1>3, <1>7, Zenon DEF p

-----------------------------------------------------------------------------
(* Keys *)

\* s is a key with the names w.
keyOf(s, w) ==
    /\ s \in Str /\ s # <<>> /\ s[1] # "/" /\ s[Len(s)] # "/"
    /\ words(s, {"/"}) = w

LEMMA NameIs ==
    ASSUME NEW x \in Name
    PROVE  /\ x \in Seq(Chars) /\ Len(x) \in Nat /\ Len(x) # 0 /\ x # <<>>
           /\ \A i \in 1 .. Len(x) : x[i] # "/"
<1>1. x \in Seq(Chars) /\ x # <<>> /\ \A i \in 1 .. Len(x) : x[i] # "/"
  BY DEF Name, Str
<1>2. Len(x) \in Nat /\ Len(x) # 0
  BY <1>1
<1> QED
  BY <1>1, <1>2

LEMMA FirstName ==
    ASSUME NEW x \in Name
    PROVE  keyOf(x, <<x>>)
<1>1. /\ x \in Seq(Chars) /\ Len(x) \in Nat /\ Len(x) # 0 /\ x # <<>>
      /\ \A i \in 1 .. Len(x) : x[i] # "/"
  BY NameIs
<1>2. 1 \in 1 .. Len(x) /\ Len(x) \in 1 .. Len(x) /\ 0 < Len(x) /\ 0 + 1 = 1 /\ 0 \in Nat
  BY <1>1
<1>3. ends(x, {"/"}, 0)
  BY <1>1 DEF ends
<1>4. words(x, {"/"}) = Append(words(SubSeq(x, 1, 0), {"/"}), SubSeq(x, 0 + 1, Len(x)))
  BY <1>1, <1>2, <1>3, LastWord, Zenon
<1>5. words(SubSeq(x, 1, 0), {"/"}) = <<>>
  BY <1>1, WordsTurns
<1>6. SubSeq(x, 1, Len(x)) = x
  BY <1>1
<1>7. \A y : Append(<<>>, y) = <<y>>
  OBVIOUS
<1>8. words(x, {"/"}) = <<x>>
  BY <1>2, <1>4, <1>5, <1>6, <1>7, Zenon
<1> QED
  BY <1>1, <1>2, <1>8, Zenon DEF keyOf, Str

LEMMA NextName ==
    ASSUME NEW s, NEW w, keyOf(s, w), NEW x \in Name
    PROVE  keyOf(s \o <<"/">> \o x, Append(w, x))
<1> DEFINE n == Len(s)
           t == s \o <<"/">> \o x
           m == n + 1
<1>1. /\ x \in Seq(Chars) /\ Len(x) \in Nat /\ Len(x) # 0 /\ x # <<>>
      /\ \A i \in 1 .. Len(x) : x[i] # "/"
  BY NameIs
<1>2. s \in Seq(Chars) /\ s # <<>> /\ s[1] # "/" /\ words(s, {"/"}) = w
  BY Zenon DEF keyOf, Str
<1>3. n \in Nat /\ n # 0
  BY <1>2
<1>4. <<"/">> \in Seq(Chars)
  BY DEF Chars
<1>5. /\ t \in Seq(Chars) /\ Len(t) = m + Len(x)
      /\ \A i \in 1 .. n : t[i] = s[i]
      /\ t[m] = "/"
      /\ \A i \in 1 .. Len(x) : t[m + i] = x[i]
  <2> DEFINE c == <<"/">>
             u == s \o c
  <2>1. Len(c) = 1 /\ c[1] = "/"
    OBVIOUS
  <2> HIDE DEF c
  <2>2. /\ u \in Seq(Chars) /\ Len(u) = m /\ u[m] = "/"
        /\ \A i \in 1 .. n : u[i] = s[i]
    BY <1>2, <1>4, <2>1 DEF c
  <2>3. t = u \o x
    BY DEF c
  <2> HIDE DEF u, n, t
  <2>4. /\ u \o x \in Seq(Chars) /\ Len(u \o x) = m + Len(x)
        /\ \A i \in 1 .. m : (u \o x)[i] = u[i]
        /\ \A i \in 1 .. Len(x) : (u \o x)[m + i] = x[i]
    BY <1>1, <1>3, <2>2
  <2>5. m \in 1 .. m /\ \A i \in 1 .. n : i \in 1 .. m
    BY <1>3
  <2> QED
    BY <2>2, <2>3, <2>4, <2>5, Zenon
<1> HIDE DEF t, n
<1>6. /\ m \in Nat /\ m < Len(t) /\ m \in 1 .. Len(t) /\ m - 1 = n /\ 1 \in 1 .. n
      /\ Len(t) = m + Len(x) /\ Len(x) \in 1 .. Len(x)
      /\ \A i \in (m + 1) .. Len(t) : i - m \in 1 .. Len(x) /\ m + (i - m) = i
  BY <1>1, <1>3, <1>5
<1>7. ends(t, {"/"}, m)
  <2>1. \A i \in (m + 1) .. Len(t) : t[i] # "/"
    <3> TAKE i \in (m + 1) .. Len(t)
    <3> HIDE DEF m
    <3>1. i - m \in 1 .. Len(x) /\ m + (i - m) = i
      BY <1>6, Zenon
    <3>2. t[m + (i - m)] = x[i - m]
      BY <1>5, <3>1, Zenon
    <3>3. x[i - m] # "/"
      BY <1>1, <3>1, Zenon
    <3> QED
      BY <3>1, <3>2, <3>3, Zenon
  <2> QED
    BY <1>5, <2>1 DEF ends
<1>8. words(t, {"/"}) = Append(words(SubSeq(t, 1, m), {"/"}), SubSeq(t, m + 1, Len(t)))
  BY <1>5, <1>6, <1>7, LastWord, Zenon
<1>9. words(SubSeq(t, 1, m), {"/"}) = wordsTurn(t, {"/"}, words(SubSeq(t, 1, n), {"/"}), m)
  <2>1. \A k \in 1 .. Len(t) :
           words(SubSeq(t, 1, k), {"/"})
             = wordsTurn(t, {"/"}, words(SubSeq(t, 1, k - 1), {"/"}), k)
    BY <1>5, WordsTurns, Zenon
  <2> QED
    BY <1>6, <2>1, Zenon
<1>10. words(SubSeq(t, 1, m), {"/"}) = words(SubSeq(t, 1, n), {"/"})
  <2>1. t[m] \in {"/"}
    BY <1>5
  <2> QED
    BY <1>9, <2>1, Zenon DEF wordsTurn
<1>11. SubSeq(t, 1, n) = s
  <2> DEFINE u == SubSeq(t, 1, n)
  <2>1. u \in Seq(Chars) /\ Len(u) = n /\ \A i \in 1 .. n : u[i] = t[i]
    BY <1>3, <1>5, <1>6
  <2> HIDE DEF u
  <2>2. Len(s) = n
    BY DEF n
  <2>3. \A i \in 1 .. n : u[i] = s[i]
    BY <1>5, <2>1, Zenon
  <2>4. u = s
    BY <1>2, <1>3, <2>1, <2>2, <2>3
  <2> QED
    BY <2>4 DEF u
<1>12. SubSeq(t, m + 1, Len(t)) = x
  <2> DEFINE u == SubSeq(t, m + 1, Len(t))
             l == Len(x)
  <2>1. u \in Seq(Chars) /\ Len(u) = l /\ \A i \in 1 .. l : u[i] = t[m + i]
    BY <1>1, <1>3, <1>5, <1>6
  <2> HIDE DEF u
  <2>3. \A i \in 1 .. l : u[i] = x[i]
    BY <1>5, <2>1, Zenon
  <2>4. u = x
    BY <1>1, <2>1, <2>3
  <2> QED
    BY <2>4 DEF u
<1>13. words(t, {"/"}) = Append(w, x)
  BY <1>2, <1>8, <1>10, <1>11, <1>12, Zenon
<1>14. t[1] # "/" /\ t[Len(t)] # "/"
  <2> HIDE DEF m
  <2>1. t[1] = s[1]
    BY <1>5, <1>6, Zenon
  <2>2. t[m + Len(x)] = x[Len(x)] /\ x[Len(x)] # "/"
    BY <1>1, <1>5, <1>6, Zenon
  <2> QED
    BY <1>2, <1>6, <2>1, <2>2, Zenon
<1>15. t # <<>>
  <2>1. Len(t) # 0
    BY <1>3, <1>5, <1>6
  <2> QED
    BY <1>5, <2>1
<1>16. keyOf(t, Append(w, x))
  BY <1>5, <1>13, <1>14, <1>15, Zenon DEF keyOf, Str
<1> QED
  BY <1>16 DEF t

keyTurn(done, name, k) == IF k = 1 THEN name ELSE done \o <<"/">> \o name

keyUpTo(w, f) == f = [k \in 0 .. Len(w) |-> IF k = 0 THEN <<>> ELSE keyTurn(f[k - 1], w[k], k)]

LEMMA KeyExists ==
    ASSUME NEW w \in Seq(Name)
    PROVE  \E f : keyUpTo(w, f)
<1> DEFINE n == Len(w)
           turn(d, k) == keyTurn(d, w[k], k)
           step == [k \in 1 .. n |-> [d \in Str |-> turn(d, k)]]
<1>1. n \in Nat /\ \A k \in 1 .. n : w[k] \in Name
  OBVIOUS
<1>2. <<>> \in Str
  BY DEF Str
<1>3. ASSUME NEW d \in Str, NEW k \in 1 .. n PROVE turn(d, k) \in Str
  <2>1. w[k] \in Seq(Chars) /\ d \in Seq(Chars)
    BY <1>1, NameIs DEF Str
  <2>2. <<"/">> \in Seq(Chars)
    BY DEF Chars
  <2>3. d \o <<"/">> \in Seq(Chars)
    BY <2>1, <2>2, ConcatProperties
  <2>4. d \o <<"/">> \o w[k] \in Seq(Chars)
    BY <2>1, <2>3, ConcatProperties
  <2> QED
    BY <2>1, <2>4, Zenon DEF keyTurn, Str
<1>4. step \in [1 .. n -> [Str -> Str]]
  <2> HIDE DEF turn
  <2> QED
    BY <1>3
<1>5. PICK g \in [0 .. n -> Str] : recursive(n, <<>>, step, g)
  <2> HIDE DEF n, step
  <2> QED
    BY <1>1, <1>2, <1>4, Recursion, Zenon
<1>6. g = [k \in 0 .. n |-> IF k = 0 THEN <<>> ELSE step[k][g[k - 1]]]
  BY <1>5, Zenon DEF recursive
<1>7. \A k \in 0 .. n : k # 0 => step[k][g[k - 1]] = turn(g[k - 1], k)
  <2> HIDE DEF n, turn
  <2> TAKE k \in 0 .. n
  <2>1. k # 0 => k \in 1 .. n /\ k - 1 \in 0 .. n
    BY <1>1
  <2>2. k # 0 => g[k - 1] \in Str
    BY <2>1, <1>5
  <2> QED
    BY <2>1, <2>2
<1>8. g = [k \in 0 .. n |-> IF k = 0 THEN <<>> ELSE turn(g[k - 1], k)]
  <2> HIDE DEF step, n, turn
  <2> QED
    BY <1>6, <1>7
<1> QED
  BY <1>8, Zenon DEF keyUpTo

\* The key of a file has the names of the file below the root.
LEMMA KeyNames ==
    ASSUME NEW u \in Seq(Name), NEW v \in Seq(Name), v # <<>>,
           NEW root, root.names = u, NEW file, file.names = u \o v
    PROVE  keyOf(Disk!toRelativeKey(root, file), v)
<1> DEFINE n == Len(v)
           f == CHOOSE f : keyUpTo(v, f)
<1>1. keyUpTo(v, f)
  BY KeyExists, Zenon
<1>2. n \in Nat /\ n # 0 /\ \A k \in 1 .. n : v[k] \in Name
  OBVIOUS
<1>3. Disk!from(file.names, Len(root.names) + 1) = v
  BY DEF Disk!from
<1>4. Disk!toRelativeKey(root, file) = f[n]
  <2> DEFINE names == Disk!from(file.names, Len(root.names) + 1)
  <2>1. Disk!toRelativeKey(root, file) = (CHOOSE g : keyUpTo(names, g))[Len(names)]
    BY DEF Disk!toRelativeKey, keyUpTo, keyTurn
  <2> QED
    BY <1>3, <2>1, Zenon
<1> HIDE DEF f
<1>5. f[0] = <<>> /\ \A k \in 1 .. n : f[k] = keyTurn(f[k - 1], v[k], k)
  <2>1. f = [k \in 0 .. n |-> IF k = 0 THEN <<>> ELSE keyTurn(f[k - 1], v[k], k)]
    BY <1>1, Zenon DEF keyUpTo
  <2> HIDE DEF n
  <2>2. 0 \in 0 .. n /\ \A k \in 1 .. n : k \in 0 .. n /\ k # 0
    BY <1>2
  <2> QED
    BY <2>1, <2>2
<1> DEFINE T == {k \in 0 .. n : k # 0 => keyOf(f[k], SubSeq(v, 1, k))}
<1>6. 0 \in T
  <2>1. 0 \in 0 .. n
    BY <1>2
  <2> QED
    BY <2>1, Zenon
<1>7. \A k \in 1 .. n : k - 1 \in T => k \in T
  <2> SUFFICES ASSUME NEW k \in 1 .. n, k - 1 \in T PROVE k \in T
    OBVIOUS
  <2>1. k \in 0 .. n /\ v[k] \in Name /\ (k # 1 => k - 1 # 0)
    BY <1>2
  <2>2. CASE k = 1
    <3>1. f[k] = v[k]
      BY <1>5, <2>2, Zenon DEF keyTurn
    <3>2. SubSeq(v, 1, k) = <<v[k]>>
      BY <2>2, SubSeqOne, Zenon
    <3>3. keyOf(v[k], <<v[k]>>)
      BY <2>1, FirstName, Zenon
    <3> QED
      BY <2>1, <3>1, <3>2, <3>3, Zenon
  <2>3. CASE k # 1
    <3>1. f[k] = f[k - 1] \o <<"/">> \o v[k]
      BY <1>5, <2>3, Zenon DEF keyTurn
    <3>2. SubSeq(v, 1, k) = Append(SubSeq(v, 1, k - 1), v[k])
      BY PrefixGrows
    <3>3. keyOf(f[k - 1], SubSeq(v, 1, k - 1))
      BY <2>1, <2>3, Zenon
    <3>4. keyOf(f[k - 1] \o <<"/">> \o v[k], Append(SubSeq(v, 1, k - 1), v[k]))
      BY <2>1, <3>3, NextName, Zenon
    <3> QED
      BY <2>1, <3>1, <3>2, <3>4, Zenon
  <2> QED
    BY <2>2, <2>3
<1> HIDE DEF T
<1>8. n \in T
  <2> HIDE DEF n
  <2>1. \A k \in 0 .. n : k \in T
    BY <1>2, <1>6, <1>7, Induct, Zenon
  <2> QED
    BY <1>2, <2>1
<1>9. SubSeq(v, 1, n) = v
  OBVIOUS
<1>10. keyOf(f[n], SubSeq(v, 1, n))
  BY <1>2, <1>8, Zenon DEF T
<1> HIDE DEF n
<1> QED
  BY <1>4, <1>9, <1>10, Zenon

-----------------------------------------------------------------------------
(* Paths *)

Path == [absolute : BOOLEAN, names : Seq(Name), slash : BOOLEAN]

LEMMA PathFields ==
    \A a, n, b : /\ path(a, n, b).absolute = a
                 /\ path(a, n, b).names = n
                 /\ path(a, n, b).slash = b
  BY DEF path

LEMMA PathTyped ==
    ASSUME NEW a \in BOOLEAN, NEW n \in Seq(Name), NEW b \in BOOLEAN
    PROVE  path(a, n, b) \in Path
  BY DEF path, Path

LEMMA PathIs ==
    ASSUME NEW p \in Path
    PROVE  /\ p = path(p.absolute, p.names, p.slash)
           /\ p.absolute \in BOOLEAN /\ p.names \in Seq(Name) /\ p.slash \in BOOLEAN
  BY DEF path, Path

LEMMA DotIsName == Disk!Dot \in Name
<1> DEFINE d == <<".">>
<1>1. "." \in Chars /\ "." # "/"
  BY DEF Chars
<1>2. d \in Seq(Chars) /\ Len(d) = 1 /\ d[1] = "." /\ d # <<>>
  BY <1>1
<1> HIDE DEF d
<1>3. \A i \in 1 .. Len(d) : i = 1
  BY <1>2
<1>4. d \in Name
  BY <1>1, <1>2, <1>3, Zenon DEF Name, Str
<1> QED
  BY <1>4, DiskText DEF d

LEMMA AsPathIs ==
    ASSUME NEW s \in Str
    PROVE  /\ Disk!asPath(s) = path(s # <<>> /\ s[1] = "/", words(s, {"/"}),
                                    words(s, {"/"}) # <<>> /\ Last(s) = "/")
           /\ Disk!asPath(s) \in Path
<1> DEFINE p == path(s # <<>> /\ s[1] = "/", words(s, {"/"}), words(s, {"/"}) # <<>> /\ Last(s) = "/")
<1>1. Disk!asPath(s) = p
  <2>1. Disk!words(s, {"/"}) = words(s, {"/"}) /\ Disk!Last(s) = Last(s)
    BY DiskText, Zenon
  <2> QED
    BY <2>1 DEF Disk!asPath, path
<1>2. p \in Path
  <2>1. words(s, {"/"}) \in Seq(Name)
    BY WordsAreNames
  <2>2. (s # <<>> /\ s[1] = "/") \in BOOLEAN /\ (words(s, {"/"}) # <<>> /\ Last(s) = "/") \in BOOLEAN
    OBVIOUS
  <2> QED
    BY <2>1, <2>2, PathTyped
<1> QED
  BY <1>1, <1>2

LEMMA NormalFormTyped ==
    ASSUME NEW p \in Path, NEW names \in Seq(Name)
    PROVE  /\ normalForm(p, names) \in Path
           /\ normalForm(p, names).absolute = p.absolute
<1> DEFINE b == names # <<>> /\ Last(names) # Disk!DotDot /\ endsOpen(p)
<1>1. p.absolute \in BOOLEAN /\ (~p.absolute => p.absolute = FALSE)
  BY PathIs
<1>2. <<Disk!Dot>> \in Seq(Name)
  BY DotIsName
<1>3. b \in BOOLEAN
  <2>1. endsOpen(p) \in BOOLEAN
    BY PathIs DEF endsOpen
  <2> QED
    BY <2>1
<1> HIDE DEF b
<1>4. path(FALSE, <<Disk!Dot>>, FALSE) \in Path /\ path(p.absolute, names, b) \in Path
  BY <1>1, <1>2, <1>3, PathTyped
<1>5. normalForm(p, names) = IF names = <<>> /\ ~p.absolute THEN path(FALSE, <<Disk!Dot>>, FALSE)
                             ELSE path(p.absolute, names, b)
  BY Zenon DEF b, normalForm
<1>6. CASE names = <<>> /\ ~p.absolute
  <2>1. normalForm(p, names) = path(FALSE, <<Disk!Dot>>, FALSE)
    BY <1>5, <1>6, Zenon
  <2>2. path(FALSE, <<Disk!Dot>>, FALSE).absolute = FALSE /\ p.absolute = FALSE
    BY <1>1, <1>6, PathFields, Zenon
  <2> QED
    BY <1>4, <2>1, <2>2, Zenon
<1>7. CASE ~(names = <<>> /\ ~p.absolute)
  <2>1. normalForm(p, names) = path(p.absolute, names, b)
    BY <1>5, <1>7, Zenon
  <2>2. path(p.absolute, names, b).absolute = p.absolute
    BY PathFields, Zenon
  <2> QED
    BY <1>4, <2>1, <2>2, Zenon
<1> QED
  BY <1>6, <1>7

depth(p) == IF p.absolute THEN 1 ELSE 0

LEMMA ElementsAre ==
    ASSUME NEW p \in Path
    PROVE  /\ Disk!elements(p) \in Seq(Str)
           /\ Len(Disk!elements(p)) = depth(p) + Len(p.names) + (IF p.slash THEN 1 ELSE 0)
           /\ p.absolute => Disk!elements(p)[1] = <<"/">>
           /\ \A i \in 1 .. Len(p.names) : Disk!elements(p)[depth(p) + i] = p.names[i]
           /\ p.slash => Disk!elements(p)[depth(p) + Len(p.names) + 1] = <<>>
<1> DEFINE a == IF p.absolute THEN <<<<"/">>>> ELSE <<>>
           n == p.names
           c == IF p.slash THEN <<<<>>>> ELSE <<>>
           d == depth(p)
           e == IF p.slash THEN 1 ELSE 0
<1>1. p.absolute \in BOOLEAN /\ n \in Seq(Name) /\ p.slash \in BOOLEAN
  BY PathIs
<1>2. n \in Seq(Str) /\ Len(n) \in Nat
  <2>1. Name \subseteq Str
    BY DEF Name
  <2> HIDE DEF n
  <2> QED
    BY <1>1, <2>1
<1>3. <<"/">> \in Str /\ <<>> \in Str
  BY DEF Str, Chars
<1>4. a \in Seq(Str) /\ Len(a) = d /\ d \in Nat /\ (p.absolute => d = 1 /\ a[1] = <<"/">>)
  <2>1. \A x \in Str : <<x>> \in Seq(Str) /\ Len(<<x>>) = 1 /\ <<x>>[1] = x
    OBVIOUS
  <2>2. <<>> \in Seq(Str) /\ Len(<<>>) = 0
    OBVIOUS
  <2>3. CASE p.absolute
    <3>1. a = <<<<"/">>>> /\ d = 1
      BY <2>3 DEF depth
    <3>2. \A x \in Str : a = <<x>> => a \in Seq(Str) /\ Len(a) = 1 /\ a[1] = x
      BY <2>1, Zenon
    <3> HIDE DEF a, d
    <3>3. a \in Seq(Str) /\ Len(a) = 1 /\ a[1] = <<"/">>
      BY <1>3, <3>1, <3>2, Zenon
    <3> QED
      BY <3>1, <3>3
  <2>4. CASE ~p.absolute
    BY <2>2, <2>4 DEF depth
  <2> QED
    BY <2>3, <2>4
<1>5. c \in Seq(Str) /\ Len(c) = e /\ e \in Nat /\ (p.slash => e = 1 /\ c[1] = <<>>)
  <2>1. \A x \in Str : <<x>> \in Seq(Str) /\ Len(<<x>>) = 1 /\ <<x>>[1] = x
    OBVIOUS
  <2>2. <<>> \in Seq(Str) /\ Len(<<>>) = 0
    OBVIOUS
  <2>3. CASE p.slash
    <3>1. c = <<<<>>>> /\ e = 1
      BY <2>3
    <3>2. \A x \in Str : c = <<x>> => c \in Seq(Str) /\ Len(c) = 1 /\ c[1] = x
      BY <2>1, Zenon
    <3> HIDE DEF c, e
    <3>3. c \in Seq(Str) /\ Len(c) = 1 /\ c[1] = <<>>
      BY <1>3, <3>1, <3>2, Zenon
    <3> QED
      BY <3>1, <3>3
  <2>4. CASE ~p.slash
    BY <2>2, <2>4
  <2> QED
    BY <2>3, <2>4
<1>6. Disk!elements(p) = a \o n \o c
  BY DEF Disk!elements
<1> HIDE DEF a, n, c, d, e
<1> DEFINE u == a \o n
<1>7. /\ u \in Seq(Str) /\ Len(u) = d + Len(n)
      /\ \A i \in 1 .. d : u[i] = a[i]
      /\ \A i \in 1 .. Len(n) : u[d + i] = n[i]
  BY <1>2, <1>4
<1> HIDE DEF u
<1> DEFINE v == u \o c
<1>8. /\ v \in Seq(Str) /\ Len(v) = (d + Len(n)) + e
      /\ \A i \in 1 .. (d + Len(n)) : v[i] = u[i]
      /\ \A i \in 1 .. e : v[(d + Len(n)) + i] = c[i]
  <2> DEFINE l == d + Len(n)
  <2>1. l \in Nat /\ Len(u) = l
    BY <1>2, <1>4, <1>7
  <2> HIDE DEF l
  <2>2. /\ v \in Seq(Str) /\ Len(v) = l + e
        /\ \A i \in 1 .. l : v[i] = u[i]
        /\ \A i \in 1 .. e : v[l + i] = c[i]
    BY <1>5, <1>7, <2>1, SMTT(40)
  <2> QED
    BY <2>2 DEF l
<1> HIDE DEF v
<1>9. Disk!elements(p) = v
  BY <1>6 DEF u, v
<1>10. \A i \in 1 .. Len(n) : d + i \in 1 .. (d + Len(n))
  BY <1>2, <1>4
<1>11. \A i \in 1 .. Len(n) : v[d + i] = n[i]
  BY <1>7, <1>8, <1>10, Zenon
<1>12. p.absolute => v[1] = <<"/">>
  <2>1. d = 1 => 1 \in 1 .. d /\ 1 \in 1 .. (d + Len(n))
    BY <1>2
  <2> QED
    BY <1>4, <1>7, <1>8, <2>1, Zenon
<1>13. p.slash => v[d + Len(n) + 1] = <<>>
  <2>1. e = 1 => 1 \in 1 .. e
    OBVIOUS
  <2> QED
    BY <1>5, <1>8, <2>1, Zenon
<1> QED
  BY <1>8, <1>9, <1>11, <1>12, <1>13, Zenon DEF n, d, e

isPrefix(s, t) == Len(s) <= Len(t) /\ \A i \in 1 .. Len(s) : s[i] = t[i]

LEMMA PrefixIs ==
    ASSUME NEW S, NEW s \in Seq(S), NEW t \in Seq(S)
    PROVE  Disk!IsPrefix(s, t) <=> isPrefix(s, t)
<1>1. Len(s) \in Nat /\ Len(t) \in Nat /\ SubSeq(s, 1, Len(s)) = s
  OBVIOUS
<1> DEFINE u == SubSeq(t, 1, Len(s))
<1>2. Len(s) <= Len(t) => /\ u \in Seq(S) /\ Len(u) = Len(s)
                          /\ \A i \in 1 .. Len(s) : u[i] = t[i]
  BY <1>1
<1> HIDE DEF u
<1>3. u \in Seq(S) /\ Len(u) = Len(s) => (s = u <=> \A i \in 1 .. Len(s) : s[i] = u[i])
  OBVIOUS
<1>4. Disk!IsPrefix(s, t) <=> Len(s) <= Len(t) /\ s = u
  BY <1>1 DEF Disk!IsPrefix, u
<1> QED
  BY <1>2, <1>3, <1>4 DEF isPrefix

\* A root that iteration finds in front of a path has its names in front.
LEMMA PrefixNames ==
    ASSUME NEW p \in Path, NEW q \in Path, p.absolute = q.absolute,
           Disk!IsPrefix(Disk!elements(p), Disk!elements(q))
    PROVE  isPrefix(p.names, q.names) /\ (p.slash => q.names = p.names)
<1> DEFINE P == Disk!elements(p)
           Q == Disk!elements(q)
           d == depth(p)
           n == Len(p.names)
           m == Len(q.names)
           x == IF p.slash THEN 1 ELSE 0
           y == IF q.slash THEN 1 ELSE 0
<1>1. /\ P \in Seq(Str) /\ Len(P) = d + n + x
      /\ \A i \in 1 .. n : P[d + i] = p.names[i]
      /\ p.slash => P[d + n + 1] = <<>>
  BY ElementsAre
<1>2. depth(q) = d
  BY DEF depth
<1>3. /\ Q \in Seq(Str) /\ Len(Q) = d + m + y
      /\ \A i \in 1 .. m : Q[d + i] = q.names[i]
      /\ q.slash => Q[d + m + 1] = <<>>
  <2>1. /\ Q \in Seq(Str) /\ Len(Q) = depth(q) + m + y
        /\ \A i \in 1 .. m : Q[depth(q) + i] = q.names[i]
        /\ q.slash => Q[depth(q) + m + 1] = <<>>
    BY ElementsAre
  <2> HIDE DEF d, m, y, Q
  <2> QED
    BY <1>2, <2>1
<1>4. p.names \in Seq(Name) /\ q.names \in Seq(Name)
  BY PathIs
<1>5. /\ n \in Nat /\ m \in Nat /\ d \in Nat
      /\ x \in {0, 1} /\ y \in {0, 1} /\ (x = 1 <=> p.slash) /\ (y = 1 <=> q.slash)
  BY <1>4 DEF depth
<1>6. /\ \A i \in 1 .. n : p.names[i] \in Name /\ p.names[i] # <<>>
      /\ \A i \in 1 .. m : q.names[i] \in Name /\ q.names[i] # <<>>
  <2>1. \A z \in Name : z # <<>>
    BY NameIs
  <2>2. (\A i \in 1 .. n : p.names[i] \in Name) /\ (\A i \in 1 .. m : q.names[i] \in Name)
    BY <1>4
  <2> QED
    BY <2>1, <2>2, Zenon
<1>7. isPrefix(P, Q)
  BY <1>1, <1>3, PrefixIs
<1> HIDE DEF P, Q, d, n, m, x, y
<1>8. d + n + x <= d + m + y /\ \A i \in 1 .. (d + n + x) : P[i] = Q[i]
  BY <1>1, <1>3, <1>7, Zenon DEF isPrefix
<1>9. \A i \in 1 .. n : i \in 1 .. m /\ q.names[i] = p.names[i]
  <2> TAKE i \in 1 .. n
  <2>1. d + i \in 1 .. (d + n + x) /\ (i \in 1 .. m \/ (y = 1 /\ d + i = d + m + 1))
    BY <1>5, <1>8
  <2>2. Q[d + i] = p.names[i]
    BY <1>1, <1>8, <2>1, Zenon
  <2>3. i \in 1 .. m
    BY <1>3, <1>5, <1>6, <2>1, <2>2, Zenon
  <2> QED
    BY <1>3, <2>2, <2>3, Zenon
<1>10. n <= m
  <2>1. n # 0 => n \in 1 .. n
    BY <1>5
  <2>2. n # 0 => n \in 1 .. m
    BY <1>9, <2>1, Zenon
  <2> QED
    BY <1>5, <2>2
<1>11. isPrefix(p.names, q.names)
  BY <1>9, <1>10, Zenon DEF isPrefix, n, m
<1>12. ASSUME p.slash PROVE q.names = p.names
  <2>1. d + n + 1 \in 1 .. (d + n + x) /\ (n + 1 \in 1 .. m \/ n = m) /\ d + n + 1 = d + (n + 1)
    BY <1>5, <1>8, <1>10, <1>12
  <2>2. Q[d + (n + 1)] = <<>>
    BY <1>1, <1>8, <1>12, <2>1, Zenon
  <2>3. n = m
    BY <1>3, <1>6, <2>1, <2>2, Zenon
  <2>4. Len(p.names) = Len(q.names) /\ \A i \in 1 .. Len(p.names) : q.names[i] = p.names[i]
    BY <1>9, <2>3, Zenon DEF n, m
  <2> QED
    BY <1>4, <2>4
<1> QED
  BY <1>11, <1>12

LEMMA PrefixHolds ==
    ASSUME NEW a \in BOOLEAN, NEW u \in Seq(Name), NEW v \in Seq(Name), NEW b \in BOOLEAN
    PROVE  Disk!IsPrefix(Disk!elements(path(a, u, FALSE)), Disk!elements(path(a, u \o v, b)))
<1> DEFINE p == path(a, u, FALSE)
           q == path(a, u \o v, b)
           P == Disk!elements(p)
           Q == Disk!elements(q)
           d == IF a THEN 1 ELSE 0
           n == Len(u)
           m == Len(u \o v)
           y == IF b THEN 1 ELSE 0
<1>1. u \o v \in Seq(Name) /\ n \in Nat /\ m \in Nat /\ n <= m /\ \A i \in 1 .. n : (u \o v)[i] = u[i]
  OBVIOUS
<1>2. p \in Path /\ q \in Path
  BY <1>1, PathTyped
<1>3. /\ p.absolute = a /\ p.names = u /\ p.slash = FALSE
      /\ q.absolute = a /\ q.names = u \o v /\ q.slash = b
  <2> DEFINE f == FALSE
             w == u \o v
  <2>0. p = path(a, u, f) /\ q = path(a, w, b)
    OBVIOUS
  <2> HIDE DEF p, q, f, w
  <2>1. p.absolute = a /\ p.names = u /\ p.slash = f
    BY <2>0, PathFields
  <2>2. q.absolute = a /\ q.names = w /\ q.slash = b
    BY <2>0, PathFields
  <2> QED
    BY <2>1, <2>2, Zenon DEF f, w
<1> HIDE DEF p, q
<1>4. depth(p) = d /\ depth(q) = d
  BY <1>3 DEF depth
<1>5. /\ P \in Seq(Str) /\ Len(P) = d + n
      /\ a => P[1] = <<"/">>
      /\ \A i \in 1 .. n : P[d + i] = u[i]
  <2>1. /\ P \in Seq(Str)
        /\ Len(P) = depth(p) + Len(p.names) + (IF p.slash THEN 1 ELSE 0)
        /\ p.absolute => P[1] = <<"/">>
        /\ \A i \in 1 .. Len(p.names) : P[depth(p) + i] = p.names[i]
    BY <1>2, ElementsAre
  <2> HIDE DEF P
  <2>2. Len(P) = d + n + 0
    BY <1>3, <1>4, <2>1
  <2>3. d + n + 0 = d + n
    BY <1>1
  <2> QED
    BY <1>3, <1>4, <2>1, <2>2, <2>3
<1>6. /\ Q \in Seq(Str) /\ Len(Q) = d + m + y
      /\ a => Q[1] = <<"/">>
      /\ \A i \in 1 .. m : Q[d + i] = (u \o v)[i]
  <2>1. /\ Q \in Seq(Str)
        /\ Len(Q) = depth(q) + Len(q.names) + (IF q.slash THEN 1 ELSE 0)
        /\ q.absolute => Q[1] = <<"/">>
        /\ \A i \in 1 .. Len(q.names) : Q[depth(q) + i] = q.names[i]
    BY <1>2, ElementsAre
  <2> HIDE DEF Q
  <2> QED
    BY <1>3, <1>4, <2>1, Zenon
<1>7. d \in {0, 1} /\ (d = 1 <=> a) /\ y \in {0, 1}
  OBVIOUS
<1> DEFINE w == u \o v
<1> HIDE DEF P, Q, d, n, m, y, w
<1>8. d + n <= d + m + y
  BY <1>1, <1>7
<1>9. \A i \in 1 .. (d + n) : P[i] = Q[i]
  <2> TAKE i \in 1 .. (d + n)
  <2>1. \/ d = 1 /\ i = 1
        \/ i - d \in 1 .. n /\ i - d \in 1 .. m /\ d + (i - d) = i
    BY <1>1, <1>7
  <2>2. CASE d = 1 /\ i = 1
    BY <1>5, <1>6, <1>7, <2>2, Zenon
  <2>3. CASE i - d \in 1 .. n /\ i - d \in 1 .. m /\ d + (i - d) = i
    <3>1. P[d + (i - d)] = u[i - d]
      BY <1>5, <2>3, Zenon
    <3>2. Q[d + (i - d)] = (u \o v)[i - d]
      BY <1>6, <2>3, Zenon
    <3>3. (u \o v)[i - d] = u[i - d]
      BY <1>1, <2>3, Zenon
    <3> QED
      BY <2>3, <3>1, <3>2, <3>3, Zenon
  <2> QED
    BY <2>1, <2>2, <2>3
<1>10. isPrefix(P, Q)
  BY <1>5, <1>6, <1>8, <1>9, Zenon DEF isPrefix
<1>11. Disk!IsPrefix(P, Q)
  BY <1>5, <1>6, <1>10, PrefixIs
<1> QED
  BY <1>11 DEF P, Q, p, q

\* Where a name under a root leads: what mapPath compares with the root.
below(root, s) == path(root.absolute, root.names \o words(s, {"/"}),
                       words(s, {"/"}) # <<>> /\ Last(s) = "/")

relative(s) ==
    s # <<>> /\ s[1] # "/" /\ Disk!DotDot \notin ToSet(words(s, {"/"}))

LEMMA MapPathIs ==
    ASSUME NEW root \in Path, NEW s \in Str
    PROVE  LET target == Disk!lexically_normal(below(root, s))
           IN  Disk!mapPath(root, s) =
                 IF relative(s) /\ Disk!IsPrefix(Disk!elements(root), Disk!elements(target))
                 THEN target ELSE None
<1> DEFINE q == Disk!asPath(s)
           w == words(s, {"/"})
           target == Disk!lexically_normal(below(root, s))
<1>1. q = path(s # <<>> /\ s[1] = "/", w, w # <<>> /\ Last(s) = "/")
  BY AsPathIs
<1>2. /\ q.absolute = (s # <<>> /\ s[1] = "/") /\ q.names = w
      /\ q.slash = (w # <<>> /\ Last(s) = "/")
  <2> DEFINE a == s # <<>> /\ s[1] = "/"
             b == w # <<>> /\ Last(s) = "/"
  <2> HIDE DEF a, b, q, w
  <2>1. q = path(a, w, b)
    BY <1>1, Zenon DEF a, b
  <2>2. q.absolute = a /\ q.names = w /\ q.slash = b
    BY <2>1, PathFields
  <2> QED
    BY <2>2 DEF a, b
<1> HIDE DEF q, w
<1>3. ~q.absolute => Disk!append(root, q) = below(root, s)
  BY <1>2 DEF Disk!append, below, path, w
<1>4. Disk!mapPath(root, s) =
        IF s = <<>> \/ q.absolute THEN None
        ELSE IF Disk!DotDot \in Disk!ToSet(q.names) THEN None
        ELSE LET t == Disk!lexically_normal(Disk!append(root, q))
             IN  IF ~Disk!IsPrefix(Disk!elements(root), Disk!elements(t)) THEN None ELSE t
  BY DEF Disk!mapPath, q
<1>5. Disk!ToSet(q.names) = ToSet(w)
  BY <1>2, DiskText, Zenon
<1>6. relative(s) <=> ~(s = <<>> \/ q.absolute) /\ Disk!DotDot \notin Disk!ToSet(q.names)
  BY <1>2, <1>5, Zenon DEF relative, w
<1>7. CASE relative(s)
  <2>1. Disk!mapPath(root, s) =
          LET t == Disk!lexically_normal(Disk!append(root, q))
          IN  IF ~Disk!IsPrefix(Disk!elements(root), Disk!elements(t)) THEN None ELSE t
    BY <1>4, <1>6, <1>7, Zenon
  <2>2. Disk!append(root, q) = below(root, s)
    BY <1>3, <1>6, <1>7, Zenon
  <2> QED
    BY <1>7, <2>1, <2>2, Zenon
<1>8. CASE ~relative(s)
  <2>1. Disk!mapPath(root, s) = None
    BY <1>4, <1>6, <1>8, Zenon
  <2> QED
    BY <1>8, <2>1, Zenon
<1> QED
  BY <1>7, <1>8

\* The names of s that are kept.
kept(s) == without(words(s, {"/"}), Disk!Dot)

LEMMA BelowIs ==
    ASSUME NEW root \in Path, NEW s \in Str
    PROVE  /\ below(root, s) \in Path
           /\ below(root, s).absolute = root.absolute
           /\ below(root, s).names = root.names \o words(s, {"/"})
           /\ below(root, s).slash <=> words(s, {"/"}) # <<>> /\ Last(s) = "/"
<1> DEFINE n == root.names \o words(s, {"/"})
           b == words(s, {"/"}) # <<>> /\ Last(s) = "/"
<1>1. root.absolute \in BOOLEAN /\ n \in Seq(Name)
  <2>1. root.absolute \in BOOLEAN /\ root.names \in Seq(Name)
    BY PathIs
  <2>2. words(s, {"/"}) \in Seq(Name)
    BY WordsAreNames
  <2> QED
    BY <2>1, <2>2, ConcatProperties
<1>2. b \in BOOLEAN
  OBVIOUS
<1>3. below(root, s) = path(root.absolute, n, b)
  BY DEF below
<1> HIDE DEF n, b
<1>4. below(root, s) \in Path
  BY <1>1, <1>2, <1>3, PathTyped
<1>5. /\ below(root, s).absolute = root.absolute
      /\ below(root, s).names = n /\ below(root, s).slash = b
  BY <1>3, PathFields
<1> QED
  BY <1>4, <1>5 DEF n, b

\* The names that a relative path without ".." has below a root.
LEMMA KeptTyped ==
    ASSUME NEW s \in Str, relative(s)
    PROVE  kept(s) \in Seq((Name \ {Disk!DotDot}) \ {Disk!Dot})
<1> DEFINE w == words(s, {"/"})
           S == Name \ {Disk!DotDot}
<1>1. w \in Seq(Name) /\ Disk!DotDot \notin ToSet(w)
  BY WordsAreNames DEF relative
<1> HIDE DEF w
<1>2. w \in Seq(S)
  <2>1. DOMAIN w = 1 .. Len(w) /\ Len(w) \in Nat /\ w = [i \in 1 .. Len(w) |-> w[i]]
    BY <1>1
  <2>2. \A i \in 1 .. Len(w) : w[i] # Disk!DotDot
    BY <1>1, <2>1, Zenon DEF ToSet
  <2>3. \A i \in 1 .. Len(w) : w[i] \in S
    BY <1>1, <2>2
  <2>4. w \in [1 .. Len(w) -> S]
    BY <2>1, <2>3
  <2> HIDE DEF S
  <2> QED
    BY <2>1, <2>4
<1> HIDE DEF S
<1>3. PICK f : withoutTurns(w, Disk!Dot, f) /\ without(w, Disk!Dot) = f[Len(w)]
  BY <1>2, WithoutIs
<1>4. \A k \in 0 .. Len(w) : f[k] \in Seq(S \ {Disk!Dot})
  BY <1>2, <1>3, WithoutTyped, Zenon
<1>5. Len(w) \in 0 .. Len(w)
  BY <1>2
<1> QED
  BY <1>3, <1>4, <1>5, Zenon DEF kept, w, S

\* What is compared with a root: what the normal form of the root's names
\* leaves of them, and behind it the names that are kept.
LEMMA TargetIs ==
    ASSUME NEW root \in Path, NEW s \in Str, relative(s)
    PROVE  \E g : /\ normTurns(root.absolute, root.names, g)
                  /\ g[Len(root.names)] \in Seq(Name)
                  /\ normal(root.absolute, g[Len(root.names)] \o kept(s))
                  /\ Disk!lexically_normal(below(root, s))
                       = normalForm(below(root, s), g[Len(root.names)] \o kept(s))
<1> DEFINE p == below(root, s)
           w == words(s, {"/"})
           u == root.names
<1>1. p \in Path /\ p.absolute = root.absolute /\ p.names = u \o w
  BY BelowIs
<1>2. u \in Seq(Name) /\ w \in Seq(Name)
  BY PathIs, WordsAreNames
<1>3. u \o w \in Seq(Name) /\ Len(u \o w) \in 0 .. Len(u \o w)
  BY <1>2
<1>4. Disk!DotDot \notin ToSet(w)
  BY DEF relative
<1> HIDE DEF p, w, u
<1>5. PICK g : /\ normTurns(p.absolute, p.names, g)
               /\ Disk!lexically_normal(p) = normalForm(p, g[Len(p.names)])
  <2>1. p.names \in Seq(Name)
    BY <1>1, <1>3, Zenon
  <2> QED
    BY <2>1, NormalFormIs
<1>6. normTurns(root.absolute, u \o w, g) /\ Disk!lexically_normal(p) = normalForm(p, g[Len(u \o w)])
  BY <1>1, <1>5, Zenon
<1>7. /\ normTurns(root.absolute, u, g)
      /\ g[Len(u)] \in Seq(Name)
      /\ g[Len(u \o w)] = g[Len(u)] \o without(w, Disk!Dot)
  BY <1>2, <1>4, <1>6, NormConcat
<1>8. normal(root.absolute, g[Len(u \o w)])
  <2>1. \A k \in 0 .. Len(u \o w) : normal(root.absolute, g[k])
    BY <1>3, <1>6, NormTurnsNormal, Zenon
  <2> QED
    BY <1>3, <2>1, Zenon
<1> QED
  BY <1>6, <1>7, <1>8, Zenon DEF kept, u, w, p

LEMMA PlainNames ==
    ASSUME NEW root \in Path, plain(root)
    PROVE  /\ ~root.slash /\ normal(root.absolute, root.names)
           /\ root.absolute \/ root.names # <<>>
<1> DEFINE n == Len(root.names)
<1>1. root.names \in Seq(Name) /\ root.absolute \in BOOLEAN
  BY PathIs
<1>2. ~root.slash /\ root = Disk!lexically_normal(root) /\ root.names # <<Disk!Dot>>
  BY DiskText, Zenon DEF plain
<1>3. PICK f : /\ normTurns(root.absolute, root.names, f)
               /\ Disk!lexically_normal(root) = normalForm(root, f[n])
  BY <1>1, NormalFormIs
<1>4. n \in 0 .. n
  BY <1>1
<1>5. normal(root.absolute, f[n])
  <2>1. \A k \in 0 .. n : normal(root.absolute, f[k])
    BY <1>1, <1>3, NormTurnsNormal, Zenon
  <2> QED
    BY <1>4, <2>1, Zenon
<1>6. root = normalForm(root, f[n])
  BY <1>2, <1>3, Zenon
<1>7. ~(f[n] = <<>> /\ ~root.absolute)
  <2> SUFFICES ASSUME f[n] = <<>> /\ ~root.absolute PROVE FALSE
    OBVIOUS
  <2>1. root = path(FALSE, <<Disk!Dot>>, FALSE)
    BY <1>6, Zenon DEF normalForm
  <2> DEFINE d == <<Disk!Dot>>
             c == FALSE
  <2> HIDE DEF d, c
  <2>2. root = path(c, d, c)
    BY <2>1, Zenon DEF c, d
  <2>3. root.names = d
    BY <2>2, PathFields
  <2> QED
    BY <1>2, <2>3, Zenon DEF d
<1>8. root.names = f[n]
  <2> DEFINE b == f[n] # <<>> /\ Last(f[n]) # Disk!DotDot /\ endsOpen(root)
             a == root.absolute
  <2>1. root = path(a, f[n], b)
    BY <1>6, <1>7, Zenon DEF normalForm
  <2> HIDE DEF a, b
  <2> QED
    BY <2>1, PathFields
<1> QED
  BY <1>2, <1>5, <1>7, <1>8, Zenon

\* Where a path below a plain root leads.
leads(root, s) ==
    LET names == root.names \o kept(s)
    IN  path(root.absolute, names,
             names # <<>> /\ Last(names) # Disk!DotDot /\ endsOpen(below(root, s)))

LEMMA PlainTarget ==
    ASSUME NEW root \in Path, plain(root), NEW s \in Str, relative(s)
    PROVE  Disk!mapPath(root, s) = leads(root, s)
<1> DEFINE u == root.names
           v == kept(s)
           p == below(root, s)
           b == u \o v # <<>> /\ Last(u \o v) # Disk!DotDot /\ endsOpen(p)
<1>1. ~root.slash /\ normal(root.absolute, u) /\ (root.absolute \/ u # <<>>)
  BY PlainNames
<1>2. root.absolute \in BOOLEAN /\ u \in Seq(Name) /\ root.slash = FALSE
  BY <1>1, PathIs
<1>3. v \in Seq(Name)
  <2>1. v \in Seq((Name \ {Disk!DotDot}) \ {Disk!Dot})
    BY KeptTyped
  <2> HIDE DEF v
  <2> QED
    BY <2>1
<1>4. p \in Path /\ p.absolute = root.absolute
  BY BelowIs
<1>5. PICK g : /\ normTurns(root.absolute, u, g)
               /\ Disk!lexically_normal(p) = normalForm(p, g[Len(u)] \o v)
  BY TargetIs
<1>6. g[Len(u)] = u
  BY <1>1, <1>2, <1>5, NormalFixed
<1> HIDE DEF u, v, p
<1>7. ~(u \o v = <<>> /\ ~p.absolute)
  <2>1. u \o v = <<>> => u = <<>>
    BY <1>2, <1>3
  <2> QED
    BY <1>1, <1>4, <2>1, Zenon
<1>8. Disk!lexically_normal(p) = path(p.absolute, u \o v, b)
  BY <1>5, <1>6, <1>7, Zenon DEF normalForm
<1>9. Disk!lexically_normal(p) = path(root.absolute, u \o v, b)
  BY <1>4, <1>8, Zenon
<1>10. b \in BOOLEAN
  <2>1. endsOpen(p) \in BOOLEAN
    BY <1>4, PathIs DEF endsOpen
  <2> QED
    BY <2>1
<1> HIDE DEF b
<1>11. root = path(root.absolute, u, FALSE)
  BY <1>2, PathIs DEF u
<1>12. Disk!IsPrefix(Disk!elements(path(root.absolute, u, FALSE)),
                     Disk!elements(path(root.absolute, u \o v, b)))
  BY <1>2, <1>3, <1>10, PrefixHolds, Zenon
<1>13. Disk!IsPrefix(Disk!elements(root), Disk!elements(Disk!lexically_normal(p)))
  BY <1>9, <1>11, <1>12, Zenon
<1>14. Disk!mapPath(root, s) = Disk!lexically_normal(p)
  BY <1>13, MapPathIs, Zenon DEF p
<1> QED
  BY <1>9, <1>14, Zenon DEF leads, u, v, b, p

LEMMA LeadsIs ==
    ASSUME NEW root \in Path, NEW s
    PROVE  /\ leads(root, s).absolute = root.absolute
           /\ leads(root, s).names = root.names \o kept(s)
           /\ leads(root, s) = path(root.absolute, root.names \o kept(s), leads(root, s).slash)
           /\ leads(root, s).slash <=>
                /\ root.names \o kept(s) # <<>> /\ Last(root.names \o kept(s)) # Disk!DotDot
                /\ endsOpen(below(root, s))
           /\ leads(root, s).slash \in BOOLEAN
<1> DEFINE n == root.names \o kept(s)
           b == n # <<>> /\ Last(n) # Disk!DotDot /\ endsOpen(below(root, s))
           a == root.absolute
           p == leads(root, s)
<1>1. b \in BOOLEAN
  <2>1. endsOpen(below(root, s)) \in BOOLEAN
    BY DEF endsOpen
  <2> QED
    BY <2>1
<1>2. p = path(a, n, b)
  BY DEF leads
<1> HIDE DEF a, n, b, p
<1>3. p.absolute = a /\ p.names = n /\ p.slash = b
  BY <1>2, PathFields
<1> QED
  BY <1>1, <1>2, <1>3 DEF a, n, b, p

\* The key of a file below a plain root leads to the file.
LEMMA PlainBack ==
    ASSUME NEW root \in Path, plain(root), NEW s \in Str, relative(s),
           kept(s) # <<>>, ~leads(root, s).slash
    PROVE  Disk!mapPath(root, Disk!toRelativeKey(root, leads(root, s))) = leads(root, s)
<1> DEFINE u == root.names
           v == kept(s)
           file == leads(root, s)
           key == Disk!toRelativeKey(root, file)
           S == (Name \ {Disk!DotDot}) \ {Disk!Dot}
<1>1. v \in Seq(S)
  BY KeptTyped
<1>2. v \in Seq(Name)
  <2> HIDE DEF v
  <2> QED
    BY <1>1
<1>3. u \in Seq(Name)
  BY PathIs
<1>4. file.names = u \o v /\ file = path(root.absolute, u \o v, file.slash) /\ file.slash \in BOOLEAN
  BY LeadsIs
<1>5. keyOf(key, v)
  <2> HIDE DEF u, v, file
  <2>1. root.names = u
    BY DEF u
  <2>2. v # <<>>
    BY DEF v
  <2> QED
    BY <1>2, <1>3, <1>4, <2>1, <2>2, KeyNames
<1> HIDE DEF key, file
<1>6. key \in Str /\ key # <<>> /\ key[1] # "/" /\ key[Len(key)] # "/" /\ words(key, {"/"}) = v
  BY <1>5, Zenon DEF keyOf
<1>7. v # <<>> /\ Len(v) \in 1 .. Len(v) /\ v[Len(v)] # Disk!Dot /\ v[Len(v)] # Disk!DotDot
  <2>1. v # <<>>
    OBVIOUS
  <2> HIDE DEF v
  <2>2. Len(v) \in 1 .. Len(v)
    BY <1>1, <2>1
  <2>3. v[Len(v)] \in S
    <3> HIDE DEF S
    <3> QED
      BY <1>1, <2>2
  <2> QED
    BY <2>1, <2>2, <2>3
<1>8. relative(key)
  <2> HIDE DEF v
  <2>1. DOMAIN v = 1 .. Len(v) /\ \A i \in 1 .. Len(v) : v[i] \in S
    <3> HIDE DEF S
    <3> QED
      BY <1>1
  <2>2. Disk!DotDot \notin S
    OBVIOUS
  <2> HIDE DEF S
  <2>3. Disk!DotDot \notin ToSet(v)
    BY <2>1, <2>2, Zenon DEF ToSet
  <2> QED
    BY <1>6, <2>3, Zenon DEF relative
<1>9. kept(key) = v
  <2> HIDE DEF v
  <2>1. Disk!Dot \notin S
    OBVIOUS
  <2> HIDE DEF S
  <2>2. without(v, Disk!Dot) = v
    BY <1>1, <2>1, WithoutFixed, Zenon
  <2> QED
    BY <1>6, <2>2, Zenon DEF kept
<1>10. Disk!mapPath(root, key) = leads(root, key)
  BY <1>6, <1>8, PlainTarget, Zenon
<1> HIDE DEF v, u, S
<1>11. ~endsOpen(below(root, key))
  <2>1. /\ below(root, key).names = u \o v
        /\ below(root, key).slash <=> v # <<>> /\ Last(key) = "/"
    BY <1>6, BelowIs DEF u
  <2>2. Last(key) = key[Len(key)]
    BY DEF Last
  <2>3. Last(u \o v) = v[Len(v)]
    <3>1. (u \o v)[Len(u \o v)] = v[Len(v)]
      <4>1. Len(u \o v) = Len(u) + Len(v) /\ (u \o v)[Len(u) + Len(v)] = v[Len(v)]
        BY <1>2, <1>3, <1>7
      <4> QED
        BY <4>1, Zenon
    <3> QED
      BY <3>1 DEF Last
  <2>4. Last(below(root, key).names) \notin {Disk!Dot, Disk!DotDot}
    BY <1>7, <2>1, <2>3, Zenon
  <2> QED
    BY <1>6, <2>1, <2>2, <2>4, Zenon DEF endsOpen
<1>12. leads(root, key) = path(root.absolute, u \o v, leads(root, key).slash)
  BY <1>9, LeadsIs, Zenon DEF u
<1>13. leads(root, key).slash \in BOOLEAN /\ ~leads(root, key).slash
  <2>1. leads(root, key).slash => endsOpen(below(root, key))
    BY LeadsIs, Zenon
  <2>2. leads(root, key).slash \in BOOLEAN
    BY LeadsIs, Zenon
  <2> QED
    BY <1>11, <2>1, <2>2, Zenon
<1>14. leads(root, key).slash = file.slash
  <2>1. ~file.slash
    BY DEF file
  <2> QED
    BY <1>4, <1>13, <2>1
<1>15. leads(root, key) = file
  BY <1>4, <1>12, <1>14, Zenon
<1> QED
  BY <1>10, <1>15, Zenon DEF key, file

\* A text that is not empty has a name or is absolute.
LEMMA WordsNotEmpty ==
    ASSUME NEW s \in Str, s # <<>>, s[1] # "/"
    PROVE  words(s, {"/"}) # <<>>
<1>1. s \in Seq(Chars)
  BY DEF Str
<1> DEFINE n == Len(s)
           w(k) == words(SubSeq(s, 1, k), {"/"})
           T == {k \in 0 .. n : k # 0 => w(k) # <<>>}
<1>2. n \in Nat /\ n # 0 /\ \A k \in 1 .. n : s[k] \in Chars
  BY <1>1
<1>3. /\ w(n) = words(s, {"/"})
      /\ \A k \in 1 .. n : w(k) = wordsTurn(s, {"/"}, w(k - 1), k)
  BY <1>1, WordsTurns, Zenon
<1>4. \A k \in 0 .. n : w(k) \in Seq(Seq(Chars))
  <2> TAKE k \in 0 .. n
  <2>1. SubSeq(s, 1, k) \in Seq(Chars)
    BY <1>1
  <2> QED
    BY <2>1, WordsAreRuns
<1> HIDE DEF w
<1>5. 0 \in T
  <2>1. 0 \in 0 .. n
    BY <1>2
  <2> QED
    BY <2>1, Zenon
<1>6. \A k \in 1 .. n : k - 1 \in T => k \in T
  <2> SUFFICES ASSUME NEW k \in 1 .. n, k - 1 \in T PROVE k \in T
    OBVIOUS
  <2> HIDE DEF n
  <2>1. k \in 0 .. n /\ k - 1 \in 0 .. n /\ s[k] \in Chars /\ (k # 1 => k - 1 # 0)
    BY <1>2
  <2>2. w(k) = wordsTurn(s, {"/"}, w(k - 1), k) /\ w(k - 1) \in Seq(Seq(Chars))
    BY <1>3, <1>4, <2>1, Zenon
  <2>3. w(k) # <<>>
    <3>1. CASE k = 1
      <4>1. s[k] \notin {"/"}
        BY <3>1
      <4>2. w(k) = << <<s[k]>> >>
        BY <2>2, <3>1, <4>1, Zenon DEF wordsTurn
      <4>3. \A y : <<y>> # <<>>
        OBVIOUS
      <4> QED
        BY <4>2, <4>3, Zenon
    <3>2. CASE k # 1
      <4>1. w(k - 1) # <<>>
        BY <2>1, <3>2, Zenon
      <4> DEFINE p == w(k - 1)
      <4> HIDE DEF p
      <4>2. p \in Seq(Seq(Chars)) /\ p # <<>>
        BY <2>2, <4>1, Zenon DEF p
      <4>3. Append(p, <<s[k]>>) # <<>>
        <5>1. <<s[k]>> \in Seq(Chars)
          BY <2>1
        <5> QED
          BY <4>2, <5>1, AppendProperties, SMTT(30)
      <4>4. extend(p, s[k]) # <<>>
        BY <2>1, <4>2, ExtendTyped
      <4>5. w(k) = wordsTurn(s, {"/"}, p, k)
        BY <2>2, Zenon DEF p
      <4> QED
        BY <3>2, <4>2, <4>3, <4>4, <4>5, Zenon DEF wordsTurn
    <3> QED
      BY <3>1, <3>2
  <2> QED
    BY <2>1, <2>3, Zenon
<1> HIDE DEF T, n
<1>7. \A k \in 0 .. n : k \in T
  BY <1>2, <1>5, <1>6, Induct, Zenon
<1>8. n \in T
  BY <1>2, <1>7
<1> QED
  BY <1>2, <1>3, <1>8, Zenon DEF T

\* A root that is not in normal form, or ends in a slash, or is ".".
LEMMA OtherRoots ==
    ASSUME NEW root \in Path, root.absolute \/ root.names # <<>>, ~plain(root),
           NEW s \in Str, Disk!mapPath(root, s) # None
    PROVE  Disk!mapPath(root, s).names = root.names
<1> DEFINE p == below(root, s)
           target == Disk!lexically_normal(p)
           u == root.names
           a == root.absolute
<1>1. relative(s) /\ Disk!IsPrefix(Disk!elements(root), Disk!elements(target))
      /\ Disk!mapPath(root, s) = target
  BY MapPathIs, Zenon
<1>2. a \in BOOLEAN /\ u \in Seq(Name) /\ root.slash \in BOOLEAN /\ root = path(a, u, root.slash)
  BY PathIs
<1>3. p \in Path /\ p.absolute = a
  BY BelowIs
<1>4. PICK g : /\ g[Len(u)] \in Seq(Name)
               /\ normal(a, g[Len(u)] \o kept(s))
               /\ target = normalForm(p, g[Len(u)] \o kept(s))
  BY <1>1, TargetIs
<1> DEFINE n == g[Len(u)] \o kept(s)
           b == n # <<>> /\ Last(n) # Disk!DotDot /\ endsOpen(p)
<1>5. n \in Seq(Name)
  <2>1. kept(s) \in Seq((Name \ {Disk!DotDot}) \ {Disk!Dot})
    BY <1>1, KeptTyped
  <2>2. kept(s) \in Seq(Name)
    BY <2>1
  <2> QED
    BY <1>4, <2>2, ConcatProperties
<1> HIDE DEF p, target, u, a, n
<1>6. normal(a, n) /\ target = normalForm(p, n)
  BY <1>4, Zenon DEF n
<1>7. target \in Path /\ target.absolute = a
  BY <1>3, <1>5, <1>6, NormalFormTyped, Zenon
<1>8. isPrefix(root.names, target.names) /\ (root.slash => target.names = root.names)
  <2>1. root.absolute = target.absolute
    BY <1>7, Zenon DEF a
  <2> QED
    BY <1>1, <1>7, <2>1, PrefixNames
<1>9. /\ n = <<>> /\ ~a => target.names = <<Disk!Dot>>
      /\ ~(n = <<>> /\ ~a) => target.names = n
  <2> DEFINE d == <<Disk!Dot>>
             f == FALSE
             c == p.absolute
  <2>1. n = <<>> /\ ~a => target = path(f, d, f)
    BY <1>3, <1>6, Zenon DEF normalForm
  <2>2. ~(n = <<>> /\ ~a) => target = path(c, n, b)
    BY <1>3, <1>6, Zenon DEF normalForm
  <2> HIDE DEF b, f, d, c
  <2>3. n = <<>> /\ ~a => target.names = d
    BY <2>1, PathFields
  <2>4. ~(n = <<>> /\ ~a) => target.names = n
    BY <2>2, PathFields
  <2> QED
    BY <2>3, <2>4 DEF d
<1>10. isPrefix(u, target.names) /\ Len(u) \in Nat
  BY <1>2, <1>8 DEF u
<1>11. CASE root.slash
  BY <1>1, <1>8, <1>11, Zenon
<1>12. CASE ~root.slash /\ n = <<>> /\ ~a
  <2> DEFINE d == <<Disk!Dot>>
  <2>1. target.names = d
    BY <1>9, <1>12, Zenon
  <2>2. u # <<>>
    BY <1>12 DEF u, a
  <2>3. Len(d) = 1 /\ d[1] = Disk!Dot
    OBVIOUS
  <2> HIDE DEF d
  <2>4. Len(u) <= 1 /\ \A i \in 1 .. Len(u) : u[i] = d[i]
    BY <1>10, <2>1, <2>3, Zenon DEF isPrefix
  <2>5. Len(u) = 1
    <3>1. Len(u) # 0
      <4>1. \A x \in Seq(Name) : x # <<>> => Len(x) # 0
        OBVIOUS
      <4> QED
        BY <1>2, <2>2, <4>1, Zenon
    <3>2. \A x \in Nat : x <= 1 /\ x # 0 => x = 1
      OBVIOUS
    <3> QED
      BY <1>10, <2>4, <3>1, <3>2, Zenon
  <2>6. u[1] = Disk!Dot
    BY <2>3, <2>4, <2>5
  <2>7. u = <<Disk!Dot>>
    BY <1>2, <2>5, <2>6
  <2> QED
    BY <1>1, <2>1, <2>7, Zenon DEF u, d
<1>13. CASE ~root.slash /\ ~(n = <<>> /\ ~a)
  <2>1. target.names = n
    BY <1>9, <1>13, Zenon
  <2>2. Len(u) <= Len(n) /\ \A i \in 1 .. Len(u) : u[i] = n[i]
    BY <1>10, <2>1, Zenon DEF isPrefix
  <2>3. normal(a, u)
    <3>1. Len(n) \in Nat
      BY <1>5
    <3>2. \A i \in 1 .. Len(u) : i \in 1 .. Len(n) /\ \A j \in 1 .. (i - 1) : j \in 1 .. Len(u)
      BY <1>10, <2>2, <3>1
    <3> QED
      BY <1>6, <2>2, <3>2, Zenon DEF normal
  <2>4. PICK f : normTurns(a, u, f) /\ Disk!lexically_normal(root) = normalForm(root, f[Len(u)])
    BY <1>2, NormalFormIs DEF a, u
  <2>5. f[Len(u)] = u
    BY <1>2, <2>3, <2>4, NormalFixed
  <2>6. Disk!lexically_normal(root) = normalForm(root, u)
    BY <2>4, <2>5, Zenon
  <2> DEFINE c == u # <<>> /\ Last(u) # Disk!DotDot /\ endsOpen(root)
  <2>7. ~(u = <<>> /\ ~root.absolute)
    BY DEF u
  <2>8. Disk!lexically_normal(root) = path(root.absolute, u, c)
    BY <2>6, <2>7, Zenon DEF normalForm
  <2>9. u # <<>> => Last(u) # Disk!Dot
    <3>1. u # <<>> => Len(u) \in 1 .. Len(u)
      BY <1>2
    <3> QED
      BY <2>3, <3>1 DEF normal, Last
  <2>10. c = FALSE
    BY <1>13, <2>9 DEF endsOpen, u
  <2>11. root.slash = FALSE
    BY <1>2, <1>13
  <2>12. Disk!lexically_normal(root) = root
    BY <1>2, <2>8, <2>10, <2>11, Zenon DEF a
  <2>13. root.names = << <<".">> >>
    BY <1>13, <2>12, Zenon DEF plain
  <2>14. u[1] = Disk!Dot /\ 1 \in 1 .. Len(u)
    <3>1. \A y : Len(<<y>>) = 1 /\ <<y>>[1] = y /\ 1 \in 1 .. Len(<<y>>)
      OBVIOUS
    <3> QED
      BY <2>13, <3>1, DiskText, Zenon DEF u
  <2> QED
    BY <2>3, <2>14, Zenon DEF normal
<1> QED
  BY <1>11, <1>12, <1>13

\* An answer of mapPath below a plain root is a path.
LEMMA PlainIsPath ==
    ASSUME NEW r \in Seq(STRING), NEW s \in Seq(STRING)
    PROVE  leads(Disk!asPath(r), s) # None
<1> DEFINE root == Disk!asPath(r)
           T == Seq(Seq(STRING))
<1>0. r \in Str
  BY DEF Str, Chars
<1>1. root \in Path
  BY <1>0, AsPathIs
<1>2. root.names = words(r, {"/"}) /\ root.absolute \in BOOLEAN
  <2> DEFINE a == r # <<>> /\ r[1] = "/"
             n == words(r, {"/"})
             b == n # <<>> /\ Last(r) = "/"
  <2>1. root = path(a, n, b)
    BY <1>0, AsPathIs, Zenon
  <2> HIDE DEF a, n, b, root
  <2>2. root.names = n
    BY <2>1, PathFields
  <2>3. root.absolute \in BOOLEAN
    BY <1>1, PathIs
  <2> QED
    BY <2>2, <2>3 DEF n
<1>3. words(r, {"/"}) \in T /\ words(s, {"/"}) \in T
  BY WordsAreRuns, Zenon
<1>4. kept(s) \in T
  <2> DEFINE w == words(s, {"/"})
             S == Seq(STRING)
  <2> HIDE DEF w, S
  <2>1. w \in Seq(S)
    BY <1>3 DEF w, S
  <2>2. PICK f : withoutTurns(w, Disk!Dot, f) /\ without(w, Disk!Dot) = f[Len(w)]
    BY <2>1, WithoutIs
  <2>3. \A k \in 0 .. Len(w) : f[k] \in Seq(S \ {Disk!Dot})
    BY <2>1, <2>2, WithoutTyped, Zenon
  <2>4. Len(w) \in 0 .. Len(w)
    BY <2>1
  <2>5. without(w, Disk!Dot) \in Seq(S \ {Disk!Dot})
    BY <2>2, <2>3, <2>4, Zenon
  <2>6. without(w, Disk!Dot) \in Seq(S)
    BY <2>5
  <2> QED
    BY <2>6 DEF kept, w, S
<1> DEFINE n == root.names \o kept(s)
           c == leads(root, s).slash
<1>5. n \in T
  <2>1. \A x, y \in T : x \o y \in T
    BY ConcatProperties
  <2> HIDE DEF T, root
  <2> QED
    BY <1>2, <1>3, <1>4, <2>1, Zenon
<1>6. leads(root, s) = path(root.absolute, n, c) /\ c \in BOOLEAN
  BY <1>1, LeadsIs
<1> HIDE DEF n, c, root, T
<1>7. path(root.absolute, n, c) \in [absolute : BOOLEAN, names : T, slash : BOOLEAN]
  BY <1>2, <1>5, <1>6 DEF path
<1>8. None \notin [absolute : BOOLEAN, names : T, slash : BOOLEAN]
  BY NoneAssumption, Zenon DEF T
<1>9. leads(root, s) # None
  BY <1>6, <1>7, <1>8, Zenon
<1> QED
  BY <1>9 DEF root

\* For every root and every path, of any length: below a plain root exactly
\* the relative paths without ".." lead to a file, which lies below the root
\* and is found again under its key; any other root accepts no name below it.
THEOREM PathsAreContained == Spec => []PathsContained
<1>1. IInv => PathsContained
  <2> SUFFICES ASSUME IInv, job.kind = "path", NEW r \in Roots
               PROVE  LET root == Disk!asPath(r)
                          file == Disk!mapPath(root, buffer)
                          names == without(words(buffer, {"/"}), <<".">>)
                      IN  IF ~plain(root)
                          THEN file # None => file.names = root.names
                          ELSE /\ (file # None) <=> (buffer # <<>> /\ buffer[1] # "/" /\ ~traverses(buffer))
                               /\ file # None => file.names = root.names \o names
                               /\ file # None /\ names # <<>> /\ ~file.slash =>
                                      Disk!mapPath(root, Disk!toRelativeKey(root, file)) = file
    BY DEF PathsContained
  <2> DEFINE b == buffer
             root == Disk!asPath(r)
             file == Disk!mapPath(root, b)
  <2>1. b \in Seq(STRING) /\ b \in Str
    <3>1. job.text \in Seq(STRING)
      BY JobsAssumption DEF IInv
    <3>2. fed \in Nat /\ fed <= Len(job.text)
      BY JobText
    <3>3. SubSeq(job.text, 1, fed) \in Seq(STRING)
      BY <3>1, <3>2, SubSeqProperties
    <3> QED
      BY <3>3, JobText DEF buffer
  <2>2. r \in Seq(STRING) /\ r # <<>> /\ r \in Str
    <3>1. r \in Seq(STRING) /\ r # <<>>
      BY JobsAssumption
    <3> QED
      BY <3>1 DEF Str, Chars
  <2>3. root \in Path /\ (root.absolute \/ root.names # <<>>)
    <3> DEFINE a == r # <<>> /\ r[1] = "/"
               n == words(r, {"/"})
               c == n # <<>> /\ Last(r) = "/"
    <3>1. root = path(a, n, c) /\ root \in Path
      BY <2>2, AsPathIs, Zenon
    <3>2. a \/ n # <<>>
      BY <2>2, WordsNotEmpty
    <3> HIDE DEF a, n, c, root
    <3>3. root.absolute = a /\ root.names = n
      BY <3>1, PathFields
    <3> QED
      BY <3>1, <3>2, <3>3
  <2> HIDE DEF b, root
  <2>4. CASE ~plain(root)
    <3>1. file # None => file.names = root.names
      BY <2>1, <2>3, <2>4, OtherRoots, Zenon
    <3> QED
      BY <2>4, <3>1 DEF b, root
  <2>5. CASE plain(root)
    <3>1. relative(b) <=> b # <<>> /\ b[1] # "/" /\ ~traverses(b)
      <4>1. <<".", ".">> \in ToSet(words(b, {"/"})) <=> traverses(b)
        BY <2>1, TraversesIs
      <4> QED
        BY <4>1, DiskText, Zenon DEF relative
    <3>2. relative(b) => file = leads(root, b)
      BY <2>1, <2>3, <2>5, PlainTarget, Zenon
    <3>3. ~relative(b) => file = None
      BY <2>1, <2>3, MapPathIs, Zenon
    <3>4. leads(root, b) # None
      BY <2>1, <2>2, PlainIsPath DEF root
    <3>5. file # None <=> relative(b)
      BY <3>2, <3>3, <3>4, Zenon
    <3>6. kept(b) = without(words(b, {"/"}), <<".">>)
      BY DiskText, Zenon DEF kept
    <3>7. file # None => file.names = root.names \o kept(b)
      BY <2>3, <3>2, <3>5, LeadsIs, Zenon
    <3>8. file # None /\ kept(b) # <<>> /\ ~file.slash =>
            Disk!mapPath(root, Disk!toRelativeKey(root, file)) = file
      BY <2>1, <2>3, <2>5, <3>2, <3>5, PlainBack, Zenon
    <3> HIDE DEF file
    <3>9. /\ (file # None) <=> (b # <<>> /\ b[1] # "/" /\ ~traverses(b))
          /\ file # None => file.names = root.names \o without(words(b, {"/"}), <<".">>)
          /\ file # None /\ without(words(b, {"/"}), <<".">>) # <<>> /\ ~file.slash =>
                Disk!mapPath(root, Disk!toRelativeKey(root, file)) = file
      BY <3>1, <3>5, <3>6, <3>7, <3>8, Zenon
    <3> QED
      BY <2>5, <3>9, Zenon DEF b, root, file
  <2> QED
    BY <2>4, <2>5
<1> QED
  BY <1>1, Feeding, PTL
=============================================================================
