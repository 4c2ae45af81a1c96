-------------------------- MODULE AuthHeaderProofs --------------------------
(***************************************************************************)
(* What is written into a header is read out of it.  A quoted value is     *)
(* read as the text it was escaped from, whatever is in it; the parameters *)
(* of a challenge stand in its header one behind the other, and from the   *)
(* end of one the scanner finds the next.                                  *)
(***************************************************************************)
EXTENDS AuthHeader, Induction, SequenceTheorems, TLAPS

-----------------------------------------------------------------------------
(***************************************************************************)
(* Texts put together.                                                     *)
(***************************************************************************)

LEMMA FlattenIsLast ==
    ASSUME NEW s \in Seq(Text), s # <<>>
    PROVE  \E f \in [1 .. Len(s) -> Text] :
             /\ FlattenSeq(s) = f[Len(s)] /\ f[1] = s[1]
             /\ \A k \in 1 .. Len(s) - 1 : f[k + 1] = f[k] \o s[k + 1]
<1> DEFINE n == Len(s)
           F == [k \in 1 .. n - 1 |-> [x \in Text |-> x \o s[k + 1]]]
           Flat(f) == [i \in 1 .. n |-> IF i = 1 THEN s[i] ELSE f[i - 1] \o s[i]]
           flatten == CHOOSE f : f = Flat(f)
<1>1. n \in Nat /\ n >= 1 /\ \A k \in 1 .. n : s[k] \in Text
  BY EmptySeq, LenProperties, ElementOfSeq
<1> HIDE DEF n
<1>2. \A x \in Text, y \in Text : x \o y \in Text
  BY ConcatProperties DEF Text
<1>3. F \in [1 .. n - 1 -> [Text -> Text]]
  BY <1>1, <1>2
<1>4. PICK g \in [0 .. n - 1 -> Text] : g[0] = s[1] /\ \A k \in 1 .. n - 1 : g[k] = F[k][g[k - 1]]
  <2> HIDE DEF F
  <2>1. s[1] \in Text /\ n - 1 \in Nat
    BY <1>1
  <2>2. Chain(n - 1, Text, s[1], F) # {}
    BY <1>3, <2>1, Recursion, Zenon
  <2> QED
    BY <2>2 DEF Chain
<1>5. \A k \in 1 .. n - 1 : g[k] = g[k - 1] \o s[k + 1]
  <2> SUFFICES ASSUME NEW k \in 1 .. n - 1 PROVE g[k] = g[k - 1] \o s[k + 1]
    OBVIOUS
  <2>1. g[k - 1] \in Text
    BY <1>1, <1>4
  <2>2. F[k] = [x \in Text |-> x \o s[k + 1]]
    BY <1>1
  <2> QED
    BY <1>4, <2>1, <2>2
<1> DEFINE h == [i \in 1 .. n |-> g[i - 1]]
<1>6. h = Flat(h)
  <2>1. ASSUME NEW i \in 1 .. n, i # 1 PROVE g[i - 1] = h[i - 1] \o s[i]
    <3>1. i - 1 \in 1 .. n - 1 /\ i - 1 \in 1 .. n /\ (i - 1) + 1 = i
      BY <1>1, <2>1
    <3>2. g[i - 1] = g[(i - 1) - 1] \o s[i]
      BY <1>5, <3>1
    <3> QED
      BY <3>1, <3>2
  <2>2. g[1 - 1] = s[1]
    BY <1>4
  <2>3. \A i \in 1 .. n : h[i] = IF i = 1 THEN s[i] ELSE h[i - 1] \o s[i]
    BY <2>1, <2>2
  <2> HIDE DEF h
  <2>4. DOMAIN h = 1 .. n /\ h = [i \in 1 .. n |-> h[i]]
    BY DEF h
  <2> QED
    BY <2>3, <2>4
<1>7. flatten = Flat(flatten)
  <2> HIDE DEF Flat, h
  <2> QED
    BY <1>6, Zenon
<1>8. FlattenSeq(s) = flatten[n]
  BY <1>1 DEF FlattenSeq, n
<1> HIDE DEF flatten
<1>9. flatten[1] = s[1] /\ \A k \in 1 .. n - 1 : flatten[k + 1] = flatten[k] \o s[k + 1]
  <2>1. ASSUME NEW k \in 1 .. n - 1 PROVE flatten[k + 1] = flatten[k] \o s[k + 1]
    <3>1. k + 1 \in 1 .. n /\ k + 1 # 1 /\ (k + 1) - 1 = k
      BY <1>1
    <3> QED
      BY <1>7, <3>1
  <2>2. flatten[1] = s[1]
    <3>1. 1 \in 1 .. n
      BY <1>1
    <3> QED
      BY <1>7, <3>1
  <2> QED
    BY <2>1, <2>2
<1>10. \A k \in 0 .. n - 1 : flatten[k + 1] \in Text
  <2> DEFINE T == {k \in 0 .. n - 1 : flatten[k + 1] \in Text}
  <2>1. 0 \in T
    BY <1>1, <1>9
  <2>2. ASSUME NEW k \in 0 .. (n - 1) - 1, k \in T PROVE k + 1 \in T
    <3>1. k + 1 \in 1 .. n - 1 /\ k + 1 \in 0 .. n - 1 /\ (k + 1) + 1 \in 1 .. n
      BY <1>1
    <3>2. flatten[(k + 1) + 1] = flatten[k + 1] \o s[(k + 1) + 1]
      BY <1>9, <3>1
    <3> QED
      BY <1>1, <1>2, <2>2, <3>1, <3>2
  <2> HIDE DEF T
  <2>3. n - 1 \in Nat
    BY <1>1
  <2>4. \A k \in 0 .. n - 1 : k \in T
    BY <2>1, <2>2, <2>3, UpTo
  <2> QED
    BY <2>4 DEF T
<1>11. flatten \in [1 .. n -> Text]
  <2>1. ASSUME NEW i \in 1 .. n PROVE flatten[i] \in Text
    <3>1. i - 1 \in 0 .. n - 1 /\ (i - 1) + 1 = i
      BY <1>1
    <3> QED
      BY <1>10, <3>1
  <2> QED
    BY <1>7, <2>1
<1> QED
  BY <1>8, <1>9, <1>11, Zenon DEF n

\* No texts, and a text more.
LEMMA FlattenStep ==
    /\ FlattenSeq(<<>>) = <<>>
    /\ \A s \in Seq(Text) : FlattenSeq(s) \in Text
    /\ \A s \in Seq(Text), x \in Text : FlattenSeq(Append(s, x)) = FlattenSeq(s) \o x
<1>1. FlattenSeq(<<>>) = <<>>
  BY EmptySeq DEF FlattenSeq
<1>2. ASSUME NEW s \in Seq(Text) PROVE FlattenSeq(s) \in Text
  <2>1. CASE s = <<>>
    BY <1>1, <2>1, EmptySeq DEF Text
  <2>2. CASE s # <<>>
    <3>1. PICK f \in [1 .. Len(s) -> Text] : FlattenSeq(s) = f[Len(s)]
      BY <2>2, FlattenIsLast
    <3>2. Len(s) \in 1 .. Len(s)
      BY <2>2, EmptySeq, LenProperties
    <3> QED
      BY <3>1, <3>2
  <2> QED
    BY <2>1, <2>2
<1>3. ASSUME NEW s \in Seq(Text), NEW x \in Text
      PROVE  FlattenSeq(Append(s, x)) = FlattenSeq(s) \o x
  <2> DEFINE t == Append(s, x)
             n == Len(s)
  <2>1. /\ t \in Seq(Text) /\ Len(t) = n + 1 /\ t[n + 1] = x /\ n \in Nat
        /\ \A k \in 1 .. n : t[k] = s[k]
    BY AppendProperties, LenProperties
  <2>2. t # <<>>
    BY <2>1, EmptySeq
  <2> HIDE DEF t
  <2>3. PICK g \in [1 .. n + 1 -> Text] :
          /\ FlattenSeq(t) = g[n + 1] /\ g[1] = t[1]
          /\ \A k \in 1 .. n : g[k + 1] = g[k] \o t[k + 1]
    <3>1. PICK g \in [1 .. Len(t) -> Text] :
            /\ FlattenSeq(t) = g[Len(t)] /\ g[1] = t[1]
            /\ \A k \in 1 .. Len(t) - 1 : g[k + 1] = g[k] \o t[k + 1]
      BY <2>1, <2>2, FlattenIsLast
    <3>2. Len(t) = n + 1 /\ Len(t) - 1 = n
      BY <2>1
    <3> HIDE DEF n
    <3> QED
      BY <3>1, <3>2
  <2>4. CASE s = <<>>
    <3>1. n = 0
      BY <2>4, EmptySeq
    <3>2. FlattenSeq(t) = x
      BY <2>1, <2>3, <3>1
    <3>3. <<>> \o x = x
      BY ConcatEmptySeq DEF Text
    <3> QED
      BY <1>1, <2>4, <3>2, <3>3 DEF t
  <2>5. CASE s # <<>>
    <3>1. n >= 1
      BY <2>1, <2>5, EmptySeq
    <3>2. PICK f \in [1 .. n -> Text] :
            /\ FlattenSeq(s) = f[n] /\ f[1] = s[1]
            /\ \A k \in 1 .. n - 1 : f[k + 1] = f[k] \o s[k + 1]
      BY <2>5, FlattenIsLast
    <3> DEFINE T == {k \in 0 .. n - 1 : f[k + 1] = g[k + 1]}
    <3>3. 0 \in T
      BY <2>1, <2>3, <3>1, <3>2
    <3>4. ASSUME NEW k \in 0 .. (n - 1) - 1, k \in T PROVE k + 1 \in T
      <4>1. k + 1 \in 1 .. n - 1 /\ k + 1 \in 1 .. n /\ k + 1 \in 0 .. n - 1 /\ (k + 1) + 1 \in 1 .. n
        BY <2>1, <3>1
      <4>2. f[(k + 1) + 1] = f[k + 1] \o s[(k + 1) + 1]
        BY <3>2, <4>1
      <4>3. g[(k + 1) + 1] = g[k + 1] \o t[(k + 1) + 1]
        BY <2>3, <4>1
      <4> QED
        BY <2>1, <3>4, <4>1, <4>2, <4>3
    <3> HIDE DEF T
    <3>5. n - 1 \in Nat
      BY <2>1, <3>1
    <3>6. \A k \in 0 .. n - 1 : k \in T
      BY <3>3, <3>4, <3>5, UpTo
    <3>7. f[n] = g[n]
      <4>1. n - 1 \in 0 .. n - 1 /\ (n - 1) + 1 = n
        BY <2>1, <3>1
      <4> QED
        BY <3>6, <4>1 DEF T
    <3>8. g[n + 1] = g[n] \o t[n + 1]
      <4>1. n \in 1 .. n
        BY <2>1, <3>1
      <4> QED
        BY <2>3, <4>1
    <3> QED
      BY <2>1, <2>3, <3>2, <3>7, <3>8 DEF t
  <2> QED
    BY <2>4, <2>5
<1> QED
  BY <1>1, <1>2, <1>3

\* One text begins with another.
Begins(text, front) ==
    Len(front) <= Len(text) /\ \A j \in 1 .. Len(front) : text[j] = front[j]

\* A text in front of another one.
LEMMA Behind ==
    ASSUME NEW a \in Text, NEW b \in Text
    PROVE  /\ a \o b \in Text /\ Len(a \o b) = Len(a) + Len(b)
           /\ Len(a) \in Nat /\ Len(b) \in Nat
           /\ Begins(a \o b, a)
           /\ \A j \in 1 .. Len(b) : (a \o b)[Len(a) + j] = b[j]
<1>1. Len(a) \in Nat /\ Len(b) \in Nat
  BY LenProperties DEF Text
<1>2. /\ a \o b \in Text /\ Len(a \o b) = Len(a) + Len(b)
      /\ \A i \in 1 .. Len(a) + Len(b) :
           (a \o b)[i] = IF i <= Len(a) THEN a[i] ELSE b[i - Len(a)]
  BY ConcatProperties DEF Text
<1>3. ASSUME NEW j \in 1 .. Len(a) PROVE (a \o b)[j] = a[j]
  <2>1. j \in 1 .. Len(a) + Len(b) /\ j <= Len(a)
    BY <1>1
  <2> QED
    BY <1>2, <2>1
<1>4. ASSUME NEW j \in 1 .. Len(b) PROVE (a \o b)[Len(a) + j] = b[j]
  <2>1. Len(a) + j \in 1 .. Len(a) + Len(b) /\ ~(Len(a) + j <= Len(a)) /\ (Len(a) + j) - Len(a) = j
    BY <1>1
  <2> QED
    BY <1>2, <2>1
<1> QED
  BY <1>1, <1>2, <1>3, <1>4 DEF Begins

\* What is put together of parts begins with what the first of them make.
LEMMA Grows ==
    ASSUME NEW n \in Nat, NEW P \in [0 .. n -> Text], NEW Q \in [1 .. n -> Text],
           \A k \in 0 .. n - 1 : P[k + 1] = P[k] \o Q[k + 1]
    PROVE  /\ \A m \in 0 .. n : Begins(P[n], P[m])
           /\ \A k \in 0 .. n - 1 :
                /\ Len(P[k + 1]) = Len(P[k]) + Len(Q[k + 1])
                /\ Len(P[k + 1]) <= Len(P[n])
                /\ \A j \in 1 .. Len(Q[k + 1]) : P[n][Len(P[k]) + j] = Q[k + 1][j]
<1>1. ASSUME NEW m \in 0 .. n PROVE Begins(P[n], P[m])
  <2> DEFINE T == {d \in 0 .. n - m : Begins(P[m + d], P[m])}
  <2>1. 0 \in T
    BY DEF Begins
  <2>2. ASSUME NEW d \in 0 .. (n - m) - 1, d \in T PROVE d + 1 \in T
    <3>1. /\ m + d \in 0 .. n - 1 /\ m + d \in 0 .. n /\ (m + d) + 1 = m + (d + 1)
          /\ m + (d + 1) \in 1 .. n /\ d + 1 \in 0 .. n - m
      OBVIOUS
    <3> DEFINE a == P[m + d]
               b == Q[m + (d + 1)]
    <3>2. a \in Text /\ b \in Text /\ P[m] \in Text
      BY <3>1
    <3>3. P[m + (d + 1)] = a \o b
      BY <3>1
    <3>4. Begins(a, P[m])
      BY <2>2
    <3> HIDE DEF a, b
    <3>5. Begins(a \o b, a) /\ Len(a) \in Nat /\ Len(P[m]) \in Nat /\ Len(a \o b) \in Nat
      BY <3>2, Behind
    <3>6. Begins(a \o b, P[m])
      BY <3>4, <3>5 DEF Begins
    <3> QED
      BY <3>1, <3>3, <3>6
  <2>3. n - m \in Nat
    OBVIOUS
  <2> HIDE DEF T
  <2>4. n - m \in T
    BY <2>1, <2>2, <2>3, UpTo, SMTT(30)
  <2>5. m + (n - m) = n
    OBVIOUS
  <2> QED
    BY <2>4, <2>5 DEF T
<1>2. ASSUME NEW k \in 0 .. n - 1
      PROVE  /\ Len(P[k + 1]) = Len(P[k]) + Len(Q[k + 1])
             /\ Len(P[k + 1]) <= Len(P[n])
             /\ \A j \in 1 .. Len(Q[k + 1]) : P[n][Len(P[k]) + j] = Q[k + 1][j]
  <2> DEFINE a == P[k]
             b == Q[k + 1]
  <2>1. k \in 0 .. n /\ k + 1 \in 0 .. n /\ k + 1 \in 1 .. n
    OBVIOUS
  <2>2. a \in Text /\ b \in Text /\ P[k + 1] = a \o b /\ Begins(P[n], a \o b)
    BY <1>1, <2>1
  <2> HIDE DEF a, b
  <2>3. /\ Len(a \o b) = Len(a) + Len(b) /\ Len(a) \in Nat /\ Len(b) \in Nat
        /\ \A j \in 1 .. Len(b) : (a \o b)[Len(a) + j] = b[j]
    BY <2>2, Behind
  <2>4. ASSUME NEW j \in 1 .. Len(b) PROVE P[n][Len(a) + j] = b[j]
    <3>1. Len(a) + j \in 1 .. Len(a \o b)
      BY <2>3
    <3> QED
      BY <2>2, <2>3, <3>1 DEF Begins
  <2> QED
    BY <2>2, <2>3, <2>4 DEF a, b, Begins
<1> QED
  BY <1>1, <1>2

-----------------------------------------------------------------------------
(***************************************************************************)
(* Quoting.                                                                *)
(***************************************************************************)

LEMMA ReplaceStep ==
    ASSUME NEW c \in Int, NEW by \in Text
    PROVE  /\ Replace(<<>>, c, by) = <<>>
           /\ \A v \in Text : Replace(v, c, by) \in Text
           /\ \A v \in Text, x \in Int :
                Replace(Append(v, x), c, by)
                  = Replace(v, c, by) \o (IF x = c THEN by ELSE <<x>>)
<1> DEFINE Put(x) == IF x = c THEN by ELSE <<x>>
           Parts(v) == [i \in DOMAIN v |-> IF v[i] = c THEN by ELSE <<v[i]>>]
<1>1. \A x \in Int : Put(x) \in Text
  BY DEF Text
<1>2. ASSUME NEW v \in Text
      PROVE  Parts(v) \in Seq(Text) /\ Len(Parts(v)) = Len(v) /\ Len(v) \in Nat
  <2>1. Len(v) \in Nat /\ DOMAIN v = 1 .. Len(v) /\ \A i \in 1 .. Len(v) : v[i] \in Int
    BY LenProperties, ElementOfSeq DEF Text
  <2>2. Parts(v) \in [1 .. Len(v) -> Text]
    BY <1>1, <2>1
  <2>3. Parts(v) \in Seq(Text)
    BY <2>1, <2>2, IsASeq
  <2> QED
    BY <2>1, <2>2, <2>3, LenProperties
<1>3. Replace(<<>>, c, by) = <<>>
  <2>1. Parts(<<>>) = <<>>
    BY <1>2, EmptySeq DEF Text
  <2> QED
    BY <2>1, FlattenStep DEF Replace
<1>4. ASSUME NEW v \in Text PROVE Replace(v, c, by) \in Text
  BY <1>2, FlattenStep DEF Replace
<1>5. ASSUME NEW v \in Text, NEW x \in Int
      PROVE  Replace(Append(v, x), c, by) = Replace(v, c, by) \o Put(x)
  <2> DEFINE w == Append(v, x)
             p == Parts(v)
             q == Parts(w)
             n == Len(v)
  <2>1. /\ w \in Text /\ Len(w) = n + 1 /\ w[n + 1] = x /\ n \in Nat
        /\ \A i \in 1 .. n : w[i] = v[i]
    BY AppendProperties, LenProperties DEF Text
  <2>2. DOMAIN w = 1 .. n + 1 /\ DOMAIN v = 1 .. n
    BY <2>1, LenProperties DEF Text
  <2>3. p \in Seq(Text) /\ Len(p) = n /\ q \in Seq(Text) /\ Len(q) = n + 1
    <3> HIDE DEF w, Parts
    <3> QED
      BY <1>2, <2>1
  <2>4. /\ \A i \in 1 .. n : p[i] = Put(v[i])
        /\ \A i \in 1 .. n + 1 : q[i] = Put(w[i])
    BY <2>2
  <2> HIDE DEF w, p, q
  <2>5. q = Append(p, Put(x))
    <3>1. Put(x) \in Text
      BY <1>1
    <3> HIDE DEF Put
    <3>2. /\ Append(p, Put(x)) \in Seq(Text) /\ Len(Append(p, Put(x))) = n + 1
          /\ Append(p, Put(x))[n + 1] = Put(x)
          /\ \A i \in 1 .. n : Append(p, Put(x))[i] = p[i]
      BY <2>3, <3>1, AppendProperties
    <3>3. ASSUME NEW i \in 1 .. n + 1 PROVE q[i] = Append(p, Put(x))[i]
      <4>1. CASE i = n + 1
        BY <2>1, <2>4, <3>2, <4>1
      <4>2. CASE i # n + 1
        <5>1. i \in 1 .. n
          BY <2>1, <4>2
        <5> QED
          BY <2>1, <2>4, <3>2, <5>1
      <4> QED
        BY <4>1, <4>2
    <3> QED
      BY <2>3, <3>2, <3>3, SeqEqual
  <2>6. FlattenSeq(Append(p, Put(x))) = FlattenSeq(p) \o Put(x)
    <3>1. Put(x) \in Text
      BY <1>1
    <3> HIDE DEF Put
    <3> QED
      BY <2>3, <3>1, FlattenStep
  <2> QED
    BY <2>5, <2>6 DEF Replace, p, q, w
<1> QED
  BY <1>3, <1>4, <1>5

\* What stands for a character of a quoted value.
Escaped(x) == IF x \in {Escape, Quote} THEN <<Escape, x>> ELSE <<x>>

LEMMA EscapedIsText ==
    ASSUME NEW x \in Int
    PROVE  /\ Escaped(x) \in Text
           /\ Len(Escaped(x)) = IF x \in {Escape, Quote} THEN 2 ELSE 1
           /\ x \in {Escape, Quote} => Escaped(x)[1] = Escape /\ Escaped(x)[2] = x
           /\ x \notin {Escape, Quote} => Escaped(x)[1] = x
BY DEF Escaped, Text, Escape, Quote

\* escape_quoted_value goes from character to character.
LEMMA EscapeStep ==
    /\ escape_quoted_value(<<>>) = <<>>
    /\ \A v \in Text : escape_quoted_value(v) \in Text
    /\ \A v \in Text, x \in Int :
         escape_quoted_value(Append(v, x)) = escape_quoted_value(v) \o Escaped(x)
<1> DEFINE First(v) == Replace(v, Escape, <<Escape, Escape>>)
           Second(v) == Replace(v, Quote, <<Escape, Quote>>)
<1>1. /\ Escape \in Int /\ Quote \in Int /\ Escape # Quote
      /\ <<Escape, Escape>> \in Text /\ <<Escape, Quote>> \in Text
  BY DEF Escape, Quote, Text
<1>2. \A v : escape_quoted_value(v) = Second(First(v))
  BY DEF escape_quoted_value
<1>3. /\ First(<<>>) = <<>>
      /\ \A v \in Text : First(v) \in Text
      /\ \A v \in Text, x \in Int :
           First(Append(v, x)) = First(v) \o (IF x = Escape THEN <<Escape, Escape>> ELSE <<x>>)
  BY <1>1, ReplaceStep
<1>4. /\ Second(<<>>) = <<>>
      /\ \A v \in Text : Second(v) \in Text
      /\ \A v \in Text, x \in Int :
           Second(Append(v, x)) = Second(v) \o (IF x = Quote THEN <<Escape, Quote>> ELSE <<x>>)
  BY <1>1, ReplaceStep
<1> HIDE DEF First, Second
<1>5. ASSUME NEW v \in Text, NEW x \in Int
      PROVE  Second(First(Append(v, x))) = Second(First(v)) \o Escaped(x)
  <2> DEFINE a == First(v)
  <2>1. a \in Text /\ Second(a) \in Text
    BY <1>3, <1>4
  <2> HIDE DEF a
  <2>2. \A b \in Text, y \in Int : Append(b, y) = b \o <<y>> /\ Append(b, y) \in Text
    BY AppendIsConcat, AppendProperties DEF Text
  <2>3. CASE x = Escape
    <3>1. <<Escape>> \in Text /\ <<Escape>> \o <<Escape>> = <<Escape, Escape>>
      <4>1. <<Escape>> \in Seq(Int) /\ Len(<<Escape>>) = 1 /\ <<Escape>>[1] = Escape
        BY <1>1
      <4>2. /\ <<Escape>> \o <<Escape>> \in Seq(Int) /\ Len(<<Escape>> \o <<Escape>>) = 2
            /\ (<<Escape>> \o <<Escape>>)[1] = Escape /\ (<<Escape>> \o <<Escape>>)[2] = Escape
        BY <4>1, ConcatProperties
      <4>3. /\ <<Escape, Escape>> \in Seq(Int) /\ Len(<<Escape, Escape>>) = 2
            /\ <<Escape, Escape>>[1] = Escape /\ <<Escape, Escape>>[2] = Escape
        BY <1>1
      <4>4. \A i \in 1 .. 2 : (<<Escape>> \o <<Escape>>)[i] = <<Escape, Escape>>[i]
        BY <4>2, <4>3
      <4> QED
        BY <4>1, <4>2, <4>3, <4>4, SeqEqual DEF Text
    <3>2. First(Append(v, x)) = a \o <<Escape, Escape>>
      BY <1>3, <2>3 DEF a
    <3>3. a \o <<Escape, Escape>> = (a \o <<Escape>>) \o <<Escape>>
      BY <2>1, <3>1, ConcatAssociative DEF Text
    <3>4. a \o <<Escape>> = Append(a, Escape) /\ a \o <<Escape>> \in Text
      BY <1>1, <2>1, <2>2
    <3>5. (a \o <<Escape>>) \o <<Escape>> = Append(Append(a, Escape), Escape)
      BY <1>1, <2>2, <3>4
    <3>6. Second(Append(a, Escape)) = Second(a) \o <<Escape>>
      BY <1>1, <1>4, <2>1
    <3>7. Second(Append(Append(a, Escape), Escape)) = (Second(a) \o <<Escape>>) \o <<Escape>>
      BY <1>1, <1>4, <3>4, <3>6, ZenonT(30)
    <3>8. (Second(a) \o <<Escape>>) \o <<Escape>> = Second(a) \o <<Escape, Escape>>
      BY <2>1, <3>1, ConcatAssociative DEF Text
    <3>9. Escaped(x) = <<Escape, Escape>>
      BY <2>3 DEF Escaped
    <3> QED
      BY <3>2, <3>3, <3>5, <3>7, <3>8, <3>9 DEF a
  <2>4. CASE x # Escape
    <3>1. First(Append(v, x)) = a \o <<x>>
      BY <1>3, <2>4 DEF a
    <3>2. a \o <<x>> = Append(a, x)
      BY <2>1, <2>2
    <3>3. Second(Append(a, x)) = Second(a) \o (IF x = Quote THEN <<Escape, Quote>> ELSE <<x>>)
      BY <1>4, <2>1
    <3>4. Escaped(x) = IF x = Quote THEN <<Escape, Quote>> ELSE <<x>>
      BY <2>4 DEF Escaped
    <3> QED
      BY <3>1, <3>2, <3>3, <3>4 DEF a
  <2> QED
    BY <2>3, <2>4
<1> QED
  BY <1>2, <1>3, <1>4, <1>5

\* Where the characters of a value stand in its quotation.
EscapedLen(v, k) == Len(escape_quoted_value(SubSeq(v, 1, k)))

LEMMA EscapedAt ==
    ASSUME NEW v \in Text
    PROVE  /\ EscapedLen(v, 0) = 0
           /\ EscapedLen(v, Len(v)) = Len(escape_quoted_value(v))
           /\ \A k \in 0 .. Len(v) : EscapedLen(v, k) \in Nat
           /\ \A k \in 0 .. Len(v) - 1 :
                LET x == v[k + 1]
                    at == EscapedLen(v, k)
                IN  /\ x \in Int
                    /\ EscapedLen(v, k + 1) = at + Len(Escaped(x))
                    /\ EscapedLen(v, k + 1) <= Len(escape_quoted_value(v))
                    /\ \A j \in 1 .. Len(Escaped(x)) :
                         escape_quoted_value(v)[at + j] = Escaped(x)[j]
<1> DEFINE n == Len(v)
           P == [k \in 0 .. n |-> escape_quoted_value(SubSeq(v, 1, k))]
           Q == [k \in 1 .. n |-> Escaped(v[k])]
<1>1. n \in Nat /\ \A k \in 1 .. n : v[k] \in Int
  BY LenProperties, ElementOfSeq DEF Text
<1>2. \A k \in 0 .. n : SubSeq(v, 1, k) \in Text
  <2> SUFFICES ASSUME NEW k \in 0 .. n PROVE SubSeq(v, 1, k) \in Text
    OBVIOUS
  <2>1. \A i \in 1 .. k : v[i] \in Int
    BY <1>1
  <2> QED
    BY <1>1, <2>1, SubSeqProperties DEF Text
<1>3. SubSeq(v, 1, 0) = <<>> /\ SubSeq(v, 1, n) = v
  BY <1>1, SubSeqEmpty, SubSeqFull DEF Text
<1>4. P \in [0 .. n -> Text] /\ Q \in [1 .. n -> Text]
  BY <1>1, <1>2, EscapeStep, EscapedIsText
<1>5. ASSUME NEW k \in 0 .. n - 1 PROVE P[k + 1] = P[k] \o Q[k + 1]
  <2>1. /\ k + 1 \in 1 .. n /\ k + 1 \in 0 .. n /\ k \in 0 .. n
        /\ SubSeq(v, 1, k) \in Text /\ v[k + 1] \in Int
    BY <1>1, <1>2
  <2>2. SubSeq(v, 1, k + 1) = Append(SubSeq(v, 1, k), v[k + 1])
    <3>1. SubSeq(v, 1, k + 1) = SubSeq(v, 1, (k + 1) - 1) \o <<v[k + 1]>>
      BY <1>1, <2>1, SubSeqRecursiveSecond DEF Text
    <3>2. (k + 1) - 1 = k
      BY <2>1
    <3> QED
      BY <2>1, <3>1, <3>2, AppendIsConcat DEF Text
  <2> QED
    BY <2>1, <2>2, EscapeStep
<1>6. /\ P[n] = escape_quoted_value(v) /\ P[0] = <<>>
      /\ \A k \in 0 .. n : EscapedLen(v, k) = Len(P[k])
      /\ \A k \in 1 .. n : Q[k] = Escaped(v[k])
  <2>1. 0 \in 0 .. n /\ n \in 0 .. n
    BY <1>1
  <2>2. P[n] = escape_quoted_value(v) /\ P[0] = <<>>
    BY <1>3, <2>1, EscapeStep
  <2> QED
    BY <2>2 DEF EscapedLen
<1> HIDE DEF P, Q, n
<1>7. \A k \in 0 .. n - 1 :
        /\ Len(P[k + 1]) = Len(P[k]) + Len(Q[k + 1])
        /\ Len(P[k + 1]) <= Len(P[n])
        /\ \A j \in 1 .. Len(Q[k + 1]) : P[n][Len(P[k]) + j] = Q[k + 1][j]
  BY <1>1, <1>4, <1>5, Grows
<1>8. ASSUME NEW k \in 0 .. n PROVE EscapedLen(v, k) \in Nat
  <2>1. P[k] \in Text
    BY <1>4
  <2> QED
    BY <1>6, <2>1, LenProperties DEF Text
<1>9. EscapedLen(v, 0) = 0 /\ EscapedLen(v, n) = Len(escape_quoted_value(v))
  <2>1. 0 \in 0 .. n /\ n \in 0 .. n
    BY <1>1
  <2> QED
    BY <1>6, <2>1, EmptySeq
<1>10. ASSUME NEW k \in 0 .. n - 1
       PROVE  /\ v[k + 1] \in Int
              /\ EscapedLen(v, k + 1) = EscapedLen(v, k) + Len(Escaped(v[k + 1]))
              /\ EscapedLen(v, k + 1) <= Len(escape_quoted_value(v))
              /\ \A j \in 1 .. Len(Escaped(v[k + 1])) :
                   escape_quoted_value(v)[EscapedLen(v, k) + j] = Escaped(v[k + 1])[j]
  <2>1. k + 1 \in 1 .. n /\ k + 1 \in 0 .. n /\ k \in 0 .. n
    BY <1>1
  <2> QED
    BY <1>1, <1>6, <1>7, <2>1
<1> QED
  BY <1>8, <1>9, <1>10 DEF n

-----------------------------------------------------------------------------
(***************************************************************************)
(* The pieces of the scanner.                                              *)
(***************************************************************************)

LEMMA FirstStop ==
    ASSUME NEW i \in Nat, NEW n \in Nat, NEW T \in SUBSET (i .. n), n \in T
    PROVE  \E j \in T : \A k \in i .. j - 1 : k \notin T
<1>1. T \in SUBSET Nat /\ T # {}
  OBVIOUS
<1>2. PICK j \in T : \A k \in T : j <= k
  BY <1>1, Smallest
<1>3. ASSUME NEW k \in i .. j - 1, k \in T PROVE FALSE
  BY <1>2, <1>3
<1> QED
  BY <1>2, <1>3

LEMMA UptoStops ==
    ASSUME NEW text \in Text, NEW i \in 1 .. Len(text) + 1, NEW S
    PROVE  /\ Upto(text, i, S) \in i .. Len(text) + 1
           /\ Upto(text, i, S) = Len(text) + 1 \/ text[Upto(text, i, S)] \in S
           /\ \A k \in i .. Upto(text, i, S) - 1 : text[k] \notin S
<1> DEFINE n == Len(text) + 1
           T == {j \in i .. n : j = n \/ text[j] \in S}
<1>1. Len(text) \in Nat /\ n \in Nat /\ i \in Nat /\ n \in i .. n
  BY LenProperties DEF Text
<1>2. n \in T
  BY <1>1
<1>3. \E j \in T : \A k \in i .. j - 1 : k \notin T
  <2>1. T \in SUBSET (i .. n)
    OBVIOUS
  <2> HIDE DEF T
  <2> QED
    BY <1>1, <1>2, <2>1, FirstStop
<1>4. PICK j \in i .. n : (j = n \/ text[j] \in S) /\ \A k \in i .. j - 1 : k \notin T
  BY <1>3
<1>5. \A k \in i .. j - 1 : text[k] \notin S
  <2> SUFFICES ASSUME NEW k \in i .. j - 1 PROVE text[k] \notin S
    OBVIOUS
  <2>1. k \in i .. n
    BY <1>1
  <2> QED
    BY <1>4, <2>1
<1> QED
  BY <1>4, <1>5, Zenon DEF Upto, n

LEMMA PastStops ==
    ASSUME NEW text \in Text, NEW i \in 1 .. Len(text) + 1, NEW S
    PROVE  /\ Past(text, i, S) \in i .. Len(text) + 1
           /\ Past(text, i, S) = Len(text) + 1 \/ text[Past(text, i, S)] \notin S
           /\ \A k \in i .. Past(text, i, S) - 1 : text[k] \in S
<1> DEFINE n == Len(text) + 1
           T == {j \in i .. n : j = n \/ text[j] \notin S}
<1>1. Len(text) \in Nat /\ n \in Nat /\ i \in Nat /\ n \in i .. n
  BY LenProperties DEF Text
<1>2. n \in T
  BY <1>1
<1>3. \E j \in T : \A k \in i .. j - 1 : k \notin T
  <2>1. T \in SUBSET (i .. n)
    OBVIOUS
  <2> HIDE DEF T
  <2> QED
    BY <1>1, <1>2, <2>1, FirstStop
<1>4. PICK j \in i .. n : (j = n \/ text[j] \notin S) /\ \A k \in i .. j - 1 : k \notin T
  BY <1>3
<1>5. \A k \in i .. j - 1 : text[k] \in S
  <2> SUFFICES ASSUME NEW k \in i .. j - 1 PROVE text[k] \in S
    OBVIOUS
  <2>1. k \in i .. n
    BY <1>1
  <2> QED
    BY <1>4, <2>1
<1> QED
  BY <1>4, <1>5, Zenon DEF Past, n

\* There is one such position.
LEMMA UptoIs ==
    ASSUME NEW text \in Text, NEW i \in 1 .. Len(text) + 1, NEW S,
           NEW j \in i .. Len(text) + 1,
           j = Len(text) + 1 \/ text[j] \in S,
           \A k \in i .. j - 1 : text[k] \notin S
    PROVE  Upto(text, i, S) = j
<1> DEFINE u == Upto(text, i, S)
<1>1. Len(text) \in Nat
  BY LenProperties DEF Text
<1>2. /\ u \in i .. Len(text) + 1
      /\ u = Len(text) + 1 \/ text[u] \in S
      /\ \A k \in i .. u - 1 : text[k] \notin S
  BY UptoStops
<1> HIDE DEF u
<1>3. ~(u < j)
  <2> SUFFICES ASSUME u < j PROVE FALSE
    OBVIOUS
  <2>1. u \in i .. j - 1 /\ u # Len(text) + 1
    BY <1>1, <1>2
  <2> QED
    BY <1>2, <2>1
<1>4. ~(j < u)
  <2> SUFFICES ASSUME j < u PROVE FALSE
    OBVIOUS
  <2>1. j \in i .. u - 1 /\ j # Len(text) + 1
    BY <1>1, <1>2
  <2> QED
    BY <1>2, <2>1
<1> QED
  BY <1>1, <1>2, <1>3, <1>4 DEF u

LEMMA PastIs ==
    ASSUME NEW text \in Text, NEW i \in 1 .. Len(text) + 1, NEW S,
           NEW j \in i .. Len(text) + 1,
           j = Len(text) + 1 \/ text[j] \notin S,
           \A k \in i .. j - 1 : text[k] \in S
    PROVE  Past(text, i, S) = j
<1> DEFINE u == Past(text, i, S)
<1>1. Len(text) \in Nat
  BY LenProperties DEF Text
<1>2. /\ u \in i .. Len(text) + 1
      /\ u = Len(text) + 1 \/ text[u] \notin S
      /\ \A k \in i .. u - 1 : text[k] \in S
  BY PastStops
<1> HIDE DEF u
<1>3. ~(u < j)
  <2> SUFFICES ASSUME u < j PROVE FALSE
    OBVIOUS
  <2>1. u \in i .. j - 1 /\ u # Len(text) + 1
    BY <1>1, <1>2
  <2> QED
    BY <1>2, <2>1
<1>4. ~(j < u)
  <2> SUFFICES ASSUME j < u PROVE FALSE
    OBVIOUS
  <2>1. j \in i .. u - 1 /\ j # Len(text) + 1
    BY <1>1, <1>2
  <2> QED
    BY <1>2, <2>1
<1> QED
  BY <1>1, <1>2, <1>3, <1>4 DEF u

\* A value with a character before it, as Quoted puts it.
Put(x, r) == [r EXCEPT !.value = <<x>> \o @]

\* What Quoted has at a position, given what it has behind it.
QuotedHere(text, read, j) ==
    LET end == Len(text) + 1
        here == IF text[j] = Escape /\ j + 1 < end THEN j + 1 ELSE j
    IN  IF j = end \/ text[j] = Quote
        THEN [value |-> <<>>, next |-> Min({j + 1, end})]
        ELSE Put(text[here], read[here + 1])

LEMMA PutIsRead ==
    ASSUME NEW x \in Int, NEW N, NEW r \in [value : Text, next : N]
    PROVE  /\ Put(x, r) \in [value : Text, next : N]
           /\ Put(x, r).value = <<x>> \o r.value
           /\ Put(x, r).next = r.next
<1>1. r.value \in Text /\ <<x>> \in Text
  BY DEF Text
<1>2. <<x>> \o r.value \in Text
  BY <1>1, Behind
<1> QED
  BY <1>2 DEF Put

LEMMA SmallerOfTwo ==
    ASSUME NEW a \in Int, NEW b \in Int, a <= b
    PROVE  Min({a, b}) = a
BY DEF Min

LEMMA QuotedIsRead ==
    ASSUME NEW text \in Text, NEW i \in 1 .. Len(text) + 1
    PROVE  \E read \in [i .. Len(text) + 1 -> [value : Text, next : i .. Len(text) + 1]] :
             /\ Quoted(text, i) = read[i]
             /\ \A j \in i .. Len(text) + 1 : read[j] = QuotedHere(text, read, j)
<1> DEFINE end == Len(text) + 1
           m == end - i
           R == [value : Text, next : i .. end]
           S == R \X R
           none == [value |-> <<>>, next |-> end]
           Before(j, p) ==
             IF text[j] = Quote THEN [value |-> <<>>, next |-> j + 1]
             ELSE IF text[j] = Escape /\ j + 1 < end THEN Put(text[j + 1], p[2])
             ELSE Put(text[j], p[1])
           F == [k \in 1 .. m |-> [p \in S |-> <<Before(end - k, p), p[1]>>]]
<1>1. /\ Len(text) \in Nat /\ end \in Nat /\ i \in Nat /\ m \in Nat
      /\ i <= end /\ \A j \in 1 .. Len(text) : text[j] \in Int
  BY LenProperties, ElementOfSeq DEF Text
<1> HIDE DEF R
<1>2. none \in R
  BY <1>1, EmptySeq DEF R, Text
<1>3. ASSUME NEW k \in 1 .. m, NEW p \in S PROVE <<Before(end - k, p), p[1]>> \in S
  <2>1. p[1] \in R /\ p[2] \in R /\ end - k \in i .. Len(text) /\ end - k \in 1 .. Len(text)
    BY <1>1
  <2>2. text[end - k] \in Int /\ (end - k + 1 < end => text[end - k + 1] \in Int)
    BY <1>1, <2>1
  <2>3. [value |-> <<>>, next |-> end - k + 1] \in R
    BY <1>1, <2>1, EmptySeq DEF R, Text
  <2>4. \A x \in Int, r \in R : Put(x, r) \in R
    BY PutIsRead DEF R
  <2>5. Before(end - k, p) \in R
    <3> HIDE DEF end, S
    <3> QED
      BY <2>1, <2>2, <2>3, <2>4
  <2> HIDE DEF Before
  <2> QED
    BY <2>1, <2>5
<1>4. F \in [1 .. m -> [S -> S]]
  <2> HIDE DEF Before, S, m, end
  <2> QED
    BY <1>3
<1>5. PICK c \in [0 .. m -> S] : c[0] = <<none, none>> /\ \A k \in 1 .. m : c[k] = F[k][c[k - 1]]
  <2>1. <<none, none>> \in S
    BY <1>2
  <2> HIDE DEF F, S, none, m
  <2>2. Chain(m, S, <<none, none>>, F) # {}
    BY <1>1, <1>4, <2>1, Recursion, Zenon
  <2> QED
    BY <2>2 DEF Chain
<1>6. \A k \in 1 .. m : c[k] = <<Before(end - k, c[k - 1]), c[k - 1][1]>>
  <2> SUFFICES ASSUME NEW k \in 1 .. m PROVE c[k] = <<Before(end - k, c[k - 1]), c[k - 1][1]>>
    OBVIOUS
  <2>1. c[k - 1] \in S
    <3>1. k - 1 \in 0 .. m
      BY <1>1
    <3> HIDE DEF S, m
    <3> QED
      BY <1>5, <3>1
  <2>2. F[k] = [p \in S |-> <<Before(end - k, p), p[1]>>]
    OBVIOUS
  <2> HIDE DEF F, Before, S
  <2> QED
    BY <1>5, <2>1, <2>2
<1> HIDE DEF F
<1> DEFINE g == [j \in i .. end |-> c[end - j][1]]
<1>7. ASSUME NEW j \in i .. end PROVE g[j] = QuotedHere(text, g, j) /\ g[j] \in R
  <2> DEFINE k == end - j
  <2>1. k \in 0 .. m /\ end - k = j /\ g[j] = c[k][1]
    BY <1>1
  <2>2. g[j] \in R
    <3>1. c[k] \in S
      BY <1>5, <2>1
    <3> HIDE DEF g, k
    <3> QED
      BY <2>1, <3>1
  <2>3. CASE j = end
    <3>1. g[j] = none
      <4>1. k = 0
        BY <1>1, <2>3
      <4> HIDE DEF g, k
      <4> QED
        BY <1>5, <2>1, <4>1
    <3>2. Min({j + 1, end}) = end
      <4>1. {j + 1, end} = {end, j + 1}
        OBVIOUS
      <4> QED
        BY <1>1, <2>3, <4>1, SmallerOfTwo
    <3> HIDE DEF g
    <3> QED
      BY <2>2, <2>3, <3>1, <3>2 DEF QuotedHere
  <2>4. CASE j # end
    <3>1. k \in 1 .. m /\ k - 1 \in 0 .. m /\ j < end /\ j + 1 \in i .. end /\ k - 1 = end - (j + 1)
      BY <1>1, <2>1, <2>4
    <3>2. g[j] = Before(j, c[k - 1])
      <4> HIDE DEF g, k, Before
      <4> QED
        BY <1>6, <2>1, <3>1
    <3>3. g[j + 1] = c[k - 1][1]
      BY <3>1
    <3>4. j + 1 < end => g[j + 2] = c[k - 1][2]
      <4> SUFFICES ASSUME j + 1 < end PROVE g[j + 2] = c[k - 1][2]
        OBVIOUS
      <4>1. k - 1 \in 1 .. m /\ j + 2 \in i .. end /\ (k - 1) - 1 = end - (j + 2)
        BY <1>1, <3>1
      <4>2. c[k - 1][2] = c[(k - 1) - 1][1]
        <5> DEFINE l == k - 1
        <5>1. l \in 1 .. m
          BY <4>1
        <5> HIDE DEF Before, l
        <5>2. c[l] = <<Before(end - l, c[l - 1]), c[l - 1][1]>>
          BY <1>6, <5>1
        <5> QED
          BY <5>2 DEF l
      <4> HIDE DEF k
      <4> QED
        BY <4>1, <4>2
    <3>5. Min({j + 1, end}) = j + 1
      BY <1>1, <3>1, SmallerOfTwo
    <3>6. (j + 1) + 1 = j + 2 /\ j # end
      BY <1>1, <2>4
    <3> HIDE DEF g, k
    <3>7. QuotedHere(text, g, j) = Before(j, c[k - 1])
      <4>1. CASE text[j] = Quote
        BY <3>5, <4>1 DEF QuotedHere
      <4>2. CASE text[j] # Quote /\ text[j] = Escape /\ j + 1 < end
        <5>1. QuotedHere(text, g, j) = Put(text[j + 1], g[j + 2])
          BY <3>6, <4>2 DEF QuotedHere
        <5> QED
          BY <3>4, <4>2, <5>1
      <4>3. CASE text[j] # Quote /\ ~(text[j] = Escape /\ j + 1 < end)
        <5>1. QuotedHere(text, g, j) = Put(text[j], g[j + 1])
          BY <3>6, <4>3 DEF QuotedHere
        <5> QED
          BY <3>3, <4>3, <5>1
      <4> QED
        BY <4>1, <4>2, <4>3
    <3> QED
      BY <2>2, <3>2, <3>7
  <2> QED
    BY <2>3, <2>4
<1> DEFINE Reads(f) == [j \in i .. end |-> QuotedHere(text, f, j)]
           read == CHOOSE f : f = Reads(f)
<1>8. g = Reads(g)
  <2>1. g = [j \in i .. end |-> g[j]]
    OBVIOUS
  <2> HIDE DEF g
  <2> QED
    BY <1>7, <2>1
<1>9. read = Reads(read)
  <2> HIDE DEF Reads, g
  <2> QED
    BY <1>8, Zenon
<1>10. Quoted(text, i) = read[i]
  BY DEF Quoted, QuotedHere, Put
<1> HIDE DEF read, g
<1>11. \A j \in i .. end : read[j] = QuotedHere(text, read, j)
  BY <1>9
\* There is one such function, the one that was built.
<1>12. \A d \in 0 .. m : read[end - d] = g[end - d] /\ (d >= 1 => read[end - (d - 1)] = g[end - (d - 1)])
  <2> DEFINE T == {d \in 0 .. m : read[end - d] = g[end - d]
                                  /\ (d >= 1 => read[end - (d - 1)] = g[end - (d - 1)])}
  <2>1. 0 \in T
    <3>1. end - 0 \in i .. end /\ end - 0 = end
      BY <1>1
    <3>2. read[end] = QuotedHere(text, read, end) /\ g[end] = QuotedHere(text, g, end)
      BY <1>7, <1>11, <3>1
    <3>3. read[end] = g[end]
      BY <3>2 DEF QuotedHere
    <3> QED
      BY <1>1, <3>1, <3>3
  <2>2. ASSUME NEW d \in 0 .. m - 1, d \in T PROVE d + 1 \in T
    <3> DEFINE j == end - (d + 1)
    <3>1. /\ j \in i .. end /\ j + 1 = end - d /\ j # end /\ d + 1 \in 0 .. m
          /\ (d + 1) - 1 = d /\ d + 1 >= 1
      BY <1>1
    <3>2. read[j + 1] = g[j + 1]
      BY <2>2, <3>1
    <3>3. j + 1 < end => read[j + 2] = g[j + 2]
      <4> SUFFICES ASSUME j + 1 < end PROVE read[j + 2] = g[j + 2]
        OBVIOUS
      <4>1. d >= 1 /\ end - (d - 1) = j + 2
        BY <1>1, <3>1
      <4> QED
        BY <2>2, <4>1
    <3>4. read[j] = QuotedHere(text, read, j) /\ g[j] = QuotedHere(text, g, j)
      BY <1>7, <1>11, <3>1
    <3>5. (j + 1) + 1 = j + 2
      BY <1>1
    <3> HIDE DEF j
    <3>6. QuotedHere(text, read, j) = QuotedHere(text, g, j)
      BY <3>2, <3>3, <3>5 DEF QuotedHere
    <3>7. read[j] = g[j]
      BY <3>4, <3>6
    <3> QED
      BY <3>1, <3>2, <3>7 DEF j
  <2> HIDE DEF T
  <2>3. \A d \in 0 .. m : d \in T
    BY <1>1, <2>1, <2>2, UpTo
  <2> QED
    BY <2>3 DEF T
<1>13. read \in [i .. end -> R]
  <2>1. ASSUME NEW j \in i .. end PROVE read[j] \in R
    <3>1. end - j \in 0 .. m /\ end - (end - j) = j
      BY <1>1
    <3> QED
      BY <1>7, <1>12, <3>1
  <2> QED
    BY <1>9, <2>1
<1> QED
  BY <1>10, <1>11, <1>13 DEF R

LEMMA PutIs ==
    ASSUME NEW x \in Int, NEW a \in Text, NEW b \in Nat
    PROVE  Put(x, [value |-> a, next |-> b]) = [value |-> <<x>> \o a, next |-> b]
<1> DEFINE r == [value |-> a, next |-> b]
           p == Put(x, r)
<1>1. r \in [value : Text, next : Nat] /\ r.value = a /\ r.next = b
  OBVIOUS
<1>2. p \in [value : Text, next : Nat] /\ p.value = <<x>> \o r.value /\ p.next = r.next
  BY <1>1, PutIsRead
<1>3. p = [value |-> p.value, next |-> p.next]
  <2> HIDE DEF p
  <2> QED
    BY <1>2
<1> QED
  BY <1>1, <1>2, <1>3

\* A value that was quoted is read as it was, wherever it stands and whatever
\* is in it (escape_quoted_value, parse_auth_params).
THEOREM QuotationIsRead ==
    ASSUME NEW text \in Text, NEW v \in Text, NEW i \in 1 .. Len(text),
           i + Len(escape_quoted_value(v)) <= Len(text),
           \A j \in 1 .. Len(escape_quoted_value(v)) :
             text[i - 1 + j] = escape_quoted_value(v)[j],
           text[i + Len(escape_quoted_value(v))] = Quote
    PROVE  Quoted(text, i) = [value |-> v, next |-> i + Len(escape_quoted_value(v)) + 1]
<1> DEFINE e == escape_quoted_value(v)
           n == Len(v)
           end == Len(text) + 1
           At(k) == i + EscapedLen(v, k)
           Rest(k) == [value |-> SubSeq(v, k + 1, n), next |-> i + Len(e) + 1]
<1>1. /\ Len(text) \in Nat /\ n \in Nat /\ i \in Nat /\ e \in Text /\ Len(e) \in Nat
      /\ i \in 1 .. Len(text) + 1
  BY EscapeStep, LenProperties DEF Text
<1>2. PICK read \in [i .. end -> [value : Text, next : i .. end]] :
        /\ Quoted(text, i) = read[i]
        /\ \A j \in i .. end : read[j] = QuotedHere(text, read, j)
  BY <1>1, QuotedIsRead
<1>11. /\ i + Len(e) <= Len(text) /\ text[i + Len(e)] = Quote
       /\ \A j \in 1 .. Len(e) : text[i - 1 + j] = e[j]
  OBVIOUS
<1>12. /\ EscapedLen(v, 0) = 0 /\ EscapedLen(v, n) = Len(e)
       /\ \A k \in 0 .. n : EscapedLen(v, k) \in Nat
       /\ \A k \in 0 .. n - 1 :
            /\ v[k + 1] \in Int
            /\ EscapedLen(v, k + 1) = EscapedLen(v, k) + Len(Escaped(v[k + 1]))
            /\ EscapedLen(v, k + 1) <= Len(e)
            /\ \A j \in 1 .. Len(Escaped(v[k + 1])) :
                 e[EscapedLen(v, k) + j] = Escaped(v[k + 1])[j]
  BY EscapedAt, Zenon
<1> HIDE DEF n, e
<1>3. At(0) = i /\ At(n) = i + Len(e)
  BY <1>1, <1>12
<1>4. read[At(n)] = Rest(n)
  <2>1. At(n) \in i .. end /\ At(n) # end /\ At(n) + 1 <= end /\ text[At(n)] = Quote
    BY <1>1, <1>3, <1>11
  <2>2. QuotedHere(text, read, At(n)) = [value |-> <<>>, next |-> Min({At(n) + 1, end})]
    <3> HIDE DEF At
    <3> QED
      BY <2>1 DEF QuotedHere
  <2>3. Min({At(n) + 1, end}) = At(n) + 1
    BY <1>1, <1>3, <2>1, SmallerOfTwo
  <2>4. SubSeq(v, n + 1, n) = <<>>
    BY <1>1, SubSeqEmpty DEF Text, n
  <2>5. read[At(n)] = QuotedHere(text, read, At(n))
    <3> HIDE DEF At
    <3> QED
      BY <1>2, <2>1
  <2> QED
    BY <1>3, <2>2, <2>3, <2>4, <2>5
<1>5. ASSUME NEW k \in 0 .. n - 1, read[At(k + 1)] = Rest(k + 1)
      PROVE  read[At(k)] = Rest(k)
  <2> DEFINE x == v[k + 1]
             p == At(k)
             l == Len(Escaped(x))
             o == EscapedLen(v, k)
  <2>1. /\ x \in Int
        /\ EscapedLen(v, k + 1) = o + l
        /\ EscapedLen(v, k + 1) <= Len(e)
        /\ \A j \in 1 .. l : e[o + j] = Escaped(x)[j]
    BY <1>12
  <2>2. k \in 0 .. n /\ k + 1 \in 0 .. n /\ k + 1 \in 1 .. n /\ o \in Nat /\ k \in Nat
    BY <1>1, <1>12
  <2>3. /\ l = IF x \in {Escape, Quote} THEN 2 ELSE 1
        /\ x \in {Escape, Quote} => Escaped(x)[1] = Escape /\ Escaped(x)[2] = x
        /\ x \notin {Escape, Quote} => Escaped(x)[1] = x
    BY <2>1, EscapedIsText
  <2> HIDE DEF x, l, o
  <2>10. l \in {1, 2}
    BY <2>3
  <2>11. p = i + o /\ At(k + 1) = i + (o + l)
    BY <2>1 DEF o
  <2> HIDE DEF p, At
  <2>4. \A j \in 1 .. l : text[p - 1 + j] = Escaped(x)[j]
    <3> SUFFICES ASSUME NEW j \in 1 .. l PROVE text[p - 1 + j] = Escaped(x)[j]
      OBVIOUS
    <3>1. o + j \in 1 .. Len(e) /\ i - 1 + (o + j) = p - 1 + j
      BY <1>1, <2>1, <2>2, <2>10, <2>11
    <3>2. text[i - 1 + (o + j)] = e[o + j]
      BY <1>11, <3>1
    <3> QED
      BY <2>1, <3>1, <3>2
  <2>5. /\ p \in i .. end /\ p # end /\ p \in Nat
        /\ At(k + 1) = p + l /\ At(k + 1) < end
    BY <1>1, <1>11, <2>1, <2>2, <2>10, <2>11
  <2>6. read[p] = QuotedHere(text, read, p)
    BY <1>2, <2>5
  <2>7. read[p] = Put(x, read[At(k + 1)])
    <3>1. CASE x \in {Escape, Quote}
      <4>1. 1 \in 1 .. l /\ 2 \in 1 .. l /\ p - 1 + 1 = p /\ p - 1 + 2 = p + 1
        BY <2>3, <2>5, <3>1
      <4>2. text[p] = Escape /\ text[p + 1] = x
        BY <2>3, <2>4, <3>1, <4>1
      <4>3. p + 1 < end /\ (p + 1) + 1 = At(k + 1)
        BY <1>1, <2>3, <2>5, <3>1
      <4>4. Escape # Quote
        BY DEF Escape, Quote
      <4> QED
        BY <2>5, <2>6, <4>2, <4>3, <4>4 DEF QuotedHere
    <3>2. CASE x \notin {Escape, Quote}
      <4>1. 1 \in 1 .. l /\ p - 1 + 1 = p
        BY <2>3, <2>5, <3>2
      <4>2. text[p] = x
        BY <2>3, <2>4, <3>2, <4>1
      <4>3. p + 1 = At(k + 1)
        BY <2>3, <2>5, <3>2
      <4> QED
        BY <2>5, <2>6, <3>2, <4>2, <4>3 DEF QuotedHere
    <3> QED
      BY <3>1, <3>2
  <2>8. SubSeq(v, k + 1, n) = <<x>> \o SubSeq(v, k + 2, n)
    <3>1. SubSeq(v, k + 1, n) = <<v[k + 1]>> \o SubSeq(v, (k + 1) + 1, n)
      <4>1. n \in 1 .. Len(v) /\ k + 1 \in 1 .. n /\ v \in Seq(Int)
        BY <1>1, <2>2 DEF n, Text
      <4> QED
        BY <4>1, SubSeqRecursiveFirst
    <3>2. (k + 1) + 1 = k + 2
      BY <2>2
    <3> QED
      BY <3>1, <3>2 DEF x
  <2>9. Put(x, Rest(k + 1)) = [value |-> <<x>> \o SubSeq(v, k + 2, n), next |-> i + Len(e) + 1]
    <3>1. (k + 1) + 1 = k + 2
      BY <2>2
    <3>2. SubSeq(v, k + 2, n) \in Text
      <4>1. \A j \in 1 .. n : v[j] \in Int
        BY ElementOfSeq DEF Text, n
      <4>2. \A j \in k + 2 .. n : v[j] \in Int
        BY <1>1, <2>2, <4>1
      <4>3. k + 2 \in Int
        BY <2>2
      <4> QED
        BY <1>1, <4>2, <4>3, SubSeqProperties DEF Text
    <3>3. i + Len(e) + 1 \in Nat
      BY <1>1
    <3>4. Rest(k + 1) = [value |-> SubSeq(v, k + 2, n), next |-> i + Len(e) + 1]
      BY <3>1
    <3> QED
      BY <2>1, <3>2, <3>3, <3>4, PutIs
  <2> QED
    BY <1>5, <2>7, <2>8, <2>9 DEF p
<1> DEFINE T == {d \in 0 .. n : read[At(n - d)] = Rest(n - d)}
<1>6. 0 \in T
  BY <1>1, <1>4
<1>7. ASSUME NEW d \in 0 .. n - 1, d \in T PROVE d + 1 \in T
  <2>1. n - (d + 1) \in 0 .. n - 1 /\ (n - (d + 1)) + 1 = n - d /\ d + 1 \in 0 .. n
    BY <1>1
  <2>2. read[At((n - (d + 1)) + 1)] = Rest((n - (d + 1)) + 1)
    BY <1>7, <2>1
  <2> HIDE DEF At, Rest
  <2>3. read[At(n - (d + 1))] = Rest(n - (d + 1))
    BY <1>5, <2>1, <2>2
  <2> QED
    BY <2>1, <2>3
<1> HIDE DEF T
<1>8. n \in T
  <2> HIDE DEF At, Rest
  <2>1. \A k \in 0 .. n : k \in T
    BY <1>1, <1>6, <1>7, UpTo
  <2> QED
    BY <1>1, <2>1
<1>9. read[At(0)] = Rest(0)
  <2>1. n - n = 0
    BY <1>1
  <2> HIDE DEF At, Rest
  <2> QED
    BY <1>8, <2>1 DEF T
<1>10. SubSeq(v, 0 + 1, n) = v
  BY <1>1, SubSeqFull DEF Text, n
<1> QED
  BY <1>2, <1>3, <1>9, <1>10 DEF e

LEMMA QuotedIsText ==
    ASSUME NEW text \in Text, NEW i \in 1 .. Len(text) + 1
    PROVE  Quoted(text, i) \in [value : Text, next : i .. Len(text) + 1]
<1>1. i \in i .. Len(text) + 1
  BY LenProperties DEF Text
<1>2. PICK read \in [i .. Len(text) + 1 -> [value : Text, next : i .. Len(text) + 1]] :
        Quoted(text, i) = read[i]
  BY QuotedIsRead
<1> QED
  BY <1>1, <1>2

\* A name begins where the scanner is, or behind that, and ends behind that.
LEMMA KeyPlaces ==
    ASSUME NEW text \in Text, NEW at \in 1 .. Len(text) + 1
    PROVE  /\ KeyStart(text, at) \in at .. Len(text) + 1
           /\ KeyEnd(text, at) \in KeyStart(text, at) .. Len(text) + 1
           /\ KeyStart(text, at) <= Len(text) /\ ~HasKey(text, at) =>
                KeyStart(text, at) < KeyEnd(text, at)
<1> DEFINE s == KeyStart(text, at)
           e == KeyEnd(text, at)
<1>1. Len(text) \in Nat
  BY LenProperties DEF Text
<1>2. /\ s \in at .. Len(text) + 1
      /\ s = Len(text) + 1 \/ text[s] \notin Whitespace \cup {Comma}
  BY PastStops DEF KeyStart
<1>3. s \in 1 .. Len(text) + 1
  BY <1>1, <1>2
<1>4. /\ e \in s .. Len(text) + 1
      /\ e = Len(text) + 1 \/ text[e] \in Whitespace \cup {Equals}
  <2> DEFINE u == Upto(text, s, Whitespace \cup {Equals})
  <2>1. /\ u \in s .. Len(text) + 1
        /\ u = Len(text) + 1 \/ text[u] \in Whitespace \cup {Equals}
    <3> HIDE DEF s
    <3> QED
      BY <1>3, UptoStops
  <2>2. e = u
    BY DEF KeyEnd
  <2> QED
    BY <2>1, <2>2
<1>5. s <= Len(text) /\ ~HasKey(text, at) => s < e
  <2> SUFFICES ASSUME s <= Len(text), ~HasKey(text, at), e = s PROVE FALSE
    BY <1>1, <1>3, <1>4
  <2>1. text[s] \in Whitespace \cup {Equals} /\ text[s] \notin Whitespace \cup {Comma}
    BY <1>1, <1>2, <1>3, <1>4
  <2>2. text[e] = Equals /\ e <= Len(text)
    BY <2>1
  <2> QED
    BY <2>2 DEF HasKey
<1> QED
  BY <1>2, <1>4, <1>5

\* The word without a value is passed, and nothing but that word.
LEMMA WordIsPassed ==
    ASSUME NEW text \in Text, NEW at \in 1 .. Len(text) + 1,
           KeyStart(text, at) <= Len(text), ~HasKey(text, at)
    PROVE  Upto(text, KeyEnd(text, at), Whitespace \cup {Comma}) \in at + 1 .. Len(text) + 1
<1>1. Len(text) \in Nat
  BY LenProperties DEF Text
<1>2. KeyEnd(text, at) \in at + 1 .. Len(text) + 1
  BY <1>1, KeyPlaces
<1>3. KeyEnd(text, at) \in 1 .. Len(text) + 1
  BY <1>1, <1>2
<1>4. Upto(text, KeyEnd(text, at), Whitespace \cup {Comma}) \in KeyEnd(text, at) .. Len(text) + 1
  BY <1>3, UptoStops
<1> QED
  BY <1>1, <1>2, <1>4

\* The value is a text, and the scanner goes on behind it.
LEMMA ParamIsText ==
    ASSUME NEW text \in Text, NEW at \in 1 .. Len(text) + 1,
           KeyEnd(text, at) < Len(text)
    PROVE  /\ Param(text, at).value \in Text
           /\ Param(text, at).next \in at + 1 .. Len(text) + 1
<1> DEFINE i == KeyEnd(text, at) + 1
<1>1. Len(text) \in Nat
  BY LenProperties DEF Text
<1>2. KeyEnd(text, at) \in at .. Len(text) + 1
  BY <1>1, KeyPlaces
<1>3. i \in at + 1 .. Len(text) /\ i \in 1 .. Len(text) + 1 /\ i + 1 \in 1 .. Len(text) + 1
  BY <1>1, <1>2
<1>4. Param(text, at) = IF text[i] = Quote THEN Quoted(text, i + 1) ELSE Bare(text, i)
  BY DEF Param
<1> HIDE DEF i
<1>5. CASE text[i] = Quote
  <2>1. Quoted(text, i + 1) \in [value : Text, next : i + 1 .. Len(text) + 1]
    BY <1>3, QuotedIsText
  <2> QED
    BY <1>1, <1>3, <1>4, <1>5, <2>1
<1>6. CASE text[i] # Quote
  <2> DEFINE u == Upto(text, i, Whitespace \cup {Comma})
  <2>1. u \in i .. Len(text) + 1
    BY <1>3, UptoStops
  <2>2. Bare(text, i) = [value |-> SubSeq(text, i, u - 1), next |-> u]
    BY DEF Bare
  <2> HIDE DEF u
  <2>3. SubSeq(text, i, u - 1) \in Text
    <3>1. i \in Int /\ u - 1 \in Int /\ \A k \in i .. u - 1 : text[k] \in Int
      <4>1. \A k \in 1 .. Len(text) : text[k] \in Int
        BY ElementOfSeq DEF Text
      <4> QED
        BY <1>1, <1>3, <2>1, <4>1
    <3> QED
      BY <3>1, SubSeqProperties DEF Text
  <2> QED
    BY <1>1, <1>3, <1>4, <1>6, <2>1, <2>2, <2>3
<1> QED
  BY <1>5, <1>6

-----------------------------------------------------------------------------
(***************************************************************************)
(* The header of a challenge, parameter by parameter.                      *)
(***************************************************************************)

\* The fields are texts, and the first of them is there.
Carried(c) == (\A n \in 1 .. 9 : c[Fields[n]] \in Text) /\ c.id # Absent

\* What the first of the fields make of the header.
Written(c, m) == FlattenSeq([n \in 1 .. m |-> Parameter(c, Fields[n])])

\* Where the scanner stands when it has been through them.
Stop(c, m) == IF m = 0 THEN 3 ELSE Len(Written(c, m)) + 1

LEMMA NameOfField ==
    /\ DOMAIN Fields = 1 .. 9 /\ Fields[1] = "id"
    /\ \A n \in 1 .. 9 : Name[Fields[n]] = <<39 + n>>
<1>1. DOMAIN Fields = 1 .. 9 /\ Fields[1] = "id"
  BY DEF Fields
<1>2. ASSUME NEW n \in 1 .. 9 PROVE Name[Fields[n]] = <<39 + n>>
  <2>1. CASE n = 1
    BY <2>1 DEF Fields, Name
  <2>2. CASE n = 2
    BY <2>2 DEF Fields, Name
  <2>3. CASE n = 3
    BY <2>3 DEF Fields, Name
  <2>4. CASE n = 4
    BY <2>4 DEF Fields, Name
  <2>5. CASE n = 5
    BY <2>5 DEF Fields, Name
  <2>6. CASE n = 6
    BY <2>6 DEF Fields, Name
  <2>7. CASE n = 7
    BY <2>7 DEF Fields, Name
  <2>8. CASE n = 8
    BY <2>8 DEF Fields, Name
  <2>9. CASE n = 9
    BY <2>9 DEF Fields, Name
  <2>10. n \in {1, 2, 3, 4, 5, 6, 7, 8, 9}
    OBVIOUS
  <2> QED
    BY <2>1, <2>2, <2>3, <2>4, <2>5, <2>6, <2>7, <2>8, <2>9, <2>10
<1> QED
  BY <1>1, <1>2

\* A name between a blank and an equals sign, a value between quotes.
LEMMA ParameterIs ==
    ASSUME NEW c, Carried(c), NEW n \in 1 .. 9
    PROVE  /\ Parameter(c, Fields[n]) \in Text
           /\ c[Fields[n]] = Absent => Parameter(c, Fields[n]) = <<>>
           /\ c[Fields[n]] # Absent =>
                LET p == Parameter(c, Fields[n])
                    e == escape_quoted_value(c[Fields[n]])
                IN  /\ e \in Text /\ Len(e) \in Nat /\ Len(p) = Len(e) + 6
                    /\ p[1] = Comma /\ p[2] = Blank /\ p[3] = 39 + n
                    /\ p[4] = Equals /\ p[5] = Quote
                    /\ \A j \in 1 .. Len(e) : p[5 + j] = e[j]
                    /\ p[6 + Len(e)] = Quote
<1> DEFINE f == Fields[n]
           p == Parameter(c, f)
<1>1. CASE c[f] = Absent
  BY <1>1 DEF Parameter, Text
<1>2. CASE c[f] # Absent
  <2> DEFINE e == escape_quoted_value(c[f])
             a == <<Comma, Blank>>
             b == <<39 + n>>
             d == <<Equals, Quote>>
             q == <<Quote>>
  <2>1. e \in Text
    BY EscapeStep DEF Carried
  <2>2. p = (((a \o b) \o d) \o e) \o q
    BY <1>2, NameOfField DEF Parameter
  <2>3. /\ a \in Text /\ Len(a) = 2 /\ a[1] = Comma /\ a[2] = Blank
        /\ b \in Text /\ Len(b) = 1 /\ b[1] = 39 + n
        /\ d \in Text /\ Len(d) = 2 /\ d[1] = Equals /\ d[2] = Quote
        /\ q \in Text /\ Len(q) = 1 /\ q[1] = Quote
    BY DEF Text, Comma, Blank, Equals, Quote
  <2> HIDE DEF a, b, d, e, q, p
  <2> DEFINE ab == a \o b
             abd == ab \o d
             abde == abd \o e
  <2>4. ab \in Text /\ Len(ab) = 3 /\ ab[1] = Comma /\ ab[2] = Blank /\ ab[3] = 39 + n
    <3>1. /\ ab \in Text /\ Len(ab) = Len(a) + Len(b)
          /\ \A j \in 1 .. Len(a) : ab[j] = a[j]
          /\ \A j \in 1 .. Len(b) : ab[Len(a) + j] = b[j]
      BY <2>3, Behind DEF Begins
    <3> HIDE DEF ab
    <3> QED
      BY <2>3, <3>1
  <2> HIDE DEF ab
  <2>5. /\ abd \in Text /\ Len(abd) = 5 /\ abd[1] = Comma /\ abd[2] = Blank
        /\ abd[3] = 39 + n /\ abd[4] = Equals /\ abd[5] = Quote
    <3>1. /\ abd \in Text /\ Len(abd) = Len(ab) + Len(d)
          /\ \A j \in 1 .. Len(ab) : abd[j] = ab[j]
          /\ \A j \in 1 .. Len(d) : abd[Len(ab) + j] = d[j]
      BY <2>3, <2>4, Behind DEF Begins
    <3> HIDE DEF abd
    <3> QED
      BY <2>3, <2>4, <3>1
  <2> HIDE DEF abd
  <2>6. /\ abde \in Text /\ Len(abde) = 5 + Len(e) /\ Len(e) \in Nat
        /\ \A j \in 1 .. 5 : abde[j] = abd[j]
        /\ \A j \in 1 .. Len(e) : abde[5 + j] = e[j]
    <3>1. /\ abde \in Text /\ Len(abde) = Len(abd) + Len(e) /\ Len(e) \in Nat
          /\ \A j \in 1 .. Len(abd) : abde[j] = abd[j]
          /\ \A j \in 1 .. Len(e) : abde[Len(abd) + j] = e[j]
      BY <2>1, <2>5, Behind DEF Begins
    <3> HIDE DEF abde
    <3> QED
      BY <2>5, <3>1
  <2> HIDE DEF abde
  <2>7. /\ p \in Text /\ Len(p) = (5 + Len(e)) + 1
        /\ \A j \in 1 .. 5 + Len(e) : p[j] = abde[j]
        /\ \A j \in 1 .. 1 : p[(5 + Len(e)) + j] = q[j]
    <3>1. p = abde \o q
      BY <2>2 DEF abde, abd, ab
    <3> DEFINE r == abde \o q
    <3>2. /\ r \in Text /\ Len(r) = Len(abde) + Len(q)
          /\ \A j \in 1 .. Len(abde) : r[j] = abde[j]
          /\ \A j \in 1 .. Len(q) : r[Len(abde) + j] = q[j]
      BY <2>3, <2>6, Behind, ZenonT(30) DEF Begins
    <3> HIDE DEF r
    <3>3. p = r
      BY <3>1 DEF r
    <3> QED
      BY <2>3, <2>6, <3>2, <3>3
  <2>8. \A j \in 1 .. 5 : p[j] = abd[j]
    BY <2>6, <2>7
  <2>9. \A j \in 1 .. Len(e) : p[5 + j] = e[j]
    <3> SUFFICES ASSUME NEW j \in 1 .. Len(e) PROVE p[5 + j] = e[j]
      OBVIOUS
    <3>1. 5 + j \in 1 .. 5 + Len(e)
      BY <2>6
    <3> QED
      BY <2>6, <2>7, <3>1
  <2>10. (5 + Len(e)) + 1 = 6 + Len(e) /\ (5 + Len(e)) + 1 = Len(e) + 6 /\ p[6 + Len(e)] = Quote
    BY <2>3, <2>6, <2>7
  <2> QED
    BY <1>2, <2>1, <2>5, <2>6, <2>7, <2>8, <2>9, <2>10 DEF p, e
<1> QED
  BY <1>1, <1>2

LEMMA FrontGrows ==
    ASSUME NEW c, Carried(c)
    PROVE  /\ Written(c, 0) = <<>>
           /\ \A m \in 0 .. 9 : Written(c, m) \in Text /\ Len(Written(c, m)) \in Nat
           /\ \A k \in 0 .. 8 :
                LET p == Parameter(c, Fields[k + 1])
                IN  /\ Len(Written(c, k + 1)) = Len(Written(c, k)) + Len(p)
                    /\ Len(Written(c, k + 1)) <= Len(Written(c, 9))
                    /\ \A j \in 1 .. Len(p) : Written(c, 9)[Len(Written(c, k)) + j] = p[j]
<1> DEFINE Part(n) == Parameter(c, Fields[n])
           Parts(m) == [n \in 1 .. m |-> Part(n)]
           P == [m \in 0 .. 9 |-> Written(c, m)]
           Q == [n \in 1 .. 9 |-> Part(n)]
<1>1. \A n \in 1 .. 9 : Part(n) \in Text
  BY ParameterIs
<1> HIDE DEF Part
<1>2. ASSUME NEW m \in 0 .. 9 PROVE Parts(m) \in Seq(Text) /\ Len(Parts(m)) = m
  <2>1. Parts(m) \in [1 .. m -> Text] /\ m \in Nat
    BY <1>1
  <2> HIDE DEF Parts
  <2>2. Parts(m) \in Seq(Text)
    BY <2>1, IsASeq
  <2> QED
    BY <2>1, <2>2, LenProperties
<1>3. \A m : Written(c, m) = FlattenSeq(Parts(m))
  BY DEF Written, Part
<1>4. ASSUME NEW m \in 0 .. 9 PROVE Written(c, m) \in Text /\ Len(Written(c, m)) \in Nat
  <2> HIDE DEF Parts
  <2>1. Written(c, m) \in Text
    BY <1>2, <1>3, FlattenStep
  <2> QED
    BY <2>1, LenProperties DEF Text
<1>5. Written(c, 0) = <<>>
  <2>1. Parts(0) = <<>>
    BY <1>2, EmptySeq
  <2> QED
    BY <1>3, <2>1, FlattenStep
<1>6. ASSUME NEW k \in 0 .. 9 - 1 PROVE P[k + 1] = P[k] \o Q[k + 1]
  <2> DEFINE s == Parts(k)
             t == Parts(k + 1)
             x == Part(k + 1)
  <2>1. k \in 0 .. 9 /\ k + 1 \in 0 .. 9 /\ k + 1 \in 1 .. 9
    OBVIOUS
  <2>2. s \in Seq(Text) /\ Len(s) = k /\ t \in Seq(Text) /\ Len(t) = k + 1 /\ x \in Text
    <3> HIDE DEF Parts
    <3> QED
      BY <1>1, <1>2, <2>1
  <2>3. /\ \A n \in 1 .. k : s[n] = Part(n)
        /\ \A n \in 1 .. k + 1 : t[n] = Part(n)
    OBVIOUS
  <2> HIDE DEF s, t, x
  <2>4. t = Append(s, x)
    <3>1. /\ Append(s, x) \in Seq(Text) /\ Len(Append(s, x)) = k + 1
          /\ Append(s, x)[k + 1] = x /\ \A n \in 1 .. k : Append(s, x)[n] = s[n]
      BY <2>2, AppendProperties
    <3>2. ASSUME NEW n \in 1 .. k + 1 PROVE t[n] = Append(s, x)[n]
      <4>1. CASE n = k + 1
        BY <2>3, <3>1, <4>1 DEF x
      <4>2. CASE n # k + 1
        <5>1. n \in 1 .. k
          BY <4>2
        <5> QED
          BY <2>3, <3>1, <5>1
      <4> QED
        BY <4>1, <4>2
    <3> QED
      BY <2>2, <3>1, <3>2, SeqEqual
  <2>5. FlattenSeq(t) = FlattenSeq(s) \o x
    BY <2>2, <2>4, FlattenStep
  <2>6. P[k + 1] = FlattenSeq(t) /\ P[k] = FlattenSeq(s) /\ Q[k + 1] = x
    BY <1>3, <2>1 DEF s, t, x
  <2> QED
    BY <2>5, <2>6
<1>7. P \in [0 .. 9 -> Text] /\ Q \in [1 .. 9 -> Text]
  BY <1>1, <1>4
<1>8. /\ \A m \in 0 .. 9 : P[m] = Written(c, m)
      /\ \A n \in 1 .. 9 : Q[n] = Part(n)
  OBVIOUS
<1> HIDE DEF P, Q
<1>9. \A k \in 0 .. 9 - 1 :
        /\ Len(P[k + 1]) = Len(P[k]) + Len(Q[k + 1])
        /\ Len(P[k + 1]) <= Len(P[9])
        /\ \A j \in 1 .. Len(Q[k + 1]) : P[9][Len(P[k]) + j] = Q[k + 1][j]
  <2>1. 9 \in Nat
    OBVIOUS
  <2> QED
    BY <1>6, <1>7, <2>1, Grows, Zenon
<1>10. ASSUME NEW k \in 0 .. 8
       PROVE  /\ Len(Written(c, k + 1)) = Len(Written(c, k)) + Len(Part(k + 1))
              /\ Len(Written(c, k + 1)) <= Len(Written(c, 9))
              /\ \A j \in 1 .. Len(Part(k + 1)) :
                   Written(c, 9)[Len(Written(c, k)) + j] = Part(k + 1)[j]
  <2>1. k \in 0 .. 9 - 1 /\ k \in 0 .. 9 /\ k + 1 \in 0 .. 9 /\ k + 1 \in 1 .. 9 /\ 9 \in 0 .. 9
    OBVIOUS
  <2> QED
    BY <1>8, <1>9, <2>1, ZenonT(30)
<1> QED
  BY <1>4, <1>5, <1>10 DEF Part

LEMMA FrontIsFilled ==
    ASSUME NEW c, Carried(c)
    PROVE  \A k \in 1 .. 9 : Len(Written(c, k)) >= 6
<1> DEFINE T == {k \in 0 .. 9 - 1 : Len(Written(c, k + 1)) >= 6}
<1>1. 0 \in T
  <2>1. 0 \in 0 .. 8 /\ 0 + 1 = 1 /\ 0 \in 0 .. 9 /\ 1 \in 1 .. 9
    OBVIOUS
  <2>2. /\ Len(Written(c, 1)) = Len(Written(c, 0)) + Len(Parameter(c, Fields[1]))
        /\ Written(c, 0) = <<>>
    BY <2>1, FrontGrows
  <2>3. c[Fields[1]] # Absent
    BY NameOfField DEF Carried
  <2>4. Len(Parameter(c, Fields[1])) >= 6
    BY <2>1, <2>3, ParameterIs
  <2>5. Len(Written(c, 1)) >= 6
    BY <2>2, <2>4, EmptySeq
  <2> QED
    BY <2>1, <2>5
<1>2. ASSUME NEW k \in 0 .. 8 - 1, k \in T PROVE k + 1 \in T
  <2> DEFINE p == Parameter(c, Fields[(k + 1) + 1])
  <2>1. k + 1 \in 0 .. 8 /\ k + 1 \in 0 .. 9 /\ (k + 1) + 1 \in 1 .. 9
    OBVIOUS
  <2>2. Len(Written(c, (k + 1) + 1)) = Len(Written(c, k + 1)) + Len(p) /\ Len(Written(c, k + 1)) \in Nat
    BY <2>1, FrontGrows
  <2>3. Len(p) \in Nat
    BY <2>1, ParameterIs, LenProperties DEF Text
  <2> HIDE DEF p
  <2>4. Len(Written(c, (k + 1) + 1)) >= 6
    BY <1>2, <2>2, <2>3
  <2> QED
    BY <2>1, <2>4
<1> HIDE DEF T
<1>3. \A k \in 0 .. 8 : k \in T
  <2>1. 8 \in Nat
    OBVIOUS
  <2> QED
    BY <1>1, <1>2, <2>1, UpTo
<1> SUFFICES ASSUME NEW k \in 1 .. 9 PROVE Len(Written(c, k)) >= 6
  OBVIOUS
<1>4. k - 1 \in 0 .. 8 /\ (k - 1) + 1 = k
  OBVIOUS
<1>5. k - 1 \in T
  BY <1>3, <1>4
<1> QED
  BY <1>4, <1>5 DEF T

\* The scheme, and the fields behind it.
LEMMA FormattedIs ==
    ASSUME NEW c, Carried(c)
    PROVE  LET h == format_www_authenticate(c)
           IN  \/ /\ h = Err
                  /\ \E n \in 1 .. 9 : LineBreak \in ToSet(c[Fields[n]])
               \/ /\ h # Err
                  /\ h \in Text /\ Len(h) = Len(Written(c, 9)) /\ Len(h) \in Nat /\ Len(h) >= 6
                  /\ h[1] = PaymentScheme
                  /\ \A j \in 2 .. Len(h) : h[j] = Written(c, 9)[j]
<1> DEFINE F == Written(c, 9)
           h == format_www_authenticate(c)
           p == <<PaymentScheme>>
           r == p \o Tail(F)
           broken == \E n \in 1 .. 9 : LineBreak \in ToSet(c[Fields[n]])
<1>1. h = IF broken THEN Err ELSE r
  BY NameOfField DEF format_www_authenticate, Written
<1>2. F \in Text /\ Len(F) \in Nat /\ Len(F) >= 6
  <2>1. 9 \in 0 .. 9 /\ 9 \in 1 .. 9
    OBVIOUS
  <2> QED
    BY <2>1, FrontGrows, FrontIsFilled
<1>3. p \in Text /\ Len(p) = 1 /\ p[1] = PaymentScheme
  BY DEF Text, PaymentScheme, Payment
<1> HIDE DEF F, h, p, broken
<1>4. /\ Tail(F) \in Text /\ Len(Tail(F)) = Len(F) - 1
      /\ \A j \in 1 .. Len(Tail(F)) : Tail(F)[j] = F[j + 1]
  <2>1. F # <<>>
    BY <1>2, EmptySeq
  <2> QED
    BY <1>2, <2>1, HeadTailProperties DEF Text
<1>5. /\ r \in Text /\ Len(r) = 1 + (Len(F) - 1)
      /\ \A j \in 1 .. 1 : r[j] = p[j]
      /\ \A j \in 1 .. Len(F) - 1 : r[1 + j] = Tail(F)[j]
  <2> DEFINE t == Tail(F)
  <2>1. t \in Text /\ Len(t) = Len(F) - 1
    BY <1>4
  <2> HIDE DEF t
  <2>2. /\ p \o t \in Text /\ Len(p \o t) = Len(p) + Len(t)
        /\ \A j \in 1 .. Len(p) : (p \o t)[j] = p[j]
        /\ \A j \in 1 .. Len(t) : (p \o t)[Len(p) + j] = t[j]
    BY <1>3, <2>1, Behind DEF Begins
  <2>3. r = p \o t
    BY DEF t
  <2> HIDE DEF r
  <2>4. /\ r \in Text /\ Len(r) = 1 + (Len(F) - 1)
        /\ \A j \in 1 .. 1 : r[j] = p[j]
        /\ \A j \in 1 .. Len(F) - 1 : r[1 + j] = t[j]
    BY <1>3, <2>1, <2>2, <2>3
  <2> QED
    BY <2>4 DEF t
<1> HIDE DEF r
<1>6. Len(r) = Len(F) /\ r[1] = PaymentScheme
  BY <1>2, <1>3, <1>5
<1>7. ASSUME NEW j \in 2 .. Len(r) PROVE r[j] = F[j]
  <2>1. j - 1 \in 1 .. Len(F) - 1 /\ 1 + (j - 1) = j /\ (j - 1) + 1 = j
    BY <1>2, <1>6
  <2> QED
    BY <1>4, <1>5, <2>1
<1>8. r # Err
  BY <1>6 DEF Err, PaymentScheme, Payment
<1> QED
  BY <1>1, <1>2, <1>5, <1>6, <1>7, <1>8 DEF F, h, broken

\* A field that is not there takes no place.
LEMMA NothingIsPassed ==
    ASSUME NEW c, Carried(c), NEW k \in 0 .. 8, c[Fields[k + 1]] = Absent
    PROVE  k # 0 /\ Stop(c, k + 1) = Stop(c, k)
<1>1. k # 0
  BY NameOfField DEF Carried
<1>2. Parameter(c, Fields[k + 1]) = <<>>
  BY ParameterIs
<1>3. Len(Written(c, k + 1)) = Len(Written(c, k)) + 0 /\ Len(Written(c, k)) \in Nat
  <2>1. k \in 0 .. 9 /\ Len(<<>>) = 0
    BY EmptySeq
  <2> QED
    BY <1>2, <2>1, FrontGrows, ZenonT(30)
<1> QED
  BY <1>1, <1>3 DEF Stop

LEMMA NextField ==
    ASSUME NEW c, Carried(c), NEW m \in 0 .. 9
    PROVE  \E k \in m .. 9 :
             /\ Stop(c, k) = Stop(c, m)
             /\ \A n \in m + 1 .. k : c[Fields[n]] = Absent
             /\ k = 9 \/ c[Fields[k + 1]] # Absent
<1> DEFINE T == {k \in m .. 9 : k = 9 \/ c[Fields[k + 1]] # Absent}
<1>1. PICK k \in T : \A l \in m .. k - 1 : l \notin T
  <2>1. T \in SUBSET (m .. 9) /\ 9 \in T /\ m \in Nat /\ 9 \in Nat
    OBVIOUS
  <2> HIDE DEF T
  <2> QED
    BY <2>1, FirstStop
<1>2. ASSUME NEW l \in m .. k - 1 PROVE c[Fields[l + 1]] = Absent
  BY <1>1
<1>3. ASSUME NEW n \in m + 1 .. k PROVE c[Fields[n]] = Absent
  <2>1. n - 1 \in m .. k - 1 /\ (n - 1) + 1 = n
    OBVIOUS
  <2> QED
    BY <1>2, <2>1
<1>4. Stop(c, k) = Stop(c, m)
  <2> DEFINE S == {d \in 0 .. k - m : Stop(c, m + d) = Stop(c, m)}
  <2>1. 0 \in S
    OBVIOUS
  <2>2. ASSUME NEW d \in 0 .. (k - m) - 1, d \in S PROVE d + 1 \in S
    <3>1. m + d \in m .. k - 1 /\ m + d \in 0 .. 8 /\ (m + d) + 1 = m + (d + 1) /\ d + 1 \in 0 .. k - m
      OBVIOUS
    <3>2. Stop(c, (m + d) + 1) = Stop(c, m + d)
      BY <1>2, <3>1, NothingIsPassed
    <3> QED
      BY <2>2, <3>1, <3>2
  <2>3. k - m \in Nat
    OBVIOUS
  <2> HIDE DEF S
  <2>4. k - m \in S
    BY <2>1, <2>2, <2>3, UpTo
  <2>5. m + (k - m) = k
    OBVIOUS
  <2> QED
    BY <2>4, <2>5 DEF S
<1> QED
  BY <1>1, <1>3, <1>4

\* The scanner comes to stand behind the scheme.
LEMMA SchemeIsPassed ==
    ASSUME NEW c, Carried(c), format_www_authenticate(c) # Err,
           NEW text \in Text, Begins(text, format_www_authenticate(c))
    PROVE  HasScheme(text) /\ IsPayment(text) /\ Params(text) = Stop(c, 0)
<1> DEFINE h == format_www_authenticate(c)
           n == Len(text)
<1>1. h \in Text /\ Len(h) = Len(Written(c, 9)) /\ Len(h) \in Nat /\ Len(h) >= 6 /\ h[1] = PaymentScheme
  BY FormattedIs
<1>2. h[2] = Written(c, 9)[2] /\ h[3] = Written(c, 9)[3]
  <2>1. 2 \in 2 .. Len(h) /\ 3 \in 2 .. Len(h)
    BY <1>1
  <2> QED
    BY <2>1, FormattedIs
<1>3. Written(c, 9)[2] = Blank /\ Written(c, 9)[3] = 40
  <2> DEFINE p == Parameter(c, Fields[0 + 1])
  <2>1. 0 \in 0 .. 8 /\ 0 + 1 \in 1 .. 9 /\ Written(c, 0) = <<>>
    BY FrontGrows
  <2>2. c[Fields[0 + 1]] # Absent
    BY NameOfField DEF Carried
  <2>3. Len(p) >= 6 /\ Len(p) \in Nat /\ p[2] = Blank /\ p[3] = 39 + (0 + 1)
    BY <2>1, <2>2, ParameterIs
  <2>4. \A j \in 1 .. Len(p) : Written(c, 9)[Len(Written(c, 0)) + j] = p[j]
    BY <2>1, FrontGrows
  <2>5. Len(Written(c, 0)) = 0 /\ 2 \in 1 .. Len(p) /\ 3 \in 1 .. Len(p)
    BY <2>1, <2>3, EmptySeq
  <2> HIDE DEF p
  <2> QED
    BY <2>3, <2>4, <2>5
<1> HIDE DEF h
<1>4. n \in Nat /\ n >= 6 /\ text[1] = PaymentScheme /\ text[2] = Blank /\ text[3] = 40
  <2>1. n \in Nat
    BY LenProperties DEF Text
  <2>2. 1 \in 1 .. Len(h) /\ 2 \in 1 .. Len(h) /\ 3 \in 1 .. Len(h)
    BY <1>1
  <2>3. Len(h) <= n /\ text[1] = h[1] /\ text[2] = h[2] /\ text[3] = h[3]
    BY <2>2 DEF Begins, h
  <2> QED
    BY <1>1, <1>2, <1>3, <2>1, <2>3
<1> HIDE DEF n
<1>5. PaymentScheme \notin Whitespace /\ Blank \in Whitespace /\ 40 \notin Whitespace
  BY DEF PaymentScheme, Payment, Whitespace, Blank, Tab, LineBreak
<1>6. Past(text, 1, Whitespace) = 1
  <2>1. 1 \in 1 .. Len(text) + 1 /\ \A k \in 1 .. 1 - 1 : text[k] \in Whitespace
    BY <1>4 DEF n
  <2> QED
    BY <1>4, <1>5, <2>1, PastIs
<1>7. lowercase(text)[1] = Payment
  <2>1. 1 \in DOMAIN text
    BY <1>4, LenProperties DEF Text, n
  <2>2. text[1] \in Upper /\ text[1] - 20 = Payment
    BY <1>4 DEF Upper, PaymentScheme, Payment
  <2> QED
    BY <2>1, <2>2 DEF lowercase
<1>8. ASSUME NEW S, Blank \in S PROVE Scheme(text, S) = 1
  <2>1. 1 < Len(text) /\ text[1 + 1] \in S
    BY <1>4, <1>8 DEF n
  <2> QED
    BY <1>6, <1>7, <2>1 DEF Scheme
<1>9. Scheme(text, {Blank, Tab}) = 1 /\ Scheme(text, {Blank}) = 1
  BY <1>8
<1>10. Past(text, 2, Whitespace) = 3
  <2>1. /\ 2 \in 1 .. Len(text) + 1 /\ 3 \in 2 .. Len(text) + 1
        /\ \A k \in 2 .. 3 - 1 : k = 2
    BY <1>4 DEF n
  <2> QED
    BY <1>4, <1>5, <2>1, PastIs
<1> QED
  BY <1>9, <1>10 DEF HasScheme, IsPayment, Params, Stop

\* A name of one character.
LEMMA KeyIs ==
    ASSUME NEW text \in Text, NEW at \in 1 .. Len(text) + 1, NEW s \in at .. Len(text) - 1,
           \A k \in at .. s - 1 : text[k] \in Whitespace \cup {Comma},
           text[s] \notin Whitespace \cup {Comma, Equals},
           text[s + 1] \in Whitespace \cup {Equals}
    PROVE  /\ KeyStart(text, at) = s /\ KeyEnd(text, at) = s + 1
           /\ Key(text, at) = <<text[s]>>
<1>1. Len(text) \in Nat /\ \A k \in 1 .. Len(text) : text[k] \in Int
  BY LenProperties, ElementOfSeq DEF Text
<1>2. KeyStart(text, at) = s
  <2>1. s \in at .. Len(text) + 1 /\ text[s] \notin Whitespace \cup {Comma}
    BY <1>1
  <2> QED
    BY <2>1, PastIs DEF KeyStart
<1>3. KeyEnd(text, at) = s + 1
  <2>1. /\ s \in 1 .. Len(text) + 1 /\ s + 1 \in s .. Len(text) + 1
        /\ \A k \in s .. (s + 1) - 1 : k = s
    BY <1>1
  <2>2. text[s] \notin Whitespace \cup {Equals}
    OBVIOUS
  <2>3. Upto(text, s, Whitespace \cup {Equals}) = s + 1
    BY <2>1, <2>2, UptoIs
  <2> QED
    BY <1>2, <2>3 DEF KeyEnd
<1>4. SubSeq(text, s, s) = <<text[s]>>
  <2>1. s \in Int /\ \A k \in s .. s : text[k] \in Int
    BY <1>1
  <2>2. /\ SubSeq(text, s, s) \in Seq(Int) /\ Len(SubSeq(text, s, s)) = 1
        /\ SubSeq(text, s, s)[1] = text[s]
    BY <2>1, SubSeqProperties
  <2>3. <<text[s]>> \in Seq(Int) /\ Len(<<text[s]>>) = 1 /\ <<text[s]>>[1] = text[s]
    BY <2>1
  <2>4. \A i \in 1 .. 1 : SubSeq(text, s, s)[i] = <<text[s]>>[i]
    BY <2>2, <2>3
  <2> QED
    BY <2>2, <2>3, <2>4, SeqEqual
<1>5. (s + 1) - 1 = s
  BY <1>1
<1> QED
  BY <1>2, <1>3, <1>4, <1>5 DEF Key

\* From the end of one field the scanner takes the next one that is there, with
\* its name and its value as they were written (format_www_authenticate,
\* parse_auth_params).
THEOREM FieldIsTaken ==
    ASSUME NEW c, Carried(c), format_www_authenticate(c) # Err,
           NEW text \in Text, Begins(text, format_www_authenticate(c)),
           NEW k \in 0 .. 8, c[Fields[k + 1]] # Absent
    PROVE  LET at == Stop(c, k)
           IN  /\ KeyStart(text, at) <= Len(text) /\ HasKey(text, at)
               /\ KeyEnd(text, at) < Len(text)
               /\ Key(text, at) = Name[Fields[k + 1]]
               /\ Param(text, at) = [value |-> c[Fields[k + 1]], next |-> Stop(c, k + 1)]
<1> DEFINE h == format_www_authenticate(c)
           n == Len(text)
           v == c[Fields[k + 1]]
           p == Parameter(c, Fields[k + 1])
           e == escape_quoted_value(v)
           L == Len(Written(c, k))
           at == Stop(c, k)
<1>1. /\ Len(h) = Len(Written(c, 9)) /\ Len(h) \in Nat
      /\ \A j \in 2 .. Len(h) : h[j] = Written(c, 9)[j]
  BY FormattedIs
<1>2. k \in 0 .. 9 /\ k + 1 \in 0 .. 9 /\ k + 1 \in 1 .. 9 /\ k + 1 # 0
  OBVIOUS
<1>3. /\ L \in Nat
      /\ Len(Written(c, k + 1)) = L + Len(p)
      /\ Len(Written(c, k + 1)) <= Len(Written(c, 9))
      /\ \A j \in 1 .. Len(p) : Written(c, 9)[L + j] = p[j]
  BY <1>2, FrontGrows
<1>4. /\ e \in Text /\ Len(e) \in Nat /\ Len(p) = Len(e) + 6
      /\ p[1] = Comma /\ p[2] = Blank /\ p[3] = 39 + (k + 1)
      /\ p[4] = Equals /\ p[5] = Quote
      /\ \A j \in 1 .. Len(e) : p[5 + j] = e[j]
      /\ p[6 + Len(e)] = Quote
  BY <1>2, ParameterIs
<1>5. v \in Text
  BY <1>2 DEF Carried
<1>6. n \in Nat /\ Len(h) <= n /\ \A j \in 1 .. Len(h) : text[j] = h[j]
  BY LenProperties DEF Begins, Text
<1>7. /\ k = 0 => L = 0 /\ at = 3
      /\ k # 0 => L >= 6 /\ at = L + 1
  <2>1. k = 0 => L = 0
    BY FrontGrows, EmptySeq
  <2>2. k # 0 => L >= 6
    BY FrontIsFilled, SMTT(30)
  <2> QED
    BY <2>1, <2>2 DEF Stop
<1>8. Stop(c, k + 1) = L + Len(p) + 1
  BY <1>2, <1>3 DEF Stop
<1>9. Name[Fields[k + 1]] = <<39 + (k + 1)>>
  BY <1>2, NameOfField
<1> HIDE DEF h, n, v, p, e, L, at
<1>10. ASSUME NEW j \in 1 .. Len(p), L + j >= 2 PROVE text[L + j] = p[j]
  <2>1. L + j \in 2 .. Len(h) /\ L + j \in 1 .. Len(h)
    BY <1>1, <1>3, <1>4, <1>10
  <2> QED
    BY <1>1, <1>3, <1>6, <2>1
<1>11. /\ L + 3 >= 2 /\ text[L + 3] = 39 + (k + 1)
       /\ text[(L + 3) + 1] = Equals /\ text[((L + 3) + 1) + 1] = Quote
  <2>1. /\ 3 \in 1 .. Len(p) /\ 4 \in 1 .. Len(p) /\ 5 \in 1 .. Len(p)
        /\ L + 3 >= 2 /\ L + 4 >= 2 /\ L + 5 >= 2
        /\ (L + 3) + 1 = L + 4 /\ ((L + 3) + 1) + 1 = L + 5
    BY <1>3, <1>4
  <2> QED
    BY <1>4, <1>10, <2>1
<1>12. \A j \in at .. (L + 3) - 1 : text[j] \in Whitespace \cup {Comma}
  <2> SUFFICES ASSUME NEW j \in at .. (L + 3) - 1 PROVE text[j] \in Whitespace \cup {Comma}
    OBVIOUS
  <2>1. k # 0 /\ L >= 6 /\ j \in {L + 1, L + 2}
    BY <1>3, <1>7
  <2>2. 1 \in 1 .. Len(p) /\ 2 \in 1 .. Len(p) /\ L + 1 >= 2 /\ L + 2 >= 2
    BY <1>3, <1>4, <2>1
  <2>3. text[L + 1] = Comma /\ text[L + 2] = Blank
    BY <1>4, <1>10, <2>2
  <2> QED
    BY <2>1, <2>3 DEF Whitespace
<1>13. /\ at \in 1 .. n + 1 /\ L + 3 \in at .. n - 1
       /\ text[L + 3] \notin Whitespace \cup {Comma, Equals}
       /\ text[(L + 3) + 1] \in Whitespace \cup {Equals}
  <2>1. at \in 1 .. n + 1 /\ L + 3 \in at .. n - 1
    BY <1>1, <1>3, <1>4, <1>6, <1>7
  <2>2. 39 + (k + 1) \notin Whitespace \cup {Comma, Equals}
    BY DEF Whitespace, Comma, Equals, Blank, Tab, LineBreak
  <2> QED
    BY <1>11, <2>1, <2>2
<1>14. /\ KeyStart(text, at) = L + 3 /\ KeyEnd(text, at) = (L + 3) + 1
       /\ Key(text, at) = <<39 + (k + 1)>>
  <2> DEFINE s == L + 3
  <2>1. /\ at \in 1 .. Len(text) + 1 /\ s \in at .. Len(text) - 1
        /\ \A j \in at .. s - 1 : text[j] \in Whitespace \cup {Comma}
        /\ text[s] \notin Whitespace \cup {Comma, Equals}
        /\ text[s + 1] \in Whitespace \cup {Equals}
        /\ text[s] = 39 + (k + 1)
    BY <1>11, <1>12, <1>13 DEF n
  <2> HIDE DEF s
  <2>2. KeyStart(text, at) = s /\ KeyEnd(text, at) = s + 1 /\ Key(text, at) = <<text[s]>>
    BY <2>1, KeyIs
  <2> QED
    BY <2>1, <2>2 DEF s
<1>15. Quoted(text, L + 6) = [value |-> v, next |-> L + 6 + Len(e) + 1]
  <2> DEFINE i == L + 6
  <2>1. i \in 1 .. n /\ i + Len(e) <= n
    BY <1>1, <1>3, <1>4, <1>6
  <2>2. \A j \in 1 .. Len(e) : text[i - 1 + j] = e[j]
    <3> SUFFICES ASSUME NEW j \in 1 .. Len(e) PROVE text[i - 1 + j] = e[j]
      OBVIOUS
    <3>1. 5 + j \in 1 .. Len(p) /\ L + (5 + j) >= 2 /\ i - 1 + j = L + (5 + j)
      BY <1>3, <1>4
    <3>2. text[L + (5 + j)] = p[5 + j]
      BY <1>10, <3>1
    <3> QED
      BY <1>4, <3>1, <3>2
  <2>3. text[i + Len(e)] = Quote
    <3>1. 6 + Len(e) \in 1 .. Len(p) /\ L + (6 + Len(e)) >= 2 /\ i + Len(e) = L + (6 + Len(e))
      BY <1>3, <1>4
    <3>2. text[L + (6 + Len(e))] = p[6 + Len(e)]
      BY <1>10, <3>1
    <3> QED
      BY <1>4, <3>1, <3>2
  <2> HIDE DEF i
  <2>4. Quoted(text, i) = [value |-> v, next |-> i + Len(e) + 1]
    BY <1>5, <2>1, <2>2, <2>3, QuotationIsRead DEF e, n
  <2> QED
    BY <2>4 DEF i
<1>16. Param(text, at) = [value |-> v, next |-> Stop(c, k + 1)]
  <2>1. L + 6 + Len(e) + 1 = Stop(c, k + 1)
    BY <1>3, <1>4, <1>8
  <2>2. ((L + 3) + 1) + 1 + 1 = L + 6
    BY <1>3
  <2>3. Param(text, at) = Quoted(text, ((L + 3) + 1) + 1 + 1)
    BY <1>11, <1>14 DEF Param
  <2> QED
    BY <1>15, <2>1, <2>2, <2>3
<1>17. KeyStart(text, at) <= n /\ KeyEnd(text, at) < n /\ HasKey(text, at)
  <2>1. L + 3 <= n /\ (L + 3) + 1 < n
    BY <1>1, <1>3, <1>4, <1>6
  <2>2. (L + 3) + 1 <= Len(text)
    BY <1>3, <1>6, <2>1 DEF n
  <2> QED
    BY <1>11, <1>14, <2>1, <2>2 DEF HasKey
<1> QED
  BY <1>9, <1>14, <1>16, <1>17 DEF at, v, n

\* Behind the last of them the header ends.
LEMMA HeaderEnds ==
    ASSUME NEW c, Carried(c), format_www_authenticate(c) # Err
    PROVE  LET h == format_www_authenticate(c)
           IN  Stop(c, 9) = Len(h) + 1 /\ KeyStart(h, Stop(c, 9)) = Len(h) + 1
<1> DEFINE h == format_www_authenticate(c)
           n == Len(h)
<1>1. h \in Text /\ n = Len(Written(c, 9)) /\ n \in Nat
  BY FormattedIs
<1>2. Stop(c, 9) = n + 1
  BY <1>1 DEF Stop
<1> HIDE DEF h
<1>3. /\ n + 1 \in 1 .. Len(h) + 1 /\ n + 1 \in n + 1 .. Len(h) + 1
      /\ \A k \in n + 1 .. (n + 1) - 1 : h[k] \in Whitespace \cup {Comma}
  BY <1>1
<1>4. Past(h, n + 1, Whitespace \cup {Comma}) = n + 1
  BY <1>1, <1>3, PastIs
<1> QED
  BY <1>2, <1>4 DEF h, KeyStart

\* Two headers that were put into one.
Joint(g, h) == g \o <<Comma, Blank>> \o h

LEMMA JointIs ==
    ASSUME NEW g \in Text, NEW h \in Text
    PROVE  /\ Joint(g, h) \in Text /\ Begins(Joint(g, h), g)
           /\ Len(g) \in Nat /\ Len(h) \in Nat /\ Len(Joint(g, h)) = Len(g) + 2 + Len(h)
           /\ Joint(g, h)[Len(g) + 1] = Comma /\ Joint(g, h)[Len(g) + 2] = Blank
           /\ \A j \in 1 .. Len(h) : Joint(g, h)[Len(g) + 2 + j] = h[j]
<1> DEFINE q == <<Comma, Blank>>
           a == g \o q
           t == a \o h
<1>1. q \in Text /\ Len(q) = 2 /\ q[1] = Comma /\ q[2] = Blank
  BY DEF Text, Comma, Blank
<1>2. Joint(g, h) = t
  BY DEF Joint
<1> HIDE DEF q
<1>3. /\ a \in Text /\ Len(a) = Len(g) + Len(q) /\ Len(g) \in Nat
      /\ \A j \in 1 .. Len(g) : a[j] = g[j]
      /\ \A j \in 1 .. Len(q) : a[Len(g) + j] = q[j]
  BY <1>1, Behind DEF Begins
<1> HIDE DEF a
<1>4. /\ t \in Text /\ Len(t) = Len(a) + Len(h) /\ Len(h) \in Nat
      /\ \A j \in 1 .. Len(a) : t[j] = a[j]
      /\ \A j \in 1 .. Len(h) : t[Len(a) + j] = h[j]
  BY <1>3, Behind DEF Begins
<1> HIDE DEF t
<1>5. t[Len(g) + 1] = Comma /\ t[Len(g) + 2] = Blank
  BY <1>1, <1>3, <1>4
<1>6. \A j \in 1 .. Len(g) : t[j] = g[j]
  BY <1>1, <1>3, <1>4
<1> QED
  BY <1>1, <1>2, <1>3, <1>4, <1>5, <1>6 DEF Begins

\* In a header made of two the scanner passes over the second scheme and comes
\* upon the second identity (parse_auth_params).
LEMMA SecondIsMet ==
    ASSUME NEW c, Carried(c), format_www_authenticate(c) # Err,
           NEW d, Carried(d), format_www_authenticate(d) # Err
    PROVE  LET g == format_www_authenticate(c)
               t == Joint(g, format_www_authenticate(d))
               at == Len(g) + 4
           IN  /\ t \in Text /\ Begins(t, g) /\ t # g
               /\ KeyStart(t, Stop(c, 9)) <= Len(t) /\ ~HasKey(t, Stop(c, 9))
               /\ Upto(t, KeyEnd(t, Stop(c, 9)), Whitespace \cup {Comma}) = at
               /\ KeyStart(t, at) <= Len(t) /\ HasKey(t, at) /\ KeyEnd(t, at) < Len(t)
               /\ Key(t, at) = Name.id
<1> DEFINE g == format_www_authenticate(c)
           h == format_www_authenticate(d)
           t == Joint(g, h)
           L == Len(g)
           F == Written(d, 9)
<1>1. g \in Text /\ L \in Nat /\ Stop(c, 9) = L + 1
  BY FormattedIs, HeaderEnds
<1>2. /\ h \in Text /\ Len(h) \in Nat /\ Len(h) >= 6 /\ h[1] = PaymentScheme
      /\ \A j \in 2 .. Len(h) : h[j] = F[j]
  BY FormattedIs
<1>3. F[2] = Blank /\ F[3] = 40 /\ F[4] = Equals
  <2> DEFINE p == Parameter(d, Fields[0 + 1])
  <2>1. 0 \in 0 .. 8 /\ 0 + 1 \in 1 .. 9 /\ Written(d, 0) = <<>>
    BY FrontGrows
  <2>2. d[Fields[0 + 1]] # Absent
    BY NameOfField DEF Carried
  <2>3. Len(p) >= 6 /\ Len(p) \in Nat /\ p[2] = Blank /\ p[3] = 39 + (0 + 1) /\ p[4] = Equals
    BY <2>1, <2>2, ParameterIs
  <2>4. \A j \in 1 .. Len(p) : F[Len(Written(d, 0)) + j] = p[j]
    BY <2>1, FrontGrows
  <2>5. Len(Written(d, 0)) = 0 /\ 2 \in 1 .. Len(p) /\ 3 \in 1 .. Len(p) /\ 4 \in 1 .. Len(p)
    BY <2>1, <2>3, EmptySeq
  <2> HIDE DEF p, F
  <2> QED
    BY <2>3, <2>4, <2>5
<1> HIDE DEF F, h, g, L
<1>4. /\ t \in Text /\ Begins(t, g) /\ Len(t) = L + 2 + Len(h)
      /\ t[L + 1] = Comma /\ t[L + 2] = Blank
      /\ \A j \in 1 .. Len(h) : t[L + 2 + j] = h[j]
  BY <1>1, <1>2, JointIs DEF L
<1> HIDE DEF t
<1>5. t[L + 3] = PaymentScheme /\ t[L + 4] = Blank /\ t[L + 5] = 40 /\ t[L + 6] = Equals
  <2>1. /\ L + 3 = L + 2 + 1 /\ L + 4 = L + 2 + 2 /\ L + 5 = L + 2 + 3 /\ L + 6 = L + 2 + 4
        /\ 1 \in 1 .. Len(h) /\ 2 \in 1 .. Len(h) /\ 3 \in 1 .. Len(h) /\ 4 \in 1 .. Len(h)
        /\ 2 \in 2 .. Len(h) /\ 3 \in 2 .. Len(h) /\ 4 \in 2 .. Len(h)
    BY <1>1, <1>2
  <2> QED
    BY <1>2, <1>3, <1>4, <2>1
<1>6. L + 8 <= Len(t) /\ Len(t) \in Nat
  BY <1>1, <1>2, <1>4
<1>7. KeyStart(t, L + 1) = L + 3 /\ KeyEnd(t, L + 1) = L + 4
  <2> DEFINE s == L + 3
  <2>1. /\ L + 1 \in 1 .. Len(t) + 1 /\ s \in L + 1 .. Len(t) - 1
        /\ \A k \in L + 1 .. s - 1 : k \in {L + 1, L + 2}
        /\ s + 1 = L + 4
    BY <1>1, <1>6
  <2>2. /\ \A k \in L + 1 .. s - 1 : t[k] \in Whitespace \cup {Comma}
        /\ t[s] \notin Whitespace \cup {Comma, Equals}
        /\ t[s + 1] \in Whitespace \cup {Equals}
    <3>1. PaymentScheme \notin Whitespace \cup {Comma, Equals} /\ Blank \in Whitespace
      BY DEF PaymentScheme, Payment, Whitespace, Comma, Equals, Blank, Tab, LineBreak
    <3> QED
      BY <1>4, <1>5, <2>1, <3>1
  <2> HIDE DEF s
  <2>3. KeyStart(t, L + 1) = s /\ KeyEnd(t, L + 1) = s + 1
    BY <1>4, <2>1, <2>2, KeyIs
  <2> QED
    BY <2>1, <2>3 DEF s
<1>8. ~HasKey(t, L + 1)
  BY <1>5, <1>7 DEF HasKey, Blank, Equals
<1>9. Upto(t, L + 4, Whitespace \cup {Comma}) = L + 4
  <2>1. /\ L + 4 \in 1 .. Len(t) + 1 /\ L + 4 \in L + 4 .. Len(t) + 1
        /\ \A k \in L + 4 .. (L + 4) - 1 : t[k] \notin Whitespace \cup {Comma}
    BY <1>1, <1>6
  <2>2. t[L + 4] \in Whitespace \cup {Comma}
    BY <1>5 DEF Whitespace
  <2> QED
    BY <1>4, <2>1, <2>2, UptoIs
<1>10. KeyStart(t, L + 4) = L + 5 /\ KeyEnd(t, L + 4) = L + 6 /\ Key(t, L + 4) = <<40>>
  <2> DEFINE s == L + 5
  <2>1. /\ L + 4 \in 1 .. Len(t) + 1 /\ s \in L + 4 .. Len(t) - 1
        /\ \A k \in L + 4 .. s - 1 : k = L + 4
        /\ s + 1 = L + 6
    BY <1>1, <1>6
  <2>2. /\ \A k \in L + 4 .. s - 1 : t[k] \in Whitespace \cup {Comma}
        /\ t[s] \notin Whitespace \cup {Comma, Equals}
        /\ t[s + 1] \in Whitespace \cup {Equals}
    <3>1. 40 \notin Whitespace \cup {Comma, Equals} /\ Blank \in Whitespace
      BY DEF Whitespace, Comma, Equals, Blank, Tab, LineBreak
    <3> QED
      BY <1>5, <2>1, <3>1
  <2>4. t[s] = 40
    BY <1>5
  <2> HIDE DEF s
  <2>3. KeyStart(t, L + 4) = s /\ KeyEnd(t, L + 4) = s + 1 /\ Key(t, L + 4) = <<t[s]>>
    BY <1>4, <2>1, <2>2, KeyIs
  <2> QED
    BY <2>1, <2>3, <2>4 DEF s
<1>11. HasKey(t, L + 4) /\ KeyEnd(t, L + 4) < Len(t)
  BY <1>1, <1>5, <1>6, <1>10 DEF HasKey
<1>12. Name.id = <<40>>
  BY DEF Name
<1>13. KeyStart(t, L + 1) <= Len(t) /\ KeyStart(t, L + 4) <= Len(t) /\ Len(t) # Len(g)
  BY <1>1, <1>6, <1>7, <1>10 DEF L
<1> QED
  BY <1>1, <1>4, <1>7, <1>8, <1>9, <1>10, <1>11, <1>12, <1>13 DEF t, g, h, L
=============================================================================
