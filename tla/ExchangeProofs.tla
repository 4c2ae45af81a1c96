--------------------------- MODULE ExchangeProofs ---------------------------
(***************************************************************************)
(* One exchange, for texts of every length.  First what the identity of a  *)
(* challenge binds: two lists of seven texts that are joined with bars to  *)
(* the same text need not be the same lists; they are if the texts of one  *)
(* of them hold no bar.  The proof takes the lists apart from the end, a   *)
(* text at a time: what is left of the second list would have to be a      *)
(* suffix of what is left of the first, with a bar before it.              *)
(*                                                                         *)
(* Then the header: between two turns the scanner stands behind one of the *)
(* fields of the challenge and has found those in front of it (ScanInv),   *)
(* so that what it has found at the end is the challenge.  In a header     *)
(* that was made of two it comes upon the second identity.                 *)
(***************************************************************************)
EXTENDS Exchange, AmountsProofs, AuthHeaderProofs

Suffix(y, x) ==
    /\ Len(y) <= Len(x)
    /\ \A n \in 1 .. Len(y) : y[n] = x[Len(x) - Len(y) + n]

\* There is no bar before y in x.
Solid(x, y) == Suffix(y, x) => y = x \/ x[Len(x) - Len(y)] # Bar

LEMMA ThenIsText ==
    ASSUME NEW f \in Text, NEW x \in Text
    PROVE  /\ Then(f, x) \in Text
           /\ Len(Then(f, x)) = Len(f) + 1 + Len(x)
           /\ \A n \in 1 .. Len(f) : Then(f, x)[n] = f[n]
           /\ Then(f, x)[Len(f) + 1] = Bar
           /\ \A n \in 1 .. Len(x) : Then(f, x)[Len(f) + 1 + n] = x[n]
<1>1. Bar \in Int
  BY DEF Bar
<1>2. <<Bar>> \in Text /\ Len(<<Bar>>) = 1 /\ <<Bar>>[1] = Bar
  BY <1>1 DEF Text
<1> DEFINE rest == <<Bar>> \o x
<1>3. /\ rest \in Text /\ Len(rest) = 1 + Len(x) /\ rest[1] = Bar
      /\ \A n \in 1 .. Len(x) : rest[1 + n] = x[n]
  BY <1>2, ConcatProperties DEF Text
<1>4. Len(f) \in Nat /\ Len(x) \in Nat
  BY DEF Text
<1>5. /\ f \o rest \in Text /\ Len(f \o rest) = Len(f) + Len(rest)
      /\ \A n \in 1 .. Len(f) : (f \o rest)[n] = f[n]
      /\ \A n \in 1 .. Len(rest) : (f \o rest)[Len(f) + n] = rest[n]
  BY <1>3, ConcatProperties DEF Text
<1> HIDE DEF rest
<1>6. \A n \in 1 .. Len(x) : (f \o rest)[Len(f) + 1 + n] = x[n]
  BY <1>3, <1>4, <1>5
<1>7. (f \o rest)[Len(f) + 1] = Bar
  BY <1>3, <1>4, <1>5
<1> QED
  BY <1>3, <1>4, <1>5, <1>6, <1>7 DEF Then, rest

LEMMA PlainIsText ==
    ASSUME NEW f \in Plain
    PROVE  f \in Text /\ \A n \in 1 .. Len(f) : f[n] # Bar
BY DEF Plain, Text

LEMMA SameText ==
    ASSUME NEW x \in Text, NEW y \in Text, Len(x) = Len(y), Suffix(y, x)
    PROVE  y = x
<1>1. \A n \in 1 .. Len(y) : y[n] = x[n]
  BY DEF Suffix, Text
<1> QED
  BY <1>1, SeqEqual DEF Text

\* The last text.
LEMMA LastIsSolid ==
    ASSUME NEW f \in Plain, NEW g \in Text
    PROVE  Solid(f, g)
<1> SUFFICES ASSUME Suffix(g, f), g # f PROVE f[Len(f) - Len(g)] # Bar
  BY DEF Solid
<1>1. Len(f) # Len(g)
  BY SameText, PlainIsText
<1>2. Len(f) - Len(g) \in 1 .. Len(f)
  BY <1>1, PlainIsText DEF Suffix, Text
<1> QED
  BY <1>2, PlainIsText

\* A text more in front.
LEMMA PartBehind ==
    ASSUME NEW f \in Plain, NEW g \in Text, NEW x \in Text, NEW y \in Text,
           Solid(x, y), Suffix(Then(g, y), Then(f, x))
    PROVE  y = x /\ Suffix(g, f)
<1> DEFINE a == Then(f, x)
           b == Then(g, y)
<1>1. /\ f \in Text /\ \A n \in 1 .. Len(f) : f[n] # Bar
      /\ Len(f) \in Nat /\ Len(g) \in Nat /\ Len(x) \in Nat /\ Len(y) \in Nat
  BY PlainIsText DEF Text
<1>2. /\ Len(a) = Len(f) + 1 + Len(x)
      /\ \A n \in 1 .. Len(f) : a[n] = f[n]
      /\ \A n \in 1 .. Len(x) : a[Len(f) + 1 + n] = x[n]
  BY <1>1, ThenIsText
<1>3. /\ Len(b) = Len(g) + 1 + Len(y)
      /\ \A n \in 1 .. Len(g) : b[n] = g[n]
      /\ b[Len(g) + 1] = Bar
      /\ \A n \in 1 .. Len(y) : b[Len(g) + 1 + n] = y[n]
  BY ThenIsText
<1>4. Len(b) <= Len(a) /\ \A n \in 1 .. Len(b) : b[n] = a[Len(a) - Len(b) + n]
  BY DEF Suffix
<1> HIDE DEF a, b
\* The bar before y is not in f.
<1>5. a[Len(a) - Len(y)] = Bar
  <2>1. Len(g) + 1 \in 1 .. Len(b) /\ Len(a) - Len(b) + (Len(g) + 1) = Len(a) - Len(y)
    BY <1>1, <1>2, <1>3
  <2> QED
    BY <2>1, <1>3, <1>4
<1>6. Len(y) <= Len(x)
  <2> SUFFICES ASSUME Len(y) > Len(x) PROVE FALSE
    BY <1>1
  <2>1. Len(a) - Len(y) \in 1 .. Len(f)
    BY <1>1, <1>2, <1>3, <1>4
  <2> QED
    BY <2>1, <1>1, <1>2, <1>5
<1>7. Suffix(y, x)
  <2> SUFFICES ASSUME NEW n \in 1 .. Len(y) PROVE y[n] = x[Len(x) - Len(y) + n]
    BY <1>6 DEF Suffix
  <2> DEFINE m == Len(x) - Len(y) + n
  <2>1. Len(g) + 1 + n \in 1 .. Len(b) /\ m \in 1 .. Len(x)
    BY <1>1, <1>3, <1>6
  <2>2. Len(a) - Len(b) + (Len(g) + 1 + n) = Len(f) + 1 + m
    BY <1>1, <1>2, <1>3
  <2>3. b[Len(g) + 1 + n] = a[Len(a) - Len(b) + (Len(g) + 1 + n)]
    BY <2>1, <1>4
  <2>4. b[Len(g) + 1 + n] = y[n]
    BY <1>3
  <2>5. a[Len(f) + 1 + m] = x[m]
    BY <2>1, <1>2
  <2> QED
    BY <2>2, <2>3, <2>4, <2>5
<1>8. y = x
  <2> SUFFICES ASSUME y # x PROVE FALSE
    OBVIOUS
  <2>1. x[Len(x) - Len(y)] # Bar
    BY <1>7 DEF Solid
  <2>2. Len(x) # Len(y)
    BY <1>7, SameText
  <2>3. /\ Len(x) - Len(y) \in 1 .. Len(x)
        /\ Len(f) + 1 + (Len(x) - Len(y)) = Len(a) - Len(y)
    BY <2>2, <1>1, <1>2, <1>6
  <2> QED
    BY <2>1, <2>3, <1>2, <1>5
<1>9. Suffix(g, f)
  <2>1. Len(g) <= Len(f)
    BY <1>1, <1>2, <1>3, <1>4, <1>8
  <2> SUFFICES ASSUME NEW n \in 1 .. Len(g) PROVE g[n] = f[Len(f) - Len(g) + n]
    BY <2>1 DEF Suffix
  <2>2. /\ n \in 1 .. Len(b)
        /\ Len(f) - Len(g) + n \in 1 .. Len(f)
        /\ Len(a) - Len(b) + n = Len(f) - Len(g) + n
    BY <2>1, <1>1, <1>2, <1>3, <1>8
  <2> QED
    BY <2>2, <1>2, <1>3, <1>4
<1> QED
  BY <1>8, <1>9

LEMMA JoinedIsSolid ==
    ASSUME NEW f \in Plain, NEW g \in Text, NEW x \in Text, NEW y \in Text,
           Solid(x, y)
    PROVE  Solid(Then(f, x), Then(g, y))
<1> SUFFICES ASSUME Suffix(Then(g, y), Then(f, x)), Then(g, y) # Then(f, x)
             PROVE  Then(f, x)[Len(Then(f, x)) - Len(Then(g, y))] # Bar
  BY DEF Solid
<1>1. y = x /\ Suffix(g, f)
  BY PartBehind
<1>2. f \in Text /\ \A n \in 1 .. Len(f) : f[n] # Bar
  BY PlainIsText
<1>3. g # f
  BY <1>1
<1>4. Len(f) # Len(g)
  BY <1>1, <1>2, <1>3, SameText
<1>5. /\ Len(Then(f, x)) = Len(f) + 1 + Len(x)
      /\ \A n \in 1 .. Len(f) : Then(f, x)[n] = f[n]
      /\ Len(Then(g, y)) = Len(g) + 1 + Len(y)
  BY <1>2, ThenIsText
<1>6. /\ Len(Then(f, x)) - Len(Then(g, y)) = Len(f) - Len(g)
      /\ Len(f) - Len(g) \in 1 .. Len(f)
  BY <1>1, <1>2, <1>4, <1>5 DEF Suffix, Text
<1> QED
  BY <1>2, <1>5, <1>6

\* The first text of two lists that are joined to the same text.
LEMMA Cut ==
    ASSUME NEW f \in Plain, NEW g \in Text, NEW x \in Text, NEW y \in Text,
           Solid(x, y), Then(f, x) = Then(g, y)
    PROVE  f = g /\ x = y
<1>1. Suffix(Then(g, y), Then(f, x))
  BY PlainIsText, ThenIsText DEF Suffix, Text
<1>2. y = x /\ Suffix(g, f)
  BY <1>1, PartBehind
<1>3. f \in Text
  BY PlainIsText
<1>4. /\ Len(Then(f, x)) = Len(f) + 1 + Len(x)
      /\ Len(Then(g, y)) = Len(g) + 1 + Len(y)
  BY <1>3, ThenIsText
<1>5. Len(f) = Len(g)
  BY <1>2, <1>3, <1>4 DEF Text
<1> QED
  BY <1>2, <1>3, <1>5, SameText

-----------------------------------------------------------------------------
(***************************************************************************)
(* The seven texts.                                                        *)
(***************************************************************************)

\* base64url has one text for one text.
LEMMA EncodedOnce ==
    ASSUME NEW x \in Text, NEW y \in Text, base64url_encode(x) = base64url_encode(y)
    PROVE  x = y
<1>1. DOMAIN x = DOMAIN base64url_encode(x) /\ DOMAIN y = DOMAIN base64url_encode(y)
  BY DEF base64url_encode
<1>2. DOMAIN x = DOMAIN y
  BY <1>1
<1>3. Len(x) = Len(y)
  BY <1>2, LenProperties DEF Text
<1>4. ASSUME NEW n \in 1 .. Len(x) PROVE x[n] = y[n]
  <2>1. n \in DOMAIN x /\ n \in DOMAIN y /\ x[n] \in Int /\ y[n] \in Int
    BY <1>3 DEF Text
  <2>2. base64url_encode(x)[n] = x[n] + Alphabet /\ base64url_encode(y)[n] = y[n] + Alphabet
    BY <2>1 DEF base64url_encode
  <2> QED
    BY <2>1, <2>2 DEF Alphabet
<1> QED
  BY <1>3, <1>4, SeqEqual DEF Text

\* The fields the code is computed of, as texts.
Texts7(c) ==
    /\ c.method \in Text /\ c.intent \in Text /\ c.request \in Text
    /\ c.expires \in Text /\ c.digest \in Text /\ c.opaque \in Text

LEMMA OrEmptyIsText ==
    ASSUME NEW x \in Text
    PROVE  OrEmpty(x) \in Text
BY DEF OrEmpty, Text

LEMMA OrEmptyIsPlain ==
    ASSUME NEW x \in Plain
    PROVE  OrEmpty(x) \in Plain
BY DEF OrEmpty, Plain

\* A plain challenge is not joined to the same text as another one
\* (compute_challenge_id).
LEMMA JoinedOnce ==
    ASSUME NEW r \in Plain, NEW q \in Text, NEW c, NEW e,
           c.method \in Plain, c.intent \in Plain, c.request \in Plain,
           c.expires \in Plain, c.digest \in Plain, c.opaque \in Plain,
           Texts7(e),
           Joined(r, c) = Joined(q, e)
    PROVE  /\ r = q
           /\ c.method = e.method /\ c.intent = e.intent /\ c.request = e.request
           /\ OrEmpty(c.expires) = OrEmpty(e.expires)
           /\ OrEmpty(c.digest) = OrEmpty(e.digest)
           /\ OrEmpty(c.opaque) = OrEmpty(e.opaque)
<1> DEFINE c7 == OrEmpty(c.opaque)
           e7 == OrEmpty(e.opaque)
           c6 == Then(OrEmpty(c.digest), c7)
           e6 == Then(OrEmpty(e.digest), e7)
           c5 == Then(OrEmpty(c.expires), c6)
           e5 == Then(OrEmpty(e.expires), e6)
           c4 == Then(c.request, c5)
           e4 == Then(e.request, e5)
           c3 == Then(c.intent, c4)
           e3 == Then(e.intent, e4)
           c2 == Then(c.method, c3)
           e2 == Then(e.method, e3)
<1>1. /\ OrEmpty(c.expires) \in Plain /\ OrEmpty(c.digest) \in Plain /\ c7 \in Plain
      /\ OrEmpty(e.expires) \in Text /\ OrEmpty(e.digest) \in Text /\ e7 \in Text
  BY OrEmptyIsText, OrEmptyIsPlain DEF Texts7
<1>2. Then(r, c2) = Then(q, e2)
  BY DEF Joined
<1>7. c7 \in Text /\ e7 \in Text /\ Solid(c7, e7)
  BY <1>1, PlainIsText, LastIsSolid
<1> HIDE DEF c7, e7
<1>6. c6 \in Text /\ e6 \in Text /\ Solid(c6, e6)
  BY <1>1, <1>7, PlainIsText, ThenIsText, JoinedIsSolid
<1> HIDE DEF c6, e6
<1>5. c5 \in Text /\ e5 \in Text /\ Solid(c5, e5)
  BY <1>1, <1>6, PlainIsText, ThenIsText, JoinedIsSolid
<1> HIDE DEF c5, e5
<1>4. c4 \in Text /\ e4 \in Text /\ Solid(c4, e4)
  BY <1>5, PlainIsText, ThenIsText, JoinedIsSolid DEF Texts7
<1> HIDE DEF c4, e4
<1>3. c3 \in Text /\ e3 \in Text /\ Solid(c3, e3)
  BY <1>4, PlainIsText, ThenIsText, JoinedIsSolid DEF Texts7
<1> HIDE DEF c3, e3
<1>8. c2 \in Text /\ e2 \in Text /\ Solid(c2, e2)
  BY <1>3, PlainIsText, ThenIsText, JoinedIsSolid DEF Texts7
<1> HIDE DEF c2, e2
<1>9. r = q /\ c2 = e2
  BY <1>2, <1>8, Cut
<1>10. c.method = e.method /\ c3 = e3
  BY <1>9, <1>3, Cut DEF c2, e2, Texts7
<1>11. c.intent = e.intent /\ c4 = e4
  BY <1>10, <1>4, Cut DEF c3, e3, Texts7
<1>12. c.request = e.request /\ c5 = e5
  BY <1>11, <1>5, Cut DEF c4, e4, Texts7
<1>13. OrEmpty(c.expires) = OrEmpty(e.expires) /\ c6 = e6
  BY <1>12, <1>1, <1>6, Cut DEF c5, e5
<1>14. OrEmpty(c.digest) = OrEmpty(e.digest) /\ c7 = e7
  BY <1>13, <1>1, <1>7, Cut DEF c6, e6
<1> QED
  BY <1>9, <1>10, <1>11, <1>12, <1>13, <1>14 DEF c7, e7

LEMMA JoinedIsText ==
    ASSUME NEW r \in Text, NEW c, Texts7(c)
    PROVE  Joined(r, c) \in Text
<1>1. OrEmpty(c.expires) \in Text /\ OrEmpty(c.digest) \in Text /\ OrEmpty(c.opaque) \in Text
  BY OrEmptyIsText DEF Texts7
<1>2. Then(OrEmpty(c.digest), OrEmpty(c.opaque)) \in Text
  BY <1>1, ThenIsText
<1>3. Then(OrEmpty(c.expires), Then(OrEmpty(c.digest), OrEmpty(c.opaque))) \in Text
  BY <1>1, <1>2, ThenIsText
<1> QED
  BY <1>3, ThenIsText DEF Joined, Texts7

LEMMA HmacOnce ==
    ASSUME NEW k \in Nat, NEW l \in Nat, NEW x \in Text, NEW y \in Text
    PROVE  /\ Hmac(k, x) \in Text
           /\ Hmac(k, x) = Hmac(l, y) => k = l /\ x = y
<1>1. /\ <<k>> \in Text /\ Len(<<k>>) = 1 /\ <<k>>[1] = k
      /\ <<l>> \in Text /\ Len(<<l>>) = 1 /\ <<l>>[1] = l
  BY DEF Text
<1>2. /\ Hmac(k, x) \in Text
      /\ Len(Hmac(k, x)) = 1 + Len(x)
      /\ Hmac(k, x)[1] = k
      /\ \A n \in 1 .. Len(x) : Hmac(k, x)[1 + n] = x[n]
  BY <1>1, ConcatProperties DEF Hmac, Text
<1>3. /\ Len(Hmac(l, y)) = 1 + Len(y)
      /\ Hmac(l, y)[1] = l
      /\ \A n \in 1 .. Len(y) : Hmac(l, y)[1 + n] = y[n]
  BY <1>1, ConcatProperties DEF Hmac, Text
<1>4. ASSUME Hmac(k, x) = Hmac(l, y) PROVE k = l /\ x = y
  <2>1. Len(x) \in Nat /\ Len(y) \in Nat
    BY DEF Text
  <2>2. Len(x) = Len(y)
    BY <1>2, <1>3, <1>4, <2>1
  <2>3. \A n \in 1 .. Len(x) : x[n] = y[n]
    BY <1>2, <1>3, <1>4, <2>2
  <2> QED
    BY <1>2, <1>3, <1>4, <2>2, <2>3, SeqEqual DEF Text
<1> QED
  BY <1>2, <1>4

\* The identity of a challenge without bars is that of no other: neither of
\* another key or realm nor of other fields, except that what is absent is
\* taken for empty (compute_challenge_id).
THEOREM IdentityDetermines ==
    ASSUME NEW k \in Nat, NEW l \in Nat, NEW r \in Plain, NEW q \in Text,
           NEW c, NEW e,
           c.method \in Plain, c.intent \in Plain, c.request \in Plain,
           c.expires \in Plain, c.digest \in Plain, c.opaque \in Plain,
           Texts7(e),
           compute_challenge_id(k, r, c) = compute_challenge_id(l, q, e)
    PROVE  /\ k = l /\ r = q
           /\ c.method = e.method /\ c.intent = e.intent /\ c.request = e.request
           /\ OrEmpty(c.expires) = OrEmpty(e.expires)
           /\ OrEmpty(c.digest) = OrEmpty(e.digest)
           /\ OrEmpty(c.opaque) = OrEmpty(e.opaque)
<1>1. Texts7(c) /\ r \in Text
  BY PlainIsText DEF Texts7
<1>2. Joined(r, c) \in Text /\ Joined(q, e) \in Text
  BY <1>1, JoinedIsText
<1>3. Hmac(k, Joined(r, c)) = Hmac(l, Joined(q, e))
  BY <1>2, HmacOnce, EncodedOnce DEF compute_challenge_id
<1>4. k = l /\ Joined(r, c) = Joined(q, e)
  BY <1>2, <1>3, HmacOnce
<1> QED
  BY <1>4, JoinedOnce

-----------------------------------------------------------------------------
(***************************************************************************)
(* The server.  What it has served it has recognised, and it recognises a  *)
(* challenge by the computation that identified it.                        *)
(***************************************************************************)

\* A challenge carries the identity of the server that issued it.
IssuedInv ==
    \A i \in issued :
      /\ i.by \in Server
      /\ i.challenge.id =
           compute_challenge_id(secret_key[i.by], realm[i.by], i.challenge)

\* An answer goes to a server.
AnswerInv ==
    /\ stage # "open" => sent \in issued
    /\ stage = "answered" => answer.to \in Server

\* What the server works on was recognised, and stays so to the end.
AdmittedInv ==
    stage \in {"settling", "served", "done"} =>
      /\ answer.to \in Server
      /\ Readable(answer.echo)
      /\ Recognises(answer.to, answer.echo)

\* The receipt names what was served.
ReceiptInv ==
    receipt # Nothing =>
      /\ stage \in {"served", "done"}
      /\ receipt.challenge_id = answer.echo.id

Inv == now \in 0 .. MaxTime /\ IssuedInv /\ AnswerInv /\ AdmittedInv /\ ReceiptInv

\* with_secret_key_full: the code is of the fields as they are in the challenge.
LEMMA CodeOfNamed ==
    ASSUME NEW k, NEW c, DOMAIN c = ChallengeFields
    PROVE  LET d == with_secret_key_full(k, c)
           IN  d.id = compute_challenge_id(k, c.realm, d)
<1> DEFINE named == [c EXCEPT !.method = MethodName(@), !.intent = IntentName(@)]
           d == with_secret_key_full(k, c)
<1>1. {"id", "method", "intent"} \subseteq ChallengeFields
  BY DEF ChallengeFields, EchoFields, Required
<1>2. d = [named EXCEPT !.id = compute_challenge_id(k, named.realm, named)]
  BY DEF with_secret_key_full
<1>3. named.realm = c.realm
  BY <1>1
<1>4. d.id = compute_challenge_id(k, c.realm, named)
  BY <1>1, <1>2, <1>3
<1>5. /\ d.method = named.method /\ d.intent = named.intent /\ d.request = named.request
      /\ d.expires = named.expires /\ d.digest = named.digest /\ d.opaque = named.opaque
  BY <1>1, <1>2
<1> HIDE DEF named, d
<1>6. compute_challenge_id(k, c.realm, d) = compute_challenge_id(k, c.realm, named)
  BY <1>5 DEF compute_challenge_id, Joined
<1> QED
  BY <1>4, <1>6 DEF d

LEMMA InitInv == Init => Inv
BY ExchangeAssumption DEF Init, Inv, IssuedInv, AnswerInv, AdmittedInv, ReceiptInv

\* A challenge more.
LEMMA IssueKeeps ==
    ASSUME Inv, NEW s \in Server, NEW c, NEW due, MayIssue, Issue(s, c, due),
           c.id = compute_challenge_id(secret_key[s], realm[s], c)
    PROVE  Inv'
<1> DEFINE i == [by |-> s, challenge |-> c, due |-> due]
<1>1. /\ issued' = issued \cup {i} /\ now' = now /\ receipt' = receipt
      /\ stage = "open" /\ stage' = "open"
  BY DEF MayIssue, Issue
<1>2. receipt' = Nothing
  BY <1>1 DEF Inv, ReceiptInv
<1>3. i.by = s /\ i.challenge = c
  OBVIOUS
<1> HIDE DEF i
<1>4. IssuedInv'
  BY <1>1, <1>3 DEF Inv, IssuedInv
<1> QED
  BY <1>1, <1>2, <1>4 DEF Inv, AnswerInv, AdmittedInv, ReceiptInv, Nothing

\* A step that issues nothing, answers nothing and serves nothing.
LEMMA MoveKeeps ==
    ASSUME Inv, UNCHANGED <<now, issued, answer, receipt>>,
           stage' # "open" => sent' \in issued,
           stage' = "answered" => stage = "answered",
           stage' \in {"settling", "served", "done"}
             => stage \in {"settling", "served", "done"},
           stage \in {"served", "done"} => stage' \in {"served", "done"}
    PROVE  Inv'
<1>1. now' = now /\ issued' = issued /\ answer' = answer /\ receipt' = receipt
  OBVIOUS
<1>2. now' \in 0 .. MaxTime /\ IssuedInv'
  BY <1>1 DEF Inv, IssuedInv
<1>3. AnswerInv'
  BY <1>1 DEF Inv, AnswerInv
<1>4. AdmittedInv'
  BY <1>1 DEF Inv, AdmittedInv, Recognises
<1>5. ReceiptInv'
  BY <1>1 DEF Inv, ReceiptInv
<1> QED
  BY <1>2, <1>3, <1>4, <1>5 DEF Inv

LEMMA ChargeKeeps ==
    ASSUME Inv, NEW s \in Server, NEW o, Charge(s, o)
    PROVE  Inv'
<1> DEFINE c == [id |-> <<>>, realm |-> realm[s], method |-> <<50>>,
                 intent |-> <<51>>,
                 request |-> from_typed([amount |-> parse_units(o.price, decimals[s]),
                                         description |-> o.description]),
                 expires |-> IF o.expires = Absent
                             THEN offset(default_expires) ELSE o.expires,
                 description |-> o.description, digest |-> Absent,
                 opaque |-> Absent]
<1>1. Priced(s, o) = with_secret_key_full(secret_key[s], c)
  BY DEF Priced
<1>2. DOMAIN c = ChallengeFields /\ c.realm = realm[s]
  BY DEF ChallengeFields, EchoFields, Required
<1> HIDE DEF c
<1>3. Priced(s, o).id = compute_challenge_id(secret_key[s], realm[s], Priced(s, o))
  BY <1>1, <1>2, CodeOfNamed
<1> QED
  BY <1>3, IssueKeeps DEF Charge

LEMMA ChargeByHandKeeps ==
    ASSUME Inv, NEW s \in Server, NEW d \in Draft[s], ChargeByHand(s, d)
    PROVE  Inv'
<1> DEFINE k == secret_key[s]
           named == [d EXCEPT !.realm = realm[s]]
           bare == [named EXCEPT !.expires = Absent, !.description = Absent,
                                 !.digest = Absent, !.opaque = Absent]
           full == with_secret_key_full(k, named)
           short == with_secret_key(k, named)
<1>1. DOMAIN d = ChallengeFields
  BY ExchangeAssumption
<1>2. DOMAIN named = ChallengeFields /\ named.realm = realm[s]
  BY <1>1 DEF ChallengeFields, EchoFields, Required
<1>3. DOMAIN bare = ChallengeFields /\ bare.realm = realm[s]
  BY <1>2
<1>4. short = with_secret_key_full(k, bare)
  BY DEF with_secret_key
<1>5. MayIssue /\ \E c \in {short, full} : \E due : Issue(s, c, due)
  BY DEF ChargeByHand
<1> HIDE DEF named, bare, k, full, short
<1>6. full.id = compute_challenge_id(k, realm[s], full)
  BY <1>2, CodeOfNamed DEF full
<1>7. short.id = compute_challenge_id(k, realm[s], short)
  BY <1>3, <1>4, CodeOfNamed
<1> QED
  BY <1>5, <1>6, <1>7, IssueKeeps DEF k

LEMMA AnsweredKeeps ==
    ASSUME Inv, Answer \/ AnswerRespelled
    PROVE  Inv'
<1>1. stage = "read" /\ sent \in issued /\ receipt = Nothing
  BY DEF Answer, AnswerRespelled, Inv, AnswerInv, ReceiptInv
<1>2. UNCHANGED <<now, issued, sent, receipt>>
  BY DEF Answer, AnswerRespelled
<1>3. stage' \in {"answered", "unbuilt"}
  BY DEF Answer, AnswerRespelled
<1>4. stage' = "answered" => answer'.to \in Server
  BY <1>1 DEF Answer, AnswerRespelled, Credential, Inv, IssuedInv
<1> QED
  BY <1>1, <1>2, <1>3, <1>4 DEF Inv, IssuedInv, AnswerInv, AdmittedInv, ReceiptInv

LEMMA AdmitKeeps ==
    ASSUME Inv, Admit
    PROVE  Inv'
<1>1. /\ stage = "answered" /\ stage' = "settling"
      /\ UNCHANGED <<now, issued, sent, answer, receipt>>
  BY DEF Admit, client
<1>2. answer.to \in Server /\ sent \in issued /\ receipt = Nothing
  BY <1>1 DEF Inv, AnswerInv, ReceiptInv
<1>3. Readable(answer.echo) /\ Recognises(answer.to, answer.echo)
  BY DEF Admit, Accepts
<1>4. AdmittedInv'
  BY <1>1, <1>2, <1>3 DEF AdmittedInv, Recognises
<1> QED
  BY <1>1, <1>2, <1>4 DEF Inv, IssuedInv, AnswerInv, ReceiptInv

LEMMA ServeKeeps ==
    ASSUME Inv, Serve
    PROVE  Inv'
<1>1. /\ stage = "settling" /\ stage' = "served" /\ receipt' = Receipt(answer.echo)
      /\ UNCHANGED <<now, issued, sent, answer>>
  BY DEF Serve, client
<1>2. receipt'.challenge_id = answer.echo.id
  BY <1>1 DEF Receipt
<1>3. ReceiptInv'
  BY <1>1, <1>2 DEF ReceiptInv
<1>4. AdmittedInv'
  BY <1>1 DEF Inv, AdmittedInv, Recognises
<1> QED
  BY <1>1, <1>3, <1>4 DEF Inv, IssuedInv, AnswerInv

LEMMA TickKeeps ==
    ASSUME Inv, Tick
    PROVE  Inv'
<1>1. UNCHANGED <<issued, sent, answer, receipt, stage>> /\ now' \in 0 .. MaxTime
  BY ExchangeAssumption DEF Tick, client, Inv
<1>2. AdmittedInv' /\ ReceiptInv'
  BY <1>1 DEF Inv, AdmittedInv, Recognises, ReceiptInv
<1> QED
  BY <1>1, <1>2 DEF Inv, IssuedInv, AnswerInv

LEMMA NextInv == Inv /\ [Next]_vars => Inv'
<1> SUFFICES ASSUME Inv, [Next]_vars PROVE Inv'
  OBVIOUS
<1> USE DEF scanner, client
<1>1. CASE Server402
  BY <1>1, ChargeKeeps, ChargeByHandKeeps DEF Server402
<1>2. CASE Respond
  <2>1. CASE \E i \in issued : Send(i) \/ Unsent(i)
    BY <2>1, MoveKeeps DEF Send, Unsent
  <2>2. CASE \E i, j \in issued : SendCombined(i, j)
    BY <2>2, MoveKeeps DEF SendCombined
  <2> QED
    BY <1>2, <2>1, <2>2 DEF Respond
<1>3. CASE SelectPayment
  <2>1. stage = "sent" /\ UNCHANGED <<now, issued, sent, answer, receipt, stage>>
    BY <1>3 DEF SelectPayment
  <2> QED
    BY <2>1, MoveKeeps DEF Inv, AnswerInv
<1>4. CASE Read
  <2>1. /\ stage \in {"sent", "scan"}
        /\ stage' \in {"scan", "rejected", "read"}
        /\ UNCHANGED <<now, issued, sent, answer, receipt>>
    BY <1>4 DEF Read, Receive, SkipWord, TakeParam, AtKey, Understand, Reject, Scanned
  <2> QED
    BY <2>1, MoveKeeps DEF Inv, AnswerInv
<1>5. CASE Answer \/ AnswerRespelled
  BY <1>5, AnsweredKeeps
<1>6. CASE Decide
  <2>1. CASE Serve
    BY <2>1, ServeKeeps
  <2>2. CASE Refuse
    <3>1. /\ stage = "answered" /\ stage' = "refused"
          /\ UNCHANGED <<now, issued, sent, answer, receipt>>
      BY <2>2 DEF Refuse
    <3> QED
      BY <3>1, MoveKeeps DEF Inv, AnswerInv
  <2>3. CASE Unsettled
    <3>1. /\ stage = "settling" /\ stage' = "unsettled"
          /\ UNCHANGED <<now, issued, sent, answer, receipt>>
      BY <2>3 DEF Unsettled
    <3> QED
      BY <3>1, MoveKeeps DEF Inv, AnswerInv
  <2>4. CASE Admit
    BY <2>4, AdmitKeeps
  <2> QED
    BY <1>6, <2>1, <2>2, <2>3, <2>4 DEF Decide
<1>7. CASE TakeReceipt
  <2>1. stage = "served" /\ stage' = "done" /\ UNCHANGED <<now, issued, sent, answer, receipt>>
    BY <1>7 DEF TakeReceipt
  <2> QED
    BY <2>1, MoveKeeps DEF Inv, AnswerInv
<1>8. CASE Tick
  BY <1>8, TickKeeps
<1>9. CASE UNCHANGED vars
  <2>1. UNCHANGED <<now, issued, sent, answer, receipt, stage>>
    BY <1>9 DEF vars
  <2> QED
    BY <2>1, MoveKeeps DEF Inv, AnswerInv
<1> QED
  BY <1>1, <1>2, <1>3, <1>4, <1>5, <1>6, <1>7, <1>8, <1>9 DEF Next

-----------------------------------------------------------------------------

\* What is served agrees with a challenge of its identity.
LEMMA BoundEcho ==
    ASSUME Inv, NEW s \in Server, NEW e, Readable(e), Recognises(s, e),
           NEW i \in issued, i.challenge.id = e.id, IsPlain(i)
    PROVE  /\ realm[i.by] = realm[s] /\ secret_key[i.by] = secret_key[s]
           /\ \A f \in {"method", "intent", "request"} : e[f] = i.challenge[f]
           /\ \A f \in {"expires", "digest", "opaque"} :
                OrEmpty(e[f]) = OrEmpty(i.challenge[f])
<1> DEFINE c == i.challenge
<1>1. /\ i.by \in Server
      /\ secret_key[i.by] \in Nat /\ secret_key[s] \in Nat /\ realm[s] \in Text
  BY ExchangeAssumption DEF Inv, IssuedInv, Given
<1>2. Texts7(e)
  BY DEF Readable, EchoFields, Required, Texts7
<1>3. /\ realm[i.by] \in Plain
      /\ c.method \in Plain /\ c.intent \in Plain /\ c.request \in Plain
      /\ c.expires \in Plain /\ c.digest \in Plain /\ c.opaque \in Plain
  BY DEF IsPlain, EchoFields, Required
<1>4. compute_challenge_id(secret_key[i.by], realm[i.by], c)
        = compute_challenge_id(secret_key[s], realm[s], e)
  BY DEF Inv, IssuedInv, Recognises
<1> HIDE DEF c
<1>5. /\ secret_key[i.by] = secret_key[s] /\ realm[i.by] = realm[s]
      /\ c.method = e.method /\ c.intent = e.intent /\ c.request = e.request
      /\ OrEmpty(c.expires) = OrEmpty(e.expires)
      /\ OrEmpty(c.digest) = OrEmpty(e.digest)
      /\ OrEmpty(c.opaque) = OrEmpty(e.opaque)
  BY <1>1, <1>2, <1>3, <1>4, IdentityDetermines
<1> QED
  BY <1>5 DEF c

\* The inductive invariant of the exchange: what is issued carries the identity
\* of its server, what is served was recognised.
THEOREM Invariance == Spec => []Inv
BY InitInv, NextInv, PTL DEF Spec

\* What is served is what was issued, whatever bars the credential holds
\* (compute_challenge_id, Mpp::verify).
THEOREM IdentityIsBinding == Spec => []IdentityBinds
<1>1. Inv => IdentityBinds
  BY BoundEcho DEF Inv, AdmittedInv, ReceiptInv, IdentityBinds
<1> QED
  BY <1>1, Invariance, PTL

\* No credential of a challenge is admitted after the challenge has expired
\* (Mpp::verify).
THEOREM AdmissionIsInTime == Spec => NoLateAdmission
<1> DEFINE InTime(i) == i.challenge.id = answer.echo.id /\ IsPlain(i) =>
                          now < Deadline(i.challenge)
<1>1. Inv /\ [Next]_vars
        => [stage' = "settling" /\ stage # "settling" => \A i \in issued : InTime(i)]_vars
  <2> SUFFICES ASSUME Inv, [Next]_vars, stage' = "settling", stage # "settling",
                      NEW i \in issued, i.challenge.id = answer.echo.id, IsPlain(i)
               PROVE  now < Deadline(i.challenge)
    OBVIOUS
  <2> DEFINE e == answer.echo
             c == i.challenge
  <2>1. Admit
    BY DEF Next, vars, Server402, Charge, ChargeByHand, Issue, Respond, Send, Unsent,
           SendCombined, SelectPayment, Read, Receive, SkipWord, TakeParam,
           Understand, Reject, Answer, AnswerRespelled, Decide, Refuse, Serve,
           Unsettled, TakeReceipt, Tick
  <2>2. answer.to \in Server /\ Readable(e) /\ Recognises(answer.to, e) /\ Unexpired(e, now)
    BY <2>1 DEF Admit, Accepts, Inv, AnswerInv
  <2>3. OrEmpty(e.expires) = OrEmpty(c.expires)
    BY <2>2, BoundEcho
  <2>4. now < MaxTime + 1
    BY ExchangeAssumption DEF Inv
  <2>5. CASE OrEmpty(c.expires) = <<>>
    BY <2>4, <2>5 DEF Deadline
  <2>6. CASE OrEmpty(c.expires) # <<>>
    <3>1. c.expires = e.expires /\ e.expires # Absent
      BY <2>3, <2>6 DEF OrEmpty
    <3> QED
      BY <2>2, <2>6, <3>1 DEF Unexpired, Deadline
  <2> QED
    BY <2>5, <2>6
<1> QED
  BY <1>1, Invariance, PTL DEF Spec, NoLateAdmission

-----------------------------------------------------------------------------
(***************************************************************************)
(* Types: what the operators make of texts.                                *)
(***************************************************************************)

LEMMA LowercaseIsText ==
    ASSUME NEW x \in Text
    PROVE  lowercase(x) \in Text /\ lowercase(lowercase(x)) = lowercase(x)
<1>1. Len(x) \in Nat /\ DOMAIN x = 1 .. Len(x) /\ \A i \in 1 .. Len(x) : x[i] \in Int
  BY LenProperties, ElementOfSeq DEF Text
<1> DEFINE y == lowercase(x)
<1>2. /\ DOMAIN y = 1 .. Len(x)
      /\ \A i \in 1 .. Len(x) : y[i] = IF x[i] \in 60 .. 79 THEN x[i] - 20 ELSE x[i]
  BY <1>1 DEF lowercase, Upper
<1>3. y = [i \in 1 .. Len(x) |-> y[i]]
  BY <1>1 DEF lowercase
<1> HIDE DEF y
<1>4. ASSUME NEW i \in 1 .. Len(x) PROVE y[i] \in Int /\ y[i] \notin 60 .. 79
  <2>1. x[i] \in Int
    BY <1>1
  <2>2. y[i] = IF x[i] \in 60 .. 79 THEN x[i] - 20 ELSE x[i]
    BY <1>2
  <2>3. CASE x[i] \in 60 .. 79
    <3>1. y[i] = x[i] - 20 /\ x[i] >= 60 /\ x[i] <= 79
      BY <2>2, <2>3
    <3> QED
      BY <2>1, <3>1, SMTT(30)
  <2>4. CASE x[i] \notin 60 .. 79
    BY <2>1, <2>2, <2>4
  <2> QED
    BY <2>3, <2>4
<1>5. y \in Seq(Int)
  BY <1>1, <1>3, <1>4, IsASeq
<1>6. lowercase(y) = [i \in 1 .. Len(x) |-> y[i]]
  BY <1>2, <1>4 DEF lowercase, Upper
<1> QED
  BY <1>3, <1>5, <1>6 DEF y, Text

\* What is there stays there.
LEMMA LowercaseIsGiven ==
    ASSUME NEW x \in Text, x # Absent
    PROVE  lowercase(x) # Absent
<1> SUFFICES ASSUME lowercase(x) = Absent PROVE FALSE
  OBVIOUS
<1>1. Len(x) \in Nat /\ DOMAIN x = 1 .. Len(x) /\ \A i \in 1 .. Len(x) : x[i] \in Int
  BY LenProperties, ElementOfSeq DEF Text
<1>2. /\ DOMAIN lowercase(x) = 1 .. Len(x)
      /\ \A i \in 1 .. Len(x) :
           lowercase(x)[i] = IF x[i] \in 60 .. 79 THEN x[i] - 20 ELSE x[i]
  BY <1>1 DEF lowercase, Upper
<1>3. /\ Absent \in Text /\ Len(Absent) = 1 /\ DOMAIN Absent = 1 .. 1 /\ Absent[1] = -1
  BY DEF Absent, Text
<1>4. 1 .. Len(x) = 1 .. 1
  BY <1>2, <1>3
<1>5. Len(x) = 1
  BY <1>1, <1>4
<1>6. x[1] = -1
  <2>1. 1 \in 1 .. Len(x) /\ lowercase(x)[1] = -1
    BY <1>3, <1>5
  <2>2. x[1] \in Int
    BY <1>1, <2>1
  <2>3. lowercase(x)[1] = IF x[1] \in 60 .. 79 THEN x[1] - 20 ELSE x[1]
    BY <1>2, <2>1
  <2> QED
    BY <2>1, <2>2, <2>3, SMTT(30)
<1>7. x = Absent
  BY <1>3, <1>5, <1>6, SeqEqual, SMTT(30) DEF Text
<1> QED
  BY <1>7

LEMMA EncodedIsText ==
    ASSUME NEW x \in Text
    PROVE  base64url_encode(x) \in Text /\ Len(base64url_encode(x)) = Len(x)
<1>1. Len(x) \in Nat /\ DOMAIN x = 1 .. Len(x) /\ \A i \in 1 .. Len(x) : x[i] \in Int
  BY LenProperties, ElementOfSeq DEF Text
<1>2. base64url_encode(x) = [i \in 1 .. Len(x) |-> x[i] + 100]
  BY <1>1 DEF base64url_encode, Alphabet
<1>3. \A i \in 1 .. Len(x) : x[i] + 100 \in Int
  BY <1>1
<1> DEFINE e == [i \in 1 .. Len(x) |-> x[i] + 100]
<1>4. e \in [1 .. Len(x) -> Int]
  BY <1>3
<1> HIDE DEF e
<1>5. e \in Seq(Int) /\ Len(e) = Len(x)
  BY <1>1, <1>4, IsASeq, LenProperties
<1> QED
  BY <1>2, <1>5 DEF e, Text

LEMMA WithoutIsText ==
    ASSUME NEW x \in Text, NEW c
    PROVE  Without(x, c) \in Text
<1> DEFINE parts == [i \in 1 .. Len(x) |-> IF x[i] = c THEN <<>> ELSE <<x[i]>>]
<1>1. Len(x) \in Nat /\ DOMAIN x = 1 .. Len(x) /\ \A i \in 1 .. Len(x) : x[i] \in Int
  BY LenProperties, ElementOfSeq DEF Text
<1>2. ASSUME NEW i \in 1 .. Len(x) PROVE (IF x[i] = c THEN <<>> ELSE <<x[i]>>) \in Text
  BY <1>1 DEF Text
<1>3. parts \in Seq(Text)
  BY <1>1, <1>2, IsASeq
<1>4. FlattenSeq(parts) \in Text
  BY <1>3, FlattenStep
<1> QED
  BY <1>1, <1>4 DEF Without

LEMMA DecodedIsText ==
    ASSUME NEW raw \in Text
    PROVE  decode(raw) \in Text
<1> DEFINE u == Without(raw, Equals)
           json == base64url_decode(raw)
           first == SelectInSeq(json, LAMBDA c : c = Brace)
           I == {i \in 1 .. Len(json) : json[i] = Brace}
<1>1. u \in Text
  BY WithoutIsText
<1>2. Len(u) \in Nat /\ DOMAIN u = 1 .. Len(u) /\ \A i \in 1 .. Len(u) : u[i] \in Int
  BY <1>1, LenProperties, ElementOfSeq DEF Text
<1>3. json \in Text
  <2> DEFINE d == [i \in 1 .. Len(u) |-> u[i] - 100]
  <2>1. json = Err \/ json = [i \in DOMAIN u |-> u[i] - 100]
    BY DEF base64url_decode, Alphabet
  <2>2. d \in [1 .. Len(u) -> Int]
    BY <1>2
  <2>3. d = [i \in DOMAIN u |-> u[i] - 100]
    BY <1>2
  <2> HIDE DEF d, u, json
  <2>4. d \in Seq(Int)
    BY <1>2, <2>2, IsASeq
  <2>5. Err \in Text
    BY DEF Err, Text
  <2> QED
    BY <2>1, <2>3, <2>4, <2>5 DEF Text
<1>4. first = IF I # {} THEN Min(I) ELSE 0
  BY DEF SelectInSeq
<1>5. decode(raw) = IF json = Err \/ first = 0 THEN Absent ELSE SubSeq(json, 1, first - 1)
  BY DEF decode
<1>6. Absent \in Text
  BY DEF Absent, Text
<1> HIDE DEF json, first, u
<1>7. Len(json) \in Nat /\ \A i \in 1 .. Len(json) : json[i] \in Int
  BY <1>3, LenProperties, ElementOfSeq DEF Text
<1>8. ASSUME first # 0 PROVE SubSeq(json, 1, first - 1) \in Text
  <2>1. I \in SUBSET Nat /\ I # {}
    BY <1>4, <1>7, <1>8
  <2>2. PICK m \in I : \A k \in I : m <= k
    <3> HIDE DEF I
    <3> QED
      BY <2>1, Smallest, Zenon
  <2>3. first = m /\ m \in 1 .. Len(json)
    BY <1>4, <1>7, <2>1, <2>2 DEF Min
  <2>4. \A i \in 1 .. first - 1 : json[i] \in Int
    BY <1>7, <2>3
  <2> QED
    BY <1>7, <2>3, <2>4, SubSeqProperties DEF Text
<1> QED
  BY <1>5, <1>6, <1>8

LEMMA NumeralOfText ==
    ASSUME NEW text \in Text, IsNumeral(text)
    PROVE  text \in Seq(Nat)
<1>1. Len(text) \in Nat /\ DOMAIN text = 1 .. Len(text) /\ text \in [1 .. Len(text) -> Int]
  BY LenProperties DEF Text
<1>2. \A i \in 1 .. Len(text) : text[i] \in Digit
  BY <1>1 DEF IsNumeral, ToSet
<1>3. text \in [1 .. Len(text) -> Nat]
  BY <1>1, <1>2, RadixType
<1> QED
  BY <1>1, <1>3, SeqDef

LEMMA UnsignedIsText ==
    ASSUME NEW S, NEW text \in Seq(S)
    PROVE  Unsigned(text) \in Seq(S)
BY HeadTailProperties DEF Unsigned

\* str::parse
LEMMA NumberIsBelow ==
    ASSUME NEW text \in Text, NEW limit \in Nat
    PROVE  \/ Number(text, limit) \in Nat /\ Number(text, limit) < limit
           \/ Number(text, limit) = NotANumber
<1> DEFINE u == Unsigned(text)
           value == IF IsNumeral(u) THEN Value(u) ELSE NotANumber
<1>1. u \in Text
  BY UnsignedIsText DEF Text
<1>2. value \in Nat \/ value = NotANumber
  <2>1. CASE IsNumeral(u)
    <3>1. u \in Seq(Nat)
      BY <1>1, <2>1, NumeralOfText
    <3>2. 0 \in Nat
      OBVIOUS
    <3>3. Value(u) \in Nat
      BY <3>1, <3>2, ValueStep, Zenon
    <3> QED
      BY <2>1, <3>3
  <2> QED
    BY <2>1
<1>3. Number(text, limit) = IF value < limit THEN value ELSE NotANumber
  BY DEF Number
<1> HIDE DEF value
<1> QED
  BY <1>2, <1>3

LEMMA NumberIsInt ==
    ASSUME NEW text \in Text, NEW limit \in Nat
    PROVE  Number(text, limit) \in Int
BY NumberIsBelow DEF NotANumber

LEMMA TrimmedIsText ==
    ASSUME NEW text \in Seq(Nat)
    PROVE  TrimZeros(text) \in Seq(Nat)
<1> DEFINE first == SelectInSeq(text, LAMBDA c : c # 0)
           I == {i \in 1 .. Len(text) : text[i] # 0}
<1>1. Len(text) \in Nat /\ \A i \in 1 .. Len(text) : text[i] \in Nat
  BY LenProperties, ElementOfSeq
<1>2. first = IF I # {} THEN Min(I) ELSE 0
  BY DEF SelectInSeq
<1>3. TrimZeros(text) = IF first = 0 THEN <<0>> ELSE SubSeq(text, first, Len(text))
  BY DEF TrimZeros
<1> HIDE DEF first
<1>4. ASSUME first # 0 PROVE SubSeq(text, first, Len(text)) \in Seq(Nat)
  <2>1. I \in SUBSET Nat /\ I # {}
    BY <1>1, <1>2, <1>4
  <2>2. PICK m \in I : \A k \in I : m <= k
    <3> HIDE DEF I
    <3> QED
      BY <2>1, Smallest, Zenon
  <2>3. first = m /\ m \in 1 .. Len(text)
    BY <1>1, <1>2, <2>1, <2>2 DEF Min
  <2>4. \A i \in first .. Len(text) : text[i] \in Nat
    BY <1>1, <2>3
  <2> QED
    BY <1>1, <2>3, <2>4, SubSeqProperties
<1> QED
  BY <1>3, <1>4

LEMMA PartsAreTexts ==
    ASSUME NEW text \in Seq(Nat), Dot \in ToSet(text)
    PROVE  Whole(text) \in Seq(Nat) /\ Fraction(text) \in Seq(Nat)
<1>1. PICK n \in 1 .. Len(text) : text[n] = Dot /\ \A i \in 1 .. n - 1 : text[i] # Dot
  BY FirstDot
<1> QED
  BY <1>1, PartsAt

LEMMA NatIsText == \A x \in Seq(Nat) : x \in Text
BY SeqMonotonic DEF Text

\* What parse_units yields, for whatever a route asks.
LEMMA PriceIsText ==
    ASSUME NEW price \in Seq(Nat), NEW places \in Nat
    PROVE  /\ parse_units(price, places) # Err => parse_units(price, places) \in Seq(Nat)
           /\ BaseUnits(price, places) \in Int
<1>1. /\ U128 \in Nat /\ U128 > 0 /\ price \in Text
  BY AmountsAssumption, NatIsText
<1> DEFINE amount == parse_units(price, places)
<1>2. ASSUME Dot \in ToSet(price) PROVE amount # Err => amount \in Seq(Nat)
  <2> DEFINE w == Whole(price)
             f == Fraction(price)
             k == places - Len(f)
  <2>1. w \in Seq(Nat) /\ f \in Seq(Nat) /\ Len(f) \in Nat
    BY <1>2, PartsAreTexts, LenProperties
  <2>2. amount
          = IF Len(f) > places THEN Err ELSE TrimZeros(w \o f \o Zeros(k))
    BY <1>2 DEF parse_units
  <2>3. ASSUME Len(f) <= places PROVE TrimZeros(w \o f \o Zeros(k)) \in Seq(Nat)
    <3> HIDE DEF w, f
    <3>1. k \in Nat
      BY <2>1, <2>3
    <3>2. Zeros(k) \in Seq(Nat)
      BY <3>1, IsASeq DEF Zeros
    <3>3. w \o f \o Zeros(k) \in Seq(Nat)
      BY <2>1, <3>2, ConcatProperties
    <3> QED
      BY <3>3, TrimmedIsText
  <2> QED
    BY <2>1, <2>2, <2>3, SMTT(30)
<1>3. ASSUME Dot \notin ToSet(price) PROVE amount # Err => amount \in Seq(Nat)
  <2> DEFINE n == Number(price, U128)
             p == n * Power(places)
  <2>1. amount = IF n = NotANumber THEN Err ELSE Numeral(p % U128)
    BY <1>3 DEF parse_units
  <2>2. ASSUME n # NotANumber PROVE Numeral(p % U128) \in Seq(Nat)
    <3>1. n \in Nat
      BY <1>1, <2>2, NumberIsBelow
    <3>2. Power(places) \in Nat
      BY PowerIsPositive
    <3> HIDE DEF n
    <3>3. p \in Nat
      BY <3>1, <3>2
    <3> HIDE DEF p
    <3>4. p % U128 \in Nat
      BY <1>1, <3>3
    <3>5. Numeral(p % U128) \in Seq(Digit)
      BY <3>4, NumeralIsRead
    <3> QED
      BY <3>5, DigitsAreNat
  <2> QED
    BY <2>1, <2>2
<1>4. BaseUnits(price, places) \in Int
  <2> DEFINE u == Unsigned(price)
  <2>1. u \in Seq(Nat)
    BY UnsignedIsText
  <2>2. ASSUME NEW d \in Seq(Nat) PROVE Value(d) \in Nat
    <3>1. 0 \in Nat
      OBVIOUS
    <3> QED
      BY <2>2, <3>1, ValueStep, Zenon
  <2>3. Power(places) \in Nat
    BY PowerIsPositive
  <2>4. CASE ~IsPrice(price, places)
    BY <2>4 DEF BaseUnits, NotANumber
  <2>5. CASE IsPrice(price, places) /\ Dot \notin ToSet(u)
    <3>1. BaseUnits(price, places) = Value(u) * Power(places)
      BY <2>5 DEF BaseUnits
    <3>2. Value(u) \in Nat
      BY <2>1, <2>2
    <3> HIDE DEF u
    <3> QED
      BY <2>3, <3>1, <3>2
  <2>6. CASE IsPrice(price, places) /\ Dot \in ToSet(u)
    <3> DEFINE f == Fraction(u)
               w == Whole(u)
               k == places - Len(f)
    <3>1. BaseUnits(price, places) = Value(w) * Power(places) + Value(f) * Power(k)
      BY <2>6 DEF BaseUnits
    <3>2. Len(f) <= places
      BY <2>6 DEF IsPrice
    <3>3. w \in Seq(Nat) /\ f \in Seq(Nat) /\ Len(f) \in Nat
      BY <2>1, <2>6, PartsAreTexts, LenProperties
    <3>4. Value(w) \in Nat /\ Value(f) \in Nat
      BY <2>2, <3>3
    <3> HIDE DEF w, f
    <3>5. k \in Nat
      BY <3>2, <3>3
    <3> HIDE DEF k
    <3>6. Power(k) \in Nat
      BY <3>5, PowerIsPositive
    <3> QED
      BY <2>3, <3>1, <3>4, <3>6
  <2> QED
    BY <2>4, <2>5, <2>6
<1> HIDE DEF amount
<1>5. amount # Err => amount \in Seq(Nat)
  BY <1>2, <1>3
<1> QED
  BY <1>4, <1>5 DEF amount

\* A code is of no length to be taken for nothing.
LEMMA CodeIsText ==
    ASSUME NEW k \in Nat, NEW r \in Text, NEW c, Texts7(c)
    PROVE  /\ compute_challenge_id(k, r, c) \in Text
           /\ Len(compute_challenge_id(k, r, c)) >= 7
<1> DEFINE c7 == OrEmpty(c.opaque)
           c6 == Then(OrEmpty(c.digest), c7)
           c5 == Then(OrEmpty(c.expires), c6)
           request == c.request
           intent == c.intent
           method == c.method
           c4 == Then(request, c5)
           c3 == Then(intent, c4)
           c2 == Then(method, c3)
           c1 == Then(r, c2)
<1>1. /\ OrEmpty(c.expires) \in Text /\ OrEmpty(c.digest) \in Text /\ c7 \in Text
      /\ method \in Text /\ intent \in Text /\ request \in Text
  BY OrEmptyIsText DEF Texts7
<1>2. ASSUME NEW f \in Text, NEW x \in Text
      PROVE  Then(f, x) \in Text /\ Len(Then(f, x)) >= 1 + Len(x) /\ Len(x) \in Nat
  <2>1. Len(f) \in Nat /\ Len(x) \in Nat
    BY LenProperties DEF Text
  <2> QED
    BY <2>1, ThenIsText
<1>3. Joined(r, c) = c1
  BY DEF Joined
<1> HIDE DEF c7, request, intent, method
<1>4. c6 \in Text /\ Len(c6) >= 1
  BY <1>1, <1>2
<1> HIDE DEF c6
<1>5. c5 \in Text /\ Len(c5) >= 2
  BY <1>1, <1>2, <1>4
<1> HIDE DEF c5
<1>6. c4 \in Text /\ Len(c4) >= 3
  BY <1>1, <1>2, <1>5
<1> HIDE DEF c4
<1>7. c3 \in Text /\ Len(c3) >= 4
  BY <1>1, <1>2, <1>6
<1> HIDE DEF c3
<1>8. c2 \in Text /\ Len(c2) >= 5
  BY <1>1, <1>2, <1>7
<1> HIDE DEF c2
<1>9. c1 \in Text /\ Len(c1) >= 6
  BY <1>2, <1>8
<1> HIDE DEF c1
<1>10. <<k>> \in Text /\ Len(<<k>>) = 1
  BY DEF Text
<1>11. Hmac(k, c1) \in Text /\ Len(Hmac(k, c1)) = 1 + Len(c1) /\ Len(c1) \in Nat
  <2>1. Len(c1) \in Nat
    BY <1>9, LenProperties DEF Text
  <2> QED
    BY <1>9, <1>10, <2>1, ConcatProperties DEF Hmac, Text
<1>12. /\ base64url_encode(Hmac(k, c1)) \in Text
       /\ Len(base64url_encode(Hmac(k, c1))) = Len(Hmac(k, c1))
  BY <1>11, EncodedIsText
<1> QED
  BY <1>3, <1>9, <1>11, <1>12 DEF compute_challenge_id

LEMMA LongIsThere ==
    ASSUME NEW x \in Text, Len(x) >= 7
    PROVE  x # Absent /\ x # <<>>
<1>1. Len(x) # 1 /\ Len(x) # 0
  <2>1. Len(x) \in Nat
    BY LenProperties DEF Text
  <2>2. \A n \in Nat : n >= 7 => n # 1 /\ n # 0
    OBVIOUS
  <2> QED
    BY <2>1, <2>2, Zenon
<1>2. Len(Absent) = 1 /\ Len(<<>>) = 0
  BY DEF Absent
<1> QED
  BY <1>1, <1>2

\* The fields of a challenge, as they are sent.
Shaped(c) ==
    /\ c \in [ChallengeFields -> Text]
    /\ \A f \in Required : c[f] # Absent
    /\ c.id # <<>>
    /\ IntentName(c.intent) = c.intent

\* What the constructors are given.
Drawn(c) ==
    /\ c \in [ChallengeFields -> Text]
    /\ \A f \in Required : c[f] # Absent

\* The constructors leave no required field out (with_secret_key_full).
LEMMA NamedIsShaped ==
    ASSUME NEW k \in Nat, NEW c, Drawn(c)
    PROVE  Shaped(with_secret_key_full(k, c))
<1> DEFINE d == with_secret_key_full(k, c)
           named == [c EXCEPT !.method = MethodName(@), !.intent = IntentName(@)]
           code == compute_challenge_id(k, named.realm, named)
<1>1. /\ {"id", "realm", "method", "intent", "request"} = Required
      /\ Required \cup {"expires", "digest", "opaque"} = EchoFields
      /\ EchoFields \cup {"description"} = ChallengeFields
  BY DEF ChallengeFields, EchoFields, Required
<1>2. d = [named EXCEPT !.id = code]
  BY DEF with_secret_key_full
<1>3. /\ c.method \in Text /\ c.intent \in Text /\ c.realm \in Text
      /\ c.method # Absent /\ c.intent # Absent
  BY <1>1 DEF Drawn
<1>4. /\ lowercase(c.method) \in Text /\ lowercase(c.intent) \in Text
      /\ lowercase(c.method) # Absent /\ lowercase(c.intent) # Absent
      /\ lowercase(lowercase(c.intent)) = lowercase(c.intent)
  BY <1>3, LowercaseIsText, LowercaseIsGiven
<1>5. /\ named \in [ChallengeFields -> Text]
      /\ named.method = lowercase(c.method) /\ named.intent = lowercase(c.intent)
      /\ \A f \in ChallengeFields \ {"method", "intent"} : named[f] = c[f]
  BY <1>1, <1>4 DEF Drawn, MethodName, IntentName
<1> HIDE DEF named
<1>6. Texts7(named) /\ named.realm \in Text
  BY <1>1, <1>5 DEF Texts7
<1>7. code \in Text /\ Len(code) >= 7
  BY <1>6, CodeIsText
<1> HIDE DEF code
<1>8. code # Absent /\ code # <<>>
  BY <1>7, LongIsThere
<1>9. /\ d \in [ChallengeFields -> Text] /\ d.id = code
      /\ \A f \in ChallengeFields \ {"id"} : d[f] = named[f]
  BY <1>1, <1>2, <1>5, <1>7
<1> HIDE DEF d
<1>10. \A f \in Required : d[f] # Absent
  <2> SUFFICES ASSUME NEW f \in Required PROVE d[f] # Absent
    OBVIOUS
  <2>1. CASE f = "id"
    BY <1>8, <1>9, <2>1
  <2>2. CASE f = "method" \/ f = "intent"
    BY <1>1, <1>4, <1>5, <1>9, <2>2
  <2>3. CASE f \notin {"id", "method", "intent"}
    BY <1>1, <1>5, <1>9, <2>3 DEF Drawn
  <2> QED
    BY <2>1, <2>2, <2>3
<1>11. IntentName(d.intent) = d.intent
  BY <1>1, <1>4, <1>5, <1>9 DEF IntentName
<1> QED
  BY <1>8, <1>9, <1>10, <1>11 DEF Shaped, d

LEMMA PricedIsShaped ==
    ASSUME NEW s \in Server, NEW o \in Offer[s], now \in Int,
           parse_units(o.price, decimals[s]) # Err
    PROVE  Shaped(Priced(s, o)) /\ BaseUnits(o.price, decimals[s]) \in Int
<1> DEFINE amount == parse_units(o.price, decimals[s])
           tail == OrEmpty(o.description)
           front == amount \o <<Brace>>
           r == from_typed([amount |-> amount, description |-> o.description])
           expires == IF o.expires = Absent THEN offset(default_expires) ELSE o.expires
           c == [id |-> <<>>, realm |-> realm[s], method |-> <<50>>,
                 intent |-> <<51>>, request |-> r, expires |-> expires,
                 description |-> o.description, digest |-> Absent,
                 opaque |-> Absent]
<1>1. /\ o.price \in Seq(Nat) /\ o.description \in Seq(Nat) \cup {Absent}
      /\ o.expires \in Text /\ default_expires \in Nat
      /\ decimals[s] \in Nat /\ secret_key[s] \in Nat
      /\ realm[s] \in Text /\ realm[s] # Absent
  BY ExchangeAssumption DEF Given
<1>2. amount \in Seq(Nat) /\ BaseUnits(o.price, decimals[s]) \in Int
  BY <1>1, PriceIsText
<1>3. tail \in Seq(Nat) /\ <<Brace>> \in Seq(Nat) /\ Len(<<Brace>>) = 1 /\ <<Brace>>[1] = Brace
  BY <1>1, EmptySeq DEF OrEmpty, Brace
<1>4. r = base64url_encode(front \o tail)
  BY DEF from_typed, Json
<1> HIDE DEF amount, tail
<1>5. front \in Seq(Nat) /\ Len(front) >= 1
  BY <1>2, <1>3, ConcatProperties, LenProperties
<1>6. front \o tail \in Seq(Nat) /\ Len(front \o tail) >= 1
  BY <1>3, <1>5, ConcatProperties, LenProperties
<1> HIDE DEF front, r
<1>7. r \in Text /\ r # Absent
  <2> DEFINE json == front \o tail
  <2>1. json \in Seq(Nat) /\ Len(json) >= 1 /\ json \in Text
    BY <1>6, NatIsText
  <2> HIDE DEF json
  <2>2. Len(json) \in Nat /\ DOMAIN json = 1 .. Len(json) /\ json[1] \in Nat
    BY <2>1, LenProperties, ElementOfSeq
  <2>3. base64url_encode(json)[1] = json[1] + 100
    BY <2>1, <2>2 DEF base64url_encode, Alphabet
  <2>4. base64url_encode(json) # Absent
    BY <2>2, <2>3 DEF Absent
  <2> QED
    BY <1>4, <2>1, <2>4, EncodedIsText DEF json
<1>8. expires \in Text
  BY <1>1 DEF offset, Timestamp, Text, Calendar
<1> HIDE DEF expires
<1>9. /\ <<>> \in Text /\ <<50>> \in Text /\ <<51>> \in Text /\ Absent \in Text
      /\ <<>> # Absent /\ <<50>> # Absent /\ <<51>> # Absent
      /\ o.description \in Text
  <2>1. /\ <<>> \in Text /\ <<50>> \in Text /\ <<51>> \in Text /\ Absent \in Text
        /\ <<>> # Absent
    BY DEF Absent, Text
  <2>2. <<50>> # Absent /\ <<51>> # Absent
    BY DEF Absent
  <2>3. o.description \in Text
    BY <1>1, <2>1, NatIsText
  <2> QED
    BY <2>1, <2>2, <2>3
<1>10. Drawn(c)
  <2>1. c \in [ChallengeFields -> Text]
    <3>1. /\ ChallengeFields = {"id", "realm", "method", "intent", "request", "expires",
                                "description", "digest", "opaque"}
          /\ DOMAIN c = ChallengeFields /\ c = [f \in ChallengeFields |-> c[f]]
      BY DEF ChallengeFields, EchoFields, Required
    <3>2. /\ c.id \in Text /\ c.realm \in Text /\ c.method \in Text /\ c.intent \in Text
          /\ c.request \in Text /\ c.expires \in Text /\ c.description \in Text
          /\ c.digest \in Text /\ c.opaque \in Text
      BY <1>1, <1>7, <1>8, <1>9
    <3> HIDE DEF c
    <3>3. \A f \in ChallengeFields : c[f] \in Text
      BY <3>1, <3>2
    <3> QED
      BY <3>1, <3>3
  <2>2. /\ c.id # Absent /\ c.realm # Absent /\ c.method # Absent
        /\ c.intent # Absent /\ c.request # Absent
    BY <1>1, <1>7, <1>9
  <2> HIDE DEF c
  <2> QED
    BY <2>1, <2>2 DEF Drawn, Required
<1>11. Priced(s, o) = with_secret_key_full(secret_key[s], c)
  BY DEF Priced, expires, r, amount
<1> HIDE DEF c
<1> QED
  BY <1>1, <1>2, <1>10, <1>11, NamedIsShaped

-----------------------------------------------------------------------------
(***************************************************************************)
(* Types of the variables.                                                 *)
(***************************************************************************)

ShapeInv == \A i \in issued : Shaped(i.challenge) /\ i.due \in Int

\* Before there is a header there is nothing of it.
ScannerInv ==
    /\ \A h \in response : h \in Text
    /\ header \in Text /\ at \in 1 .. Len(header) + 1
    /\ params \in [DOMAIN params -> Text]
    /\ stage \in {"open", "unsent", "sent"} =>
         header = <<>> /\ at = 1 /\ DOMAIN params = {}

Unread == {"open", "unsent", "sent", "scan", "rejected"}
Answered == {"answered", "refused", "settling", "unsettled", "served", "done"}

ClientInv ==
    /\ stage \in Unread => challenge = Nothing
    /\ stage \notin Unread => challenge \in [ChallengeFields -> Text]
    /\ paid \in Int
    /\ stage \notin Answered => answer = Nothing
    /\ stage \in Answered => answer.to \in Server /\ answer.echo \in [EchoFields -> Text]
    /\ receipt # Nothing => receipt = Receipt(answer.echo)
    /\ stage \in Stage

TypeInv == ShapeInv /\ ScannerInv /\ ClientInv

LEMMA FieldsAreAll ==
    /\ \A n \in 1 .. 9 : Fields[n] \in ChallengeFields
    /\ \A f \in ChallengeFields : \E n \in 1 .. 9 : f = Fields[n]
<1>1. \A n \in 1 .. 9 : n \in {1, 2, 3, 4, 5, 6, 7, 8, 9}
  OBVIOUS
<1>2. /\ Fields[1] = "id" /\ Fields[2] = "realm" /\ Fields[3] = "method"
      /\ Fields[4] = "intent" /\ Fields[5] = "request" /\ Fields[6] = "expires"
      /\ Fields[7] = "description" /\ Fields[8] = "digest" /\ Fields[9] = "opaque"
  BY DEF Fields
<1>3. ChallengeFields = {"id", "realm", "method", "intent", "request", "expires",
                         "description", "digest", "opaque"}
  BY DEF ChallengeFields, EchoFields, Required
<1> QED
  BY <1>1, <1>2, <1>3

\* A challenge as it is issued can be carried by a header, unless a line is
\* broken in it.
LEMMA ShapedIsSent ==
    ASSUME NEW c, Shaped(c)
    PROVE  /\ Carried(c)
           /\ format_www_authenticate(c) # Err => format_www_authenticate(c) \in Text
           /\ format_www_authenticate(c) = Err =>
                \E f \in ChallengeFields : LineBreak \in ToSet(c[f])
<1>1. Carried(c)
  BY FieldsAreAll DEF Shaped, Carried, Required
<1> QED
  BY <1>1, FormattedIs, FieldsAreAll

LEMMA ParamsPlace ==
    ASSUME NEW text \in Text, HasScheme(text)
    PROVE  Params(text) \in 1 .. Len(text) + 1
<1> DEFINE i == Scheme(text, {Blank, Tab})
<1>1. Len(text) \in Nat
  BY LenProperties DEF Text
<1>2. Past(text, 1, Whitespace) \in 1 .. Len(text) + 1
  BY <1>1, PastStops
<1>3. i = Past(text, 1, Whitespace) /\ i < Len(text)
  BY DEF HasScheme, Scheme
<1> HIDE DEF i
<1>4. i + 1 \in 1 .. Len(text) + 1
  BY <1>1, <1>2, <1>3
<1>5. Past(text, i + 1, Whitespace) \in i + 1 .. Len(text) + 1
  BY <1>4, PastStops
<1> QED
  BY <1>1, <1>4, <1>5 DEF Params, i

LEMMA GetIsText ==
    ASSUME NEW p, p \in [DOMAIN p -> Text], NEW f
    PROVE  Get(p, f) \in Text
BY DEF Get, Absent, Text

LEMMA InitType == Init => TypeInv
BY EmptySeq DEF Init, TypeInv, ShapeInv, ScannerInv, ClientInv, Unread, Answered, Stage,
                Nothing, NotANumber, Text

\* A challenge more.
LEMMA IssueKeepsType ==
    ASSUME TypeInv, NEW s, NEW c, NEW due, MayIssue, Issue(s, c, due),
           Shaped(c), due \in Int
    PROVE  TypeInv'
<1> DEFINE i == [by |-> s, challenge |-> c, due |-> due]
<1>1. /\ issued' = issued \cup {i}
      /\ UNCHANGED <<response, header, at, params, challenge, paid, answer, receipt, stage>>
  BY DEF Issue, scanner, client
<1>2. i.challenge = c /\ i.due = due
  OBVIOUS
<1> HIDE DEF i
<1>3. ShapeInv'
  BY <1>1, <1>2 DEF TypeInv, ShapeInv
<1>4. ScannerInv' /\ ClientInv'
  BY <1>1 DEF TypeInv, ScannerInv, ClientInv
<1> QED
  BY <1>3, <1>4 DEF TypeInv

LEMMA ChargeKeepsType ==
    ASSUME Inv, TypeInv, NEW s \in Server, NEW o \in Offer[s], Charge(s, o)
    PROVE  TypeInv'
<1>1. now \in Int
  BY ExchangeAssumption DEF Inv
<1>2. Shaped(Priced(s, o)) /\ BaseUnits(o.price, decimals[s]) \in Int
  BY <1>1, PricedIsShaped DEF Charge
<1> QED
  BY <1>2, IssueKeepsType DEF Charge

LEMMA ChargeByHandKeepsType ==
    ASSUME TypeInv, NEW s \in Server, NEW d \in Draft[s], ChargeByHand(s, d)
    PROVE  TypeInv'
<1> DEFINE k == secret_key[s]
           named == [d EXCEPT !.realm = realm[s]]
           bare == [named EXCEPT !.expires = Absent, !.description = Absent,
                                 !.digest = Absent, !.opaque = Absent]
           full == with_secret_key_full(k, named)
           short == with_secret_key(k, named)
           due == IF decode(d.request) = Absent THEN NotANumber
                  ELSE Number(decode(d.request), U64)
<1>1. /\ {"id", "realm", "method", "intent", "request"} = Required
      /\ Required \cup {"expires", "digest", "opaque"} = EchoFields
      /\ EchoFields \cup {"description"} = ChallengeFields
  BY DEF ChallengeFields, EchoFields, Required
<1>2. /\ d \in [ChallengeFields -> Text] /\ \A f \in Required : d[f] # Absent
      /\ k \in Nat /\ realm[s] \in Text /\ realm[s] # Absent
  BY ExchangeAssumption DEF Given
<1>3. Drawn(named)
  <2>1. /\ named \in [ChallengeFields -> Text] /\ named.realm = realm[s]
        /\ \A f \in ChallengeFields \ {"realm"} : named[f] = d[f]
    BY <1>1, <1>2
  <2> HIDE DEF named
  <2> QED
    BY <1>1, <1>2, <2>1 DEF Drawn
<1>4. Drawn(bare)
  <2>1. Absent \in Text
    BY DEF Absent, Text
  <2> HIDE DEF named
  <2>2. /\ bare \in [ChallengeFields -> Text]
        /\ \A f \in Required : bare[f] = named[f]
    BY <1>1, <1>3, <2>1 DEF Drawn
  <2> HIDE DEF bare
  <2> QED
    BY <1>3, <2>2 DEF Drawn
<1>5. short = with_secret_key_full(k, bare)
  BY DEF with_secret_key
<1>6. due \in Int
  <2>1. d.request \in Text /\ U64 \in Nat
    BY <1>1, <1>2, AmountsAssumption
  <2>2. decode(d.request) \in Text
    BY <2>1, DecodedIsText
  <2>3. Number(decode(d.request), U64) \in Int
    BY <2>1, <2>2, NumberIsInt
  <2> QED
    BY <2>3 DEF NotANumber
<1>7. MayIssue /\ \E c \in {short, full} : Issue(s, c, due)
  BY DEF ChargeByHand
<1> HIDE DEF named, bare, k, full, short, due
<1>8. Shaped(full) /\ Shaped(short)
  BY <1>2, <1>3, <1>4, <1>5, NamedIsShaped DEF full
<1> QED
  BY <1>6, <1>7, <1>8, IssueKeepsType

\* The server sends.
LEMMA RespondKeepsType ==
    ASSUME Inv, TypeInv, Respond
    PROVE  TypeInv'
<1> DEFINE h(i) == format_www_authenticate(i.challenge)
<1>1. /\ stage = "open" /\ stage' \in {"sent", "unsent"}
      /\ UNCHANGED <<issued, header, at, params, challenge, paid, answer, receipt>>
  BY DEF Respond, Send, Unsent, SendCombined, scanner, client
<1>2. \A i \in issued : Shaped(i.challenge)
  BY DEF TypeInv, ShapeInv
<1>3. \A x \in response' : x \in Text
  <2>1. ASSUME NEW i \in issued, Send(i) PROVE \A x \in response' : x \in Text
    <3>1. h(i) # Err /\ response' = {f.text : f \in Foreign} \cup {h(i)}
      BY <2>1 DEF Send
    <3>2. h(i) \in Text
      BY <1>2, <3>1, ShapedIsSent
    <3> QED
      BY <3>1, <3>2, ExchangeAssumption
  <2>2. ASSUME NEW i \in issued, NEW j \in issued, SendCombined(i, j)
        PROVE  \A x \in response' : x \in Text
    <3>1. h(i) # Err /\ h(j) # Err /\ response' = {Joint(h(i), h(j))}
      BY <2>2 DEF SendCombined, Joint
    <3>2. h(i) \in Text /\ h(j) \in Text
      BY <1>2, <3>1, ShapedIsSent
    <3> HIDE DEF h
    <3> QED
      BY <3>1, <3>2, JointIs
  <2>3. ASSUME NEW i \in issued, Unsent(i) PROVE \A x \in response' : x \in Text
    BY <2>3 DEF Unsent, TypeInv, ScannerInv
  <2> QED
    BY <2>1, <2>2, <2>3 DEF Respond
<1>4. ShapeInv'
  BY <1>1 DEF TypeInv, ShapeInv
<1>5. ScannerInv'
  BY <1>1, <1>3 DEF TypeInv, ScannerInv
<1>6. ClientInv'
  BY <1>1 DEF TypeInv, ClientInv, Unread, Answered, Stage
<1> QED
  BY <1>4, <1>5, <1>6 DEF TypeInv

\* The scanner goes on within the header (parse_auth_params).
LEMMA ScanKeepsType ==
    ASSUME TypeInv, SelectPayment \/ (\E h \in response : Receive(h)) \/ SkipWord \/ TakeParam
    PROVE  TypeInv'
<1>1. /\ UNCHANGED <<issued, challenge, paid, answer, receipt>>
      /\ stage \in {"sent", "scan"} /\ stage' \in {"sent", "scan", "rejected"}
  BY DEF SelectPayment, Receive, SkipWord, TakeParam, AtKey, client
<1>2. ShapeInv'
  BY <1>1 DEF TypeInv, ShapeInv
<1>3. ClientInv'
  BY <1>1 DEF TypeInv, ClientInv, Unread, Answered, Stage
<1>4. ScannerInv
  BY DEF TypeInv
<1>5. ASSUME SelectPayment PROVE ScannerInv'
  BY <1>4, <1>5 DEF SelectPayment, scanner, ScannerInv
<1>6. ASSUME NEW h \in response, Receive(h) PROVE ScannerInv'
  <2>1. /\ stage = "sent" /\ header' = h /\ UNCHANGED <<response, params>>
        /\ \/ HasScheme(h) /\ at' = Params(h) /\ stage' = "scan"
           \/ at' = at /\ stage' = "rejected"
    BY <1>6 DEF Receive
  <2>2. at = 1 /\ h \in Text
    BY <1>4, <2>1 DEF ScannerInv
  <2>3. at' \in 1 .. Len(h) + 1
    <3>1. Len(h) \in Nat
      BY <2>2, LenProperties DEF Text
    <3> QED
      BY <2>1, <2>2, <3>1, ParamsPlace
  <2> QED
    BY <1>4, <2>1, <2>2, <2>3 DEF ScannerInv
<1>7. ASSUME SkipWord \/ TakeParam
      PROVE  /\ header \in Text /\ Len(header) \in Nat /\ at \in 1 .. Len(header) + 1
             /\ UNCHANGED <<header, response>>
             /\ stage' # "sent"
  BY <1>4, <1>7, LenProperties DEF ScannerInv, SkipWord, TakeParam, AtKey, Text
<1>8. ASSUME SkipWord PROVE ScannerInv'
  <2>1. /\ KeyStart(header, at) <= Len(header) /\ ~HasKey(header, at)
        /\ at' = Upto(header, KeyEnd(header, at), Whitespace \cup {Comma})
        /\ params' = params
    BY <1>8 DEF SkipWord, AtKey
  <2>2. at' \in at + 1 .. Len(header) + 1
    BY <1>7, <1>8, <2>1, WordIsPassed
  <2>3. at' \in 1 .. Len(header) + 1
    BY <1>7, <1>8, <2>2
  <2> QED
    BY <1>1, <1>4, <1>7, <1>8, <2>1, <2>3 DEF ScannerInv
<1>9. ASSUME TakeParam PROVE ScannerInv'
  <2> DEFINE key == Key(header, at)
             param == Param(header, at)
  <2>1. param.value \in Text /\ param.next \in 1 .. Len(header) + 1
    BY <1>7, <1>9, ParamIsText DEF TakeParam
  <2>2. \/ UNCHANGED <<at, params>>
        \/ /\ params' = [k \in DOMAIN params \cup {key} |->
                            IF k = key THEN param.value ELSE params[k]]
           /\ at' = param.next
    BY <1>9 DEF TakeParam
  <2> HIDE DEF key, param
  <2>3. params' \in [DOMAIN params' -> Text]
    BY <1>4, <2>1, <2>2 DEF ScannerInv
  <2>4. at' \in 1 .. Len(header) + 1
    BY <1>4, <2>1, <2>2 DEF ScannerInv
  <2> QED
    BY <1>1, <1>4, <1>7, <1>9, <2>3, <2>4 DEF ScannerInv
<1> QED
  BY <1>2, <1>3, <1>5, <1>6, <1>8, <1>9 DEF TypeInv

LEMMA UnderstandKeepsType ==
    ASSUME TypeInv, Understand \/ Reject
    PROVE  TypeInv'
<1>1. /\ UNCHANGED <<issued, response, header, at, params, paid, answer, receipt>>
      /\ stage = "scan"
      /\ \/ stage' = "rejected" /\ challenge' = challenge
         \/ /\ stage' = "read"
            /\ challenge' = [f \in ChallengeFields |->
                               IF f = "intent" THEN IntentName(Get(params, f))
                               ELSE Get(params, f)]
  BY DEF Understand, Reject, Scanned, scanner, client
<1>2. ShapeInv' /\ ScannerInv'
  BY <1>1 DEF TypeInv, ShapeInv, ScannerInv
<1>3. \A f : Get(params, f) \in Text /\ IntentName(Get(params, f)) \in Text
  BY GetIsText, LowercaseIsText DEF TypeInv, ScannerInv, IntentName
<1>4. ClientInv'
  BY <1>1, <1>3 DEF TypeInv, ClientInv, Unread, Answered, Stage
<1> QED
  BY <1>2, <1>4 DEF TypeInv

LEMMA EchoIsText ==
    ASSUME NEW c \in [ChallengeFields -> Text]
    PROVE  to_echo(c) \in [EchoFields -> Text]
BY DEF to_echo, ChallengeFields

\* An echo that was tampered with has texts in it still, and the same identity.
LEMMA RespelledIsText ==
    ASSUME TypeInv, NEW c \in [ChallengeFields -> Text], NEW e \in Respell(to_echo(c))
    PROVE  e \in [EchoFields -> Text] /\ e.id = c.id
<1> DEFINE o == to_echo(c)
<1>1. /\ {"id", "realm", "method", "intent", "request"} = Required
      /\ Required \cup {"expires", "digest", "opaque"} = EchoFields
      /\ EchoFields \cup {"description"} = ChallengeFields
  BY DEF ChallengeFields, EchoFields, Required
<1>2. o \in [EchoFields -> Text] /\ o.id = c.id
  BY <1>1, EchoIsText DEF to_echo
<1> HIDE DEF o
<1>3. \A i \in issued : \A f \in EchoFields : i.challenge[f] \in Text
  BY <1>1 DEF TypeInv, ShapeInv, Shaped
<1>4. \/ e = o
      \/ \E f \in EchoFields \ {"id"} :
           \E v \in {Absent, <<>>} \cup {i.challenge[f] : i \in issued} : e = [o EXCEPT ![f] = v]
      \/ \E f, g \in {"expires", "digest", "opaque"} :
           e = [o EXCEPT ![f] = o[g], ![g] = o[f]]
  <2> DEFINE V == {Absent, <<>>}
             R(f) == {[o EXCEPT ![f] = v] : v \in V \cup {i.challenge[f] : i \in issued}}
             U == UNION {R(f) : f \in EchoFields \ {"id"}}
             X == {[o EXCEPT ![f] = o[g], ![g] = o[f]] : f, g \in {"expires", "digest", "opaque"}}
  <2>1. Respell(o) = {o} \cup X \cup U
    BY DEF Respell
  <2>2. e \in Respell(o)
    BY DEF o
  <2>3. CASE e \in U
    <3>1. PICK f \in EchoFields \ {"id"} : e \in R(f)
      BY <2>3
    <3> QED
      BY <3>1
  <2>4. CASE e \in X
    BY <2>4
  <2> HIDE DEF U, X
  <2>5. e = o \/ e \in U \/ e \in X
    BY <2>1, <2>2
  <2> QED
    BY <2>3, <2>4, <2>5, Zenon
<1>5. ASSUME NEW f \in EchoFields \ {"id"},
             NEW v \in {Absent, <<>>} \cup {i.challenge[f] : i \in issued},
             e = [o EXCEPT ![f] = v]
      PROVE  e \in [EchoFields -> Text] /\ e.id = c.id
  <2>1. v \in Text
    <3>1. Absent \in Text /\ <<>> \in Text
      BY DEF Absent, Text
    <3> QED
      BY <1>3, <3>1
  <2> QED
    BY <1>1, <1>2, <1>5, <2>1
<1>6. ASSUME NEW f \in {"expires", "digest", "opaque"}, NEW g \in {"expires", "digest", "opaque"},
             e = [o EXCEPT ![f] = o[g], ![g] = o[f]]
      PROVE  e \in [EchoFields -> Text] /\ e.id = c.id
  <2>1. o[f] \in Text /\ o[g] \in Text /\ f # "id" /\ g # "id" /\ "id" \in EchoFields
    BY <1>1, <1>2
  <2>2. /\ [o EXCEPT ![f] = o[g]] \in [EchoFields -> Text]
        /\ [o EXCEPT ![f] = o[g]].id = c.id
    BY <1>2, <2>1
  <2> QED
    BY <1>6, <2>1, <2>2
<1> QED
  BY <1>2, <1>4, <1>5, <1>6

LEMMA AnswerKeepsType ==
    ASSUME Inv, TypeInv, Answer \/ AnswerRespelled
    PROVE  TypeInv'
<1>1. /\ stage = "read" /\ UNCHANGED <<issued, response, header, at, params, challenge, receipt>>
  BY DEF Answer, AnswerRespelled, scanner
<1>2. ShapeInv' /\ ScannerInv'
  <2>1. stage' \in {"answered", "unbuilt"}
    BY DEF Answer, AnswerRespelled
  <2> QED
    BY <1>1, <2>1 DEF TypeInv, ShapeInv, ScannerInv
<1>3. challenge \in [ChallengeFields -> Text] /\ answer = Nothing /\ receipt = Nothing
  BY <1>1 DEF TypeInv, ClientInv, Unread, Answered, Inv, ReceiptInv
<1>4. sent.by \in Server
  BY <1>1 DEF Inv, AnswerInv, IssuedInv
<1>5. /\ paid' \in Int /\ stage' \in {"answered", "unbuilt"}
      /\ stage' = "unbuilt" => answer' = answer
      /\ stage' = "answered" => answer'.to \in Server /\ answer'.echo \in [EchoFields -> Text]
  <2>1. CASE Answer
    <3> DEFINE amount == decode(challenge.request)
    <3>1. Number(amount, U64) \in Int
      <4>1. challenge.request \in Text
        BY <1>3 DEF ChallengeFields, EchoFields, Required
      <4>2. amount \in Text
        BY <4>1, DecodedIsText
      <4> QED
        BY <4>2, NumberIsInt, AmountsAssumption
    <3>2. \/ /\ paid' = Number(amount, U64)
             /\ answer' = Credential(sent.by, to_echo(challenge)) /\ stage' = "answered"
          \/ stage' = "unbuilt" /\ UNCHANGED <<paid, answer>>
      BY <2>1 DEF Answer
    <3>3. to_echo(challenge) \in [EchoFields -> Text]
      BY <1>3, EchoIsText
    <3>4. paid \in Int
      BY DEF TypeInv, ClientInv
    <3> HIDE DEF amount
    <3> QED
      BY <1>4, <3>1, <3>2, <3>3, <3>4 DEF Credential
  <2>2. CASE AnswerRespelled
    <3>1. PICK e \in Respell(to_echo(challenge)), s \in Server : answer' = Credential(s, e)
      BY <2>2 DEF AnswerRespelled
    <3>2. e \in [EchoFields -> Text]
      BY <1>3, RespelledIsText
    <3>3. paid \in Int /\ paid' = paid /\ stage' = "answered"
      BY <2>2 DEF AnswerRespelled, TypeInv, ClientInv
    <3> QED
      BY <3>1, <3>2, <3>3 DEF Credential
  <2> QED
    BY <2>1, <2>2
<1>6. ClientInv'
  BY <1>1, <1>3, <1>5 DEF TypeInv, ClientInv, Unread, Answered, Stage
<1> QED
  BY <1>2, <1>6 DEF TypeInv

LEMMA DecideKeepsType ==
    ASSUME Inv, TypeInv, Decide \/ TakeReceipt \/ Tick \/ UNCHANGED vars
    PROVE  TypeInv'
<1>1. /\ UNCHANGED <<issued, response, header, at, params, challenge, paid, answer>>
      /\ \/ stage' = stage
         \/ stage \in Answered /\ stage' \in Answered
  <2>1. CASE Decide
    BY <2>1 DEF Decide, Admit, Refuse, Serve, Unsettled, scanner, client, Answered
  <2>2. CASE TakeReceipt \/ Tick
    BY <2>2 DEF TakeReceipt, Tick, scanner, client, Answered
  <2>3. CASE UNCHANGED vars
    BY <2>3 DEF vars, scanner, client
  <2> QED
    BY <2>1, <2>2, <2>3
<1>2. receipt' = receipt \/ receipt' = Receipt(answer.echo)
  BY DEF Decide, Admit, Refuse, Serve, Unsettled, TakeReceipt, Tick, vars
<1>3. ShapeInv' /\ ScannerInv'
  BY <1>1 DEF TypeInv, ShapeInv, ScannerInv, Answered
<1>4. ClientInv'
  BY <1>1, <1>2 DEF TypeInv, ClientInv, Unread, Answered, Stage
<1> QED
  BY <1>3, <1>4 DEF TypeInv

LEMMA NextType == Inv /\ TypeInv /\ [Next]_vars => TypeInv'
<1> SUFFICES ASSUME Inv, TypeInv, [Next]_vars PROVE TypeInv'
  OBVIOUS
<1>1. CASE Server402
  BY <1>1, ChargeKeepsType, ChargeByHandKeepsType DEF Server402
<1>2. CASE Respond
  BY <1>2, RespondKeepsType
<1>3. CASE SelectPayment \/ Read
  BY <1>3, ScanKeepsType, UnderstandKeepsType DEF Read
<1>4. CASE Answer \/ AnswerRespelled
  BY <1>4, AnswerKeepsType
<1>5. CASE Decide \/ TakeReceipt \/ Tick \/ UNCHANGED vars
  BY <1>5, DecideKeepsType
<1> QED
  BY <1>1, <1>2, <1>3, <1>4, <1>5 DEF Next

\* Every variable is of its type, and the scanner is always within its header,
\* or one past its end (parse_auth_params).
THEOREM TypeCorrectness == Spec => []TypeOK
<1>1. Inv /\ TypeInv => TypeOK
  <2> SUFFICES ASSUME Inv, TypeInv PROVE TypeOK
    OBVIOUS
  <2>1. /\ now \in 0 .. MaxTime
        /\ \A i \in issued : /\ i.by \in Server /\ i.due \in Int
                             /\ i.challenge \in [ChallengeFields -> Text]
    BY DEF Inv, IssuedInv, TypeInv, ShapeInv, Shaped
  <2>2. receipt # Nothing => receipt.challenge_id \in Given
    BY DEF Inv, AdmittedInv, ReceiptInv, Readable, EchoFields, Required, Given
  <2>3. answer # Nothing => answer.to \in Server /\ answer.echo \in [EchoFields -> Text]
    BY DEF TypeInv, ClientInv
  <2> QED
    BY <2>1, <2>2, <2>3 DEF TypeOK, TypeInv, ScannerInv, ClientInv
<1>2. Init => TypeInv
  BY InitType
<1> QED
  BY <1>1, <1>2, NextType, Invariance, PTL DEF Spec

-----------------------------------------------------------------------------
(***************************************************************************)
(* The scanner, on the header of a challenge.  It stands behind one of the *)
(* fields and has found what is in front of it; where it stops, it has     *)
(* found all of them.                                                      *)
(***************************************************************************)

\* What has been found of a challenge are its first m fields.
Found(c, m, p) ==
    /\ DOMAIN p = {Name[Fields[n]] : n \in {n \in 1 .. m : c[Fields[n]] # Absent}}
    /\ \A n \in 1 .. m : c[Fields[n]] # Absent => p[Name[Fields[n]]] = c[Fields[n]]

With(p, key, value) == [k \in DOMAIN p \cup {key} |-> IF k = key THEN value ELSE p[k]]

LEMMA NamesDiffer ==
    ASSUME NEW m \in 1 .. 9, NEW n \in 1 .. 9, Name[Fields[m]] = Name[Fields[n]]
    PROVE  m = n
<1>1. <<39 + m>> = <<39 + n>>
  BY NameOfField
<1>2. <<39 + m>>[1] = <<39 + n>>[1]
  BY <1>1
<1> QED
  BY <1>2

LEMMA FoundFurther ==
    ASSUME NEW c, NEW p, NEW m \in 0 .. 9, Found(c, m, p), NEW k \in m .. 9,
           \A n \in m + 1 .. k : c[Fields[n]] = Absent
    PROVE  Found(c, k, p)
<1>1. {n \in 1 .. m : c[Fields[n]] # Absent} = {n \in 1 .. k : c[Fields[n]] # Absent}
  OBVIOUS
<1> QED
  BY <1>1 DEF Found

LEMMA FoundMore ==
    ASSUME NEW c, NEW p, NEW k \in 0 .. 8, Found(c, k, p), c[Fields[k + 1]] # Absent
    PROVE  /\ Name[Fields[k + 1]] \notin DOMAIN p
           /\ Found(c, k + 1, With(p, Name[Fields[k + 1]], c[Fields[k + 1]]))
<1> DEFINE key == Name[Fields[k + 1]]
           value == c[Fields[k + 1]]
           q == With(p, key, value)
           N(m) == {n \in 1 .. m : c[Fields[n]] # Absent}
<1>1. N(k + 1) = N(k) \cup {k + 1} /\ \A n \in N(k) : n \in 1 .. 9 /\ n # k + 1
  OBVIOUS
<1>2. \A n \in 1 .. k : Name[Fields[n]] # key
  BY NamesDiffer
<1>3. /\ DOMAIN p = {Name[Fields[n]] : n \in N(k)}
      /\ \A n \in 1 .. k : c[Fields[n]] # Absent => p[Name[Fields[n]]] = c[Fields[n]]
  BY DEF Found
<1>4. key \notin DOMAIN p
  BY <1>1, <1>2, <1>3
<1>5. /\ DOMAIN q = DOMAIN p \cup {key} /\ q[key] = value
      /\ \A x \in DOMAIN p : q[x] = p[x]
  BY <1>4 DEF With
<1>6. DOMAIN q = {Name[Fields[n]] : n \in N(k + 1)}
  BY <1>1, <1>3, <1>5
<1>7. ASSUME NEW n \in 1 .. k + 1, c[Fields[n]] # Absent
      PROVE  q[Name[Fields[n]]] = c[Fields[n]]
  <2>1. CASE n = k + 1
    BY <1>5, <2>1
  <2>2. CASE n # k + 1
    <3>1. n \in N(k)
      BY <1>7, <2>2
    <3>2. Name[Fields[n]] \in DOMAIN p /\ p[Name[Fields[n]]] = c[Fields[n]]
      BY <1>3, <3>1
    <3> QED
      BY <1>5, <3>2
  <2> QED
    BY <2>1, <2>2
<1> HIDE DEF q
<1>8. Found(c, k + 1, q)
  BY <1>6, <1>7 DEF Found
<1> QED
  BY <1>4, <1>8 DEF q

\* Wherever the scanner stands in front of the fields, it takes the next one, or
\* there is none.
LEMMA NextIsTaken ==
    ASSUME NEW c, Carried(c), format_www_authenticate(c) # Err,
           NEW text \in Text, Begins(text, format_www_authenticate(c)),
           NEW m \in 0 .. 9, NEW p, Found(c, m, p), NEW place, place = Stop(c, m)
    PROVE  \/ \E k \in 1 .. 9 :
                /\ KeyStart(text, place) <= Len(text) /\ HasKey(text, place)
                /\ KeyEnd(text, place) < Len(text)
                /\ Key(text, place) \notin DOMAIN p
                /\ Param(text, place).next = Stop(c, k)
                /\ Found(c, k, With(p, Key(text, place), Param(text, place).value))
           \/ place = Stop(c, 9) /\ Found(c, 9, p)
<1>1. PICK k \in m .. 9 :
        /\ Stop(c, k) = Stop(c, m)
        /\ \A n \in m + 1 .. k : c[Fields[n]] = Absent
        /\ k = 9 \/ c[Fields[k + 1]] # Absent
  BY NextField
<1>2. Found(c, k, p)
  BY <1>1, FoundFurther
<1>3. CASE k = 9
  BY <1>1, <1>2, <1>3
<1>4. CASE k # 9
  <2>1. k \in 0 .. 8 /\ c[Fields[k + 1]] # Absent /\ k + 1 \in 1 .. 9
    BY <1>1, <1>4
  <2>2. /\ KeyStart(text, place) <= Len(text) /\ HasKey(text, place)
        /\ KeyEnd(text, place) < Len(text)
        /\ Key(text, place) = Name[Fields[k + 1]]
        /\ Param(text, place) = [value |-> c[Fields[k + 1]], next |-> Stop(c, k + 1)]
    BY <1>1, <2>1, FieldIsTaken
  <2>3. /\ Param(text, place).value = c[Fields[k + 1]]
        /\ Param(text, place).next = Stop(c, k + 1)
    BY <2>2
  <2>4. /\ Name[Fields[k + 1]] \notin DOMAIN p
        /\ Found(c, k + 1, With(p, Name[Fields[k + 1]], c[Fields[k + 1]]))
    BY <1>2, <2>1, FoundMore
  <2> QED
    BY <2>1, <2>2, <2>3, <2>4
<1> QED
  BY <1>3, <1>4

\* When all the fields have been found, they are what they were.
LEMMA FoundAll ==
    ASSUME NEW c, Shaped(c), NEW p, Found(c, 9, p)
    PROVE  /\ \A f \in ChallengeFields : Get(p, f) = c[f]
           /\ \A f \in Required : Name[f] \in DOMAIN p
<1>1. ASSUME NEW f \in ChallengeFields
      PROVE  Get(p, f) = c[f] /\ (c[f] # Absent => Name[f] \in DOMAIN p)
  <2>1. PICK n \in 1 .. 9 : f = Fields[n]
    BY FieldsAreAll
  <2>2. CASE c[f] # Absent
    <3>1. Name[f] \in DOMAIN p /\ p[Name[f]] = c[f]
      BY <2>1, <2>2 DEF Found
    <3> QED
      BY <3>1 DEF Get
  <2>3. CASE c[f] = Absent
    <3>1. ASSUME Name[f] \in DOMAIN p PROVE FALSE
      <4>1. PICK k \in 1 .. 9 : c[Fields[k]] # Absent /\ Name[f] = Name[Fields[k]]
        BY <3>1 DEF Found
      <4>2. k = n
        BY <2>1, <4>1, NamesDiffer
      <4> QED
        BY <2>1, <2>3, <4>1, <4>2
    <3> QED
      BY <2>3, <3>1 DEF Get
  <2> QED
    BY <2>2, <2>3
<1>2. \A f \in Required : f \in ChallengeFields /\ c[f] # Absent
  BY DEF Shaped, ChallengeFields, EchoFields
<1> QED
  BY <1>1, <1>2

-----------------------------------------------------------------------------
(***************************************************************************)
(* What the client reads.                                                  *)
(***************************************************************************)

\* The header of the challenge this exchange is about.
Own == format_www_authenticate(sent.challenge)

\* One that was made of it and of another one.
Combined(h) ==
    \E j \in issued : /\ format_www_authenticate(j.challenge) # Err
                      /\ h = Joint(Own, format_www_authenticate(j.challenge))

ForeignTexts == {f.text : f \in Foreign}

SentInv ==
    /\ stage = "unsent" => Own = Err
    /\ stage \notin {"open", "unsent"} =>
         /\ Own # Err
         /\ \A h \in response : h = Own \/ Combined(h) \/ h \in ForeignTexts
         /\ stage # "sent" => header = Own \/ Combined(header) \/ header \in ForeignTexts

\* A client takes the challenge.
Taken(c) == IsMethodName(c.method) /\ decode(c.request) # Absent

\* The scanner is in front of a field.
InFront ==
    \E m \in 0 .. 9 : at = Stop(sent.challenge, m) /\ Found(sent.challenge, m, params)

\* It is in front of the identity of a second challenge.
AtSecond == at = Len(Own) + 4 /\ Name.id \in DOMAIN params

ScanInv ==
    /\ stage = "scan" /\ header = Own => InFront
    /\ stage = "scan" /\ Combined(header) => InFront \/ AtSecond
    /\ stage = "rejected" /\ header = Own => ~Taken(sent.challenge)
    /\ stage \notin Unread /\ header = Own => challenge = sent.challenge /\ Taken(challenge)
    /\ stage \notin Unread => ~Combined(header)

LEMMA SentIsShaped ==
    ASSUME Inv, TypeInv, SentInv, stage \notin {"open", "unsent"}
    PROVE  /\ Shaped(sent.challenge) /\ Carried(sent.challenge)
           /\ Own # Err /\ Own \in Text
<1>1. sent \in issued
  BY DEF Inv, AnswerInv
<1>2. Shaped(sent.challenge)
  BY <1>1 DEF TypeInv, ShapeInv
<1> QED
  BY <1>2, ShapedIsSent DEF SentInv, Own

\* Both kinds of headers begin with the header of the challenge, and in the
\* second kind the scanner comes upon the second identity.
LEMMA CombinedIs ==
    ASSUME Inv, TypeInv, SentInv, stage \notin {"open", "unsent"}, NEW h, Combined(h)
    PROVE  LET place == Stop(sent.challenge, 9)
               second == Len(Own) + 4
           IN  /\ h \in Text /\ Begins(h, Own) /\ h # Own
               /\ KeyStart(h, place) <= Len(h) /\ ~HasKey(h, place)
               /\ Upto(h, KeyEnd(h, place), Whitespace \cup {Comma}) = second
               /\ KeyStart(h, second) <= Len(h) /\ HasKey(h, second)
               /\ KeyEnd(h, second) < Len(h)
               /\ Key(h, second) = Name.id
<1>1. Carried(sent.challenge) /\ Own # Err
  BY SentIsShaped
<1>2. PICK j \in issued : /\ format_www_authenticate(j.challenge) # Err
                          /\ h = Joint(Own, format_www_authenticate(j.challenge))
  BY DEF Combined
<1>3. Carried(j.challenge)
  BY ShapedIsSent DEF TypeInv, ShapeInv
<1> QED
  BY <1>1, <1>2, <1>3, SecondIsMet DEF Own

LEMMA OwnIs ==
    ASSUME Inv, TypeInv, SentInv, stage \notin {"open", "unsent"}
    PROVE  /\ Begins(Own, Own)
           /\ KeyStart(Own, Stop(sent.challenge, 9)) > Len(Own)
<1>1. Carried(sent.challenge) /\ Own # Err /\ Own \in Text
  BY SentIsShaped
<1>2. Len(Own) \in Nat
  BY <1>1, LenProperties DEF Text
<1>3. KeyStart(Own, Stop(sent.challenge, 9)) = Len(Own) + 1
  BY <1>1, HeaderEnds DEF Own
<1> QED
  BY <1>2, <1>3 DEF Begins

\* In front of the fields, the scanner takes the next one or is at the end.
LEMMA InFrontIs ==
    ASSUME Inv, TypeInv, SentInv, stage = "scan", header = Own \/ Combined(header), InFront
    PROVE  \/ /\ KeyStart(header, at) <= Len(header) /\ HasKey(header, at)
              /\ KeyEnd(header, at) < Len(header)
              /\ Key(header, at) \notin DOMAIN params
              /\ \E k \in 1 .. 9 :
                   /\ Param(header, at).next = Stop(sent.challenge, k)
                   /\ Found(sent.challenge, k,
                            With(params, Key(header, at), Param(header, at).value))
           \/ at = Stop(sent.challenge, 9) /\ Found(sent.challenge, 9, params)
<1>1. Carried(sent.challenge) /\ Own # Err /\ Begins(Own, Own) /\ Own \in Text
  BY SentIsShaped, OwnIs
<1>2. header \in Text /\ Begins(header, Own)
  BY <1>1, CombinedIs
<1>3. PICK m \in 0 .. 9 : at = Stop(sent.challenge, m) /\ Found(sent.challenge, m, params)
  BY DEF InFront
<1> DEFINE c == sent.challenge
<1>4. Carried(c) /\ format_www_authenticate(c) # Err /\ Begins(header, format_www_authenticate(c))
  BY <1>1, <1>2 DEF Own
<1>5. at = Stop(c, m) /\ Found(c, m, params)
  BY <1>3
<1> HIDE DEF c
<1>6. \/ \E k \in 1 .. 9 :
           /\ KeyStart(header, at) <= Len(header) /\ HasKey(header, at)
           /\ KeyEnd(header, at) < Len(header)
           /\ Key(header, at) \notin DOMAIN params
           /\ Param(header, at).next = Stop(c, k)
           /\ Found(c, k, With(params, Key(header, at), Param(header, at).value))
      \/ at = Stop(c, 9) /\ Found(c, 9, params)
  BY <1>2, <1>4, <1>5, NextIsTaken
<1> QED
  BY <1>6, Zenon DEF c

LEMMA RespondKeepsSent ==
    ASSUME TypeInv, Respond
    PROVE  SentInv' /\ ScanInv'
<1> DEFINE h(i) == format_www_authenticate(i.challenge)
<1>1. ASSUME NEW i \in issued, Send(i) PROVE SentInv' /\ ScanInv'
  <2>1. /\ h(i) # Err /\ response' = ForeignTexts \cup {h(i)} /\ sent' = i /\ stage' = "sent"
    BY <1>1 DEF Send, ForeignTexts
  <2>2. Own' = h(i)
    BY <2>1 DEF Own
  <2>3. SentInv'
    BY <2>1, <2>2 DEF SentInv
  <2> QED
    BY <2>1, <2>3 DEF ScanInv, Unread
<1>2. ASSUME NEW i \in issued, NEW j \in issued, SendCombined(i, j)
      PROVE  SentInv' /\ ScanInv'
  <2>1. /\ h(i) # Err /\ h(j) # Err /\ response' = {Joint(h(i), h(j))}
        /\ sent' = i /\ stage' = "sent" /\ issued' = issued
    BY <1>2 DEF SendCombined, Joint
  <2>2. Own' = h(i)
    BY <2>1 DEF Own
  <2>3. Combined(Joint(h(i), h(j)))'
    BY <2>1, <2>2 DEF Combined
  <2>4. SentInv'
    BY <2>1, <2>2, <2>3 DEF SentInv
  <2> QED
    BY <2>1, <2>4 DEF ScanInv, Unread
<1>3. ASSUME NEW i \in issued, Unsent(i) PROVE SentInv' /\ ScanInv'
  <2>1. h(i) = Err /\ sent' = i /\ stage' = "unsent"
    BY <1>3 DEF Unsent
  <2>2. Own' = Err
    BY <2>1 DEF Own
  <2> QED
    BY <2>1, <2>2 DEF SentInv, ScanInv, Unread
<1> QED
  BY <1>1, <1>2, <1>3 DEF Respond

\* Nothing that a client reads changes.
LEMMA StayKeepsSent ==
    ASSUME SentInv, ScanInv,
           UNCHANGED <<issued, sent, response, header, at, params, challenge>>,
           stage' = stage \/ (stage \notin Unread /\ stage' \notin Unread)
    PROVE  SentInv' /\ ScanInv'
<1>1. /\ Own' = Own /\ issued' = issued /\ response' = response /\ header' = header
      /\ sent' = sent /\ at' = at /\ params' = params /\ challenge' = challenge
  BY DEF Own
<1>2. \A h : Combined(h)' <=> Combined(h)
  BY <1>1 DEF Combined
<1>3. InFront' <=> InFront
  BY <1>1 DEF InFront
<1>4. AtSecond' <=> AtSecond
  BY <1>1 DEF AtSecond
<1>5. SentInv'
  <2>1. \/ stage' = stage
        \/ /\ stage \notin {"open", "unsent", "sent"}
           /\ stage' \notin {"open", "unsent", "sent"}
    BY DEF Unread
  <2> QED
    BY <1>1, <1>2, <2>1 DEF SentInv
<1>6. ScanInv'
  BY <1>1, <1>2, <1>3, <1>4 DEF ScanInv, Unread
<1> QED
  BY <1>5, <1>6

LEMMA IssueKeepsSent ==
    ASSUME Server402
    PROVE  SentInv' /\ ScanInv'
<1>1. stage' = "open"
  BY DEF Server402, Charge, ChargeByHand, MayIssue, Issue
<1> QED
  BY <1>1 DEF SentInv, ScanInv, Unread

\* parse_www_authenticate_all keeps some of the headers.
LEMMA SelectKeepsSent ==
    ASSUME SentInv, SelectPayment
    PROVE  SentInv' /\ ScanInv'
<1>1. /\ stage = "sent" /\ stage' = "sent" /\ response' \subseteq response
      /\ sent' = sent /\ issued' = issued
  BY DEF SelectPayment
<1>2. Own' = Own /\ \A h : Combined(h)' <=> Combined(h)
  BY <1>1 DEF Own, Combined
<1> QED
  BY <1>1, <1>2 DEF SentInv, ScanInv, Unread

\* A header of a challenge has the scheme, and the scanner starts in front of
\* the first field (strip_payment_scheme).
LEMMA ReceiveKeepsSent ==
    ASSUME Inv, TypeInv, SentInv, NEW h \in response, Receive(h)
    PROVE  SentInv' /\ ScanInv'
<1>1. /\ stage = "sent" /\ header' = h /\ stage' \in {"scan", "rejected"}
      /\ UNCHANGED <<issued, sent, response, params>>
      /\ HasScheme(h) => at' = Params(h) /\ stage' = "scan"
  BY DEF Receive
<1>2. Own' = Own /\ \A x : Combined(x)' <=> Combined(x)
  BY <1>1 DEF Own, Combined
<1>3. SentInv'
  BY <1>1, <1>2 DEF SentInv
<1>4. ASSUME h = Own \/ Combined(h) PROVE InFront' /\ stage' = "scan"
  <2> DEFINE c == sent.challenge
  <2>1. Carried(c) /\ Own # Err /\ Own \in Text /\ Begins(Own, Own)
    BY <1>1, SentIsShaped, OwnIs
  <2>2. h \in Text /\ Begins(h, Own)
    BY <1>1, <1>4, <2>1, CombinedIs
  <2>3. HasScheme(h) /\ Params(h) = Stop(c, 0)
    <3>1. format_www_authenticate(c) # Err /\ Begins(h, format_www_authenticate(c))
      BY <2>1, <2>2 DEF Own
    <3> HIDE DEF c
    <3> QED
      BY <2>1, <2>2, <3>1, SchemeIsPassed
  <2>4. at' = Stop(c, 0) /\ stage' = "scan"
    BY <1>1, <2>3
  <2>5. Found(c, 0, params')
    <3>1. DOMAIN params' = {}
      BY <1>1 DEF TypeInv, ScannerInv
    <3> QED
      BY <3>1 DEF Found
  <2>6. sent' = sent
    BY <1>1
  <2> QED
    BY <2>4, <2>5, <2>6 DEF InFront
<1>5. ScanInv'
  BY <1>1, <1>2, <1>4 DEF ScanInv, Unread
<1> QED
  BY <1>3, <1>5

\* What the scanner does is decided by where it is; here it is in a header that
\* was sent for the challenge, or in one that was made of two.
LEMMA ScannerIs ==
    ASSUME Inv, TypeInv, SentInv, ScanInv, stage = "scan", header = Own \/ Combined(header)
    PROVE  \/ /\ KeyStart(header, at) <= Len(header) /\ HasKey(header, at)
              /\ KeyEnd(header, at) < Len(header)
              /\ Key(header, at) \notin DOMAIN params
              /\ \E k \in 1 .. 9 :
                   /\ Param(header, at).next = Stop(sent.challenge, k)
                   /\ Found(sent.challenge, k,
                            With(params, Key(header, at), Param(header, at).value))
           \/ /\ header = Own /\ ~Combined(header)
              /\ ~(KeyStart(header, at) <= Len(header))
              /\ Found(sent.challenge, 9, params)
           \/ /\ header # Own /\ Combined(header)
              /\ KeyStart(header, at) <= Len(header) /\ ~HasKey(header, at)
              /\ Upto(header, KeyEnd(header, at), Whitespace \cup {Comma}) = Len(Own) + 4
              /\ Found(sent.challenge, 9, params)
           \/ /\ header # Own /\ Combined(header)
              /\ KeyStart(header, at) <= Len(header) /\ HasKey(header, at)
              /\ KeyEnd(header, at) < Len(header)
              /\ Key(header, at) \in DOMAIN params
<1>1. stage \notin {"open", "unsent"}
  OBVIOUS
<1>2. CASE InFront
  <2>1. \/ /\ KeyStart(header, at) <= Len(header) /\ HasKey(header, at)
           /\ KeyEnd(header, at) < Len(header)
           /\ Key(header, at) \notin DOMAIN params
           /\ \E k \in 1 .. 9 :
                /\ Param(header, at).next = Stop(sent.challenge, k)
                /\ Found(sent.challenge, k,
                         With(params, Key(header, at), Param(header, at).value))
        \/ at = Stop(sent.challenge, 9) /\ Found(sent.challenge, 9, params)
    BY <1>2, InFrontIs
  <2>2. ASSUME at = Stop(sent.challenge, 9), Combined(header)
        PROVE  /\ header # Own
               /\ KeyStart(header, at) <= Len(header) /\ ~HasKey(header, at)
               /\ Upto(header, KeyEnd(header, at), Whitespace \cup {Comma}) = Len(Own) + 4
    BY <1>1, <2>2, CombinedIs
  <2>3. ASSUME at = Stop(sent.challenge, 9), ~Combined(header)
        PROVE  header = Own /\ ~(KeyStart(header, at) <= Len(header))
    <3>1. header = Own
      BY <2>3
    <3>2. KeyStart(header, at) > Len(header)
      BY <1>1, <2>3, <3>1, OwnIs
    <3>3. KeyStart(header, at) \in Int /\ Len(header) \in Int
      <4>1. header \in Text /\ at \in 1 .. Len(header) + 1 /\ Len(header) \in Nat
        BY LenProperties DEF TypeInv, ScannerInv, Text
      <4> QED
        BY <4>1, KeyPlaces
    <3> QED
      BY <3>1, <3>2, <3>3
  <2> QED
    BY <2>1, <2>2, <2>3, Zenon
<1>3. CASE AtSecond
  <2>1. Combined(header) \/ InFront
    <3>1. CASE Combined(header)
      BY <1>1, <3>1, CombinedIs
    <3>2. CASE header = Own
      BY <3>2 DEF ScanInv
    <3> QED
      BY <3>1, <3>2
  <2>2. CASE Combined(header)
    <3>1. /\ header # Own /\ at = Len(Own) + 4 /\ Name.id \in DOMAIN params
      BY <1>1, <1>3, <2>2, CombinedIs DEF AtSecond
    <3>2. /\ KeyStart(header, at) <= Len(header) /\ HasKey(header, at)
          /\ KeyEnd(header, at) < Len(header)
          /\ Key(header, at) = Name.id
      BY <1>1, <2>2, <3>1, CombinedIs
    <3> QED
      BY <2>2, <3>1, <3>2
  <2> QED
    BY <1>2, <2>1, <2>2
<1> QED
  BY <1>2, <1>3 DEF ScanInv

LEMMA ScanKeepsSent ==
    ASSUME Inv, TypeInv, SentInv, ScanInv, SkipWord \/ TakeParam
    PROVE  SentInv' /\ ScanInv'
<1> DEFINE c == sent.challenge
           key == Key(header, at)
           param == Param(header, at)
<1>1. /\ stage = "scan" /\ stage' \in {"scan", "rejected"}
      /\ KeyStart(header, at) <= Len(header)
      /\ UNCHANGED <<issued, sent, response, header>>
  BY DEF SkipWord, TakeParam, AtKey
<1>2. \/ /\ ~HasKey(header, at) /\ params' = params /\ stage' = "scan"
         /\ at' = Upto(header, KeyEnd(header, at), Whitespace \cup {Comma})
      \/ /\ HasKey(header, at)
         /\ \/ key \in DOMAIN params /\ stage' = "rejected"
            \/ /\ key \notin DOMAIN params /\ stage' = "scan"
               /\ params' = With(params, key, param.value) /\ at' = param.next
  <2>1. CASE SkipWord
    BY <1>1, <2>1 DEF SkipWord, AtKey
  <2>2. CASE TakeParam
    BY <1>1, <2>2 DEF TakeParam, With
  <2> QED
    BY <2>1, <2>2
<1>3. Own' = Own /\ \A x : Combined(x)' <=> Combined(x)
  BY <1>1 DEF Own, Combined
<1>4. SentInv'
  BY <1>1, <1>3 DEF SentInv
<1>5. Shaped(c)
  BY <1>1, SentIsShaped
<1>6. ASSUME header = Own \/ Combined(header)
      PROVE  \/ stage' = "scan" /\ InFront'
             \/ stage' = "scan" /\ header # Own /\ AtSecond'
             \/ stage' = "rejected" /\ header # Own
  <2> HIDE DEF key, param
  <2>1. \/ /\ HasKey(header, at) /\ key \notin DOMAIN params
           /\ \E k \in 1 .. 9 : /\ param.next = Stop(c, k)
                                /\ Found(c, k, With(params, key, param.value))
        \/ /\ header # Own /\ ~HasKey(header, at) /\ Found(c, 9, params)
           /\ Upto(header, KeyEnd(header, at), Whitespace \cup {Comma}) = Len(Own) + 4
        \/ header # Own /\ HasKey(header, at) /\ key \in DOMAIN params
    BY <1>1, <1>6, ScannerIs DEF key, param
  <2>2. CASE \E k \in 1 .. 9 : /\ HasKey(header, at) /\ key \notin DOMAIN params
                               /\ param.next = Stop(c, k)
                               /\ Found(c, k, With(params, key, param.value))
    <3>1. PICK k \in 1 .. 9 : /\ HasKey(header, at) /\ key \notin DOMAIN params
                              /\ param.next = Stop(c, k)
                              /\ Found(c, k, With(params, key, param.value))
      BY <2>2
    <3>2. /\ stage' = "scan" /\ params' = With(params, key, param.value)
          /\ at' = param.next /\ sent' = sent
      BY <1>1, <1>2, <3>1
    <3>3. k \in 0 .. 9 /\ at' = Stop(sent'.challenge, k) /\ Found(sent'.challenge, k, params')
      BY <3>1, <3>2
    <3> QED
      BY <3>2, <3>3 DEF InFront
  <2>3. CASE /\ header # Own /\ ~HasKey(header, at) /\ Found(c, 9, params)
             /\ Upto(header, KeyEnd(header, at), Whitespace \cup {Comma}) = Len(Own) + 4
    <3>1. Name.id \in DOMAIN params
      BY <1>5, <2>3, FoundAll DEF Required
    <3>2. stage' = "scan" /\ at' = Len(Own) + 4 /\ params' = params
      BY <1>2, <2>3
    <3> QED
      BY <1>3, <2>3, <3>1, <3>2 DEF AtSecond
  <2>4. CASE header # Own /\ HasKey(header, at) /\ key \in DOMAIN params
    BY <1>2, <2>4
  <2> QED
    BY <2>1, <2>2, <2>3, <2>4
<1>7. ScanInv'
  <2>1. ASSUME header' = Own' PROVE stage' = "scan" /\ InFront'
    BY <1>1, <1>3, <1>6, <2>1
  <2>2. ASSUME stage' = "scan", Combined(header)' PROVE InFront' \/ AtSecond'
    BY <1>1, <1>3, <1>6, <2>2
  <2>3. stage' \in Unread
    BY <1>1 DEF Unread
  <2> QED
    BY <2>1, <2>2, <2>3 DEF ScanInv
<1> QED
  BY <1>4, <1>7

\* When the scanner is at the end, it has found what was sent.
LEMMA UnderstandKeepsSent ==
    ASSUME Inv, TypeInv, SentInv, ScanInv, Understand \/ Reject
    PROVE  SentInv' /\ ScanInv'
<1> DEFINE c == sent.challenge
<1>1. /\ stage = "scan" /\ Scanned /\ UNCHANGED <<issued, sent, response, header>>
      /\ \/ stage' = "rejected" /\ ~IsChallenge
         \/ /\ stage' = "read" /\ IsChallenge
            /\ challenge' = [f \in ChallengeFields |->
                               IF f = "intent" THEN IntentName(Get(params, f))
                               ELSE Get(params, f)]
  BY DEF Understand, Reject, Scanned, scanner
<1>2. Own' = Own /\ sent' = sent /\ \A x : Combined(x)' <=> Combined(x)
  BY <1>1 DEF Own, Combined
<1>3. SentInv'
  BY <1>1, <1>2 DEF SentInv
<1>4. Shaped(c)
  BY <1>1, SentIsShaped
<1>5. ASSUME header = Own \/ Combined(header)
      PROVE  header = Own /\ ~Combined(header) /\ Found(c, 9, params)
  <2>1. /\ KeyStart(header, at) \in Int /\ KeyEnd(header, at) \in Int /\ Len(header) \in Int
    <3>1. header \in Text /\ at \in 1 .. Len(header) + 1 /\ Len(header) \in Nat
      BY LenProperties DEF TypeInv, ScannerInv, Text
    <3> QED
      BY <3>1, KeyPlaces
  <2>2. ~(/\ KeyStart(header, at) <= Len(header)
          /\ HasKey(header, at) => KeyEnd(header, at) < Len(header))
    <3>1. \/ KeyStart(header, at) > Len(header)
          \/ HasKey(header, at) /\ KeyEnd(header, at) = Len(header)
      BY <1>1 DEF Scanned
    <3> QED
      BY <2>1, <3>1
  <2> QED
    BY <1>1, <1>5, <2>2, ScannerIs, Zenon
<1>6. ASSUME header = Own
      PROVE  /\ IsChallenge <=> Taken(c)
             /\ IsChallenge => challenge' = c
  <2>1. /\ \A f \in ChallengeFields : Get(params, f) = c[f]
        /\ \A f \in Required : Name[f] \in DOMAIN params
    BY <1>4, <1>5, <1>6, FoundAll
  <2>2. /\ c.id # <<>> /\ IntentName(c.intent) = c.intent
        /\ c = [f \in ChallengeFields |-> c[f]]
    BY <1>4 DEF Shaped
  <2>3. /\ Get(params, "id") = c.id /\ Get(params, "method") = c.method
        /\ Get(params, "request") = c.request /\ Get(params, "intent") = c.intent
    BY <2>1 DEF ChallengeFields, EchoFields, Required
  <2> HIDE DEF c
  <2>4. IsChallenge <=> Taken(c)
    BY <2>1, <2>2, <2>3 DEF IsChallenge, Taken
  <2>5. \A f \in ChallengeFields :
          (IF f = "intent" THEN IntentName(Get(params, f)) ELSE Get(params, f)) = c[f]
    BY <2>1, <2>2, <2>3
  <2>6. [f \in ChallengeFields |->
           IF f = "intent" THEN IntentName(Get(params, f)) ELSE Get(params, f)]
          = [f \in ChallengeFields |-> c[f]]
    BY <2>5
  <2>7. IsChallenge => challenge' = c
    BY <1>1, <2>2, <2>6
  <2> QED
    BY <2>4, <2>7
<1>7. ScanInv'
  <2>1. ~Combined(header)' /\ stage' # "scan"
    BY <1>1, <1>2, <1>5
  <2>2. ASSUME header' = Own'
        PROVE  /\ stage' = "rejected" => ~Taken(c)
               /\ stage' \notin Unread => challenge' = c /\ Taken(c)
    BY <1>1, <1>2, <1>6, <2>2 DEF Unread
  <2> QED
    BY <1>2, <2>1, <2>2 DEF ScanInv
<1> QED
  BY <1>3, <1>7

LEMMA InitSent == Init => SentInv /\ ScanInv
BY DEF Init, SentInv, ScanInv, Unread

LEMMA NextSent == Inv /\ TypeInv /\ SentInv /\ ScanInv /\ [Next]_vars => SentInv' /\ ScanInv'
<1> SUFFICES ASSUME Inv, TypeInv, SentInv, ScanInv, [Next]_vars PROVE SentInv' /\ ScanInv'
  OBVIOUS
<1>1. CASE Server402
  BY <1>1, IssueKeepsSent
<1>2. CASE Respond
  BY <1>2, RespondKeepsSent
<1>3. CASE SelectPayment
  BY <1>3, SelectKeepsSent
<1>4. CASE Read
  BY <1>4, ReceiveKeepsSent, ScanKeepsSent, UnderstandKeepsSent DEF Read
<1>5. CASE Answer \/ AnswerRespelled \/ Decide \/ TakeReceipt \/ Tick \/ UNCHANGED vars
  <2>1. CASE Answer
    BY <2>1, StayKeepsSent DEF Answer, scanner, Unread
  <2>2. CASE AnswerRespelled
    BY <2>2, StayKeepsSent DEF AnswerRespelled, scanner, Unread
  <2>3. CASE Decide \/ TakeReceipt
    BY <2>3, StayKeepsSent DEF Decide, Admit, Refuse, Serve, Unsettled, TakeReceipt, scanner, client, Unread
  <2>4. CASE Tick \/ UNCHANGED vars
    BY <2>4, StayKeepsSent DEF Tick, vars, scanner, client
  <2> QED
    BY <1>5, <2>1, <2>2, <2>3, <2>4
<1> QED
  BY <1>1, <1>2, <1>3, <1>4, <1>5 DEF Next

-----------------------------------------------------------------------------
(***************************************************************************)
(* The price.  A request is read as it was written, the amount in it is    *)
(* exact, and it is what the client signs.                                 *)
(***************************************************************************)

LEMMA EncodedIsDecoded ==
    ASSUME NEW x \in Seq(Nat)
    PROVE  base64url_decode(base64url_encode(x)) = x
<1> DEFINE e == base64url_encode(x)
<1>1. Len(x) \in Nat /\ x \in [1 .. Len(x) -> Nat] /\ DOMAIN x = 1 .. Len(x)
  BY LenProperties
<1>2. e = [i \in 1 .. Len(x) |-> x[i] + 100]
  BY <1>1 DEF base64url_encode, Alphabet
<1> HIDE DEF e
<1>3. DOMAIN e = 1 .. Len(x) /\ \A i \in 1 .. Len(x) : e[i] = x[i] + 100 /\ e[i] >= 100
  BY <1>1, <1>2
<1>4. Without(e, Equals) = e
  BY <1>3 DEF Without, Equals
<1>5. base64url_decode(e) = [i \in DOMAIN e |-> e[i] - 100]
  BY <1>3, <1>4 DEF base64url_decode, Alphabet
<1>6. [i \in DOMAIN e |-> e[i] - 100] = [i \in 1 .. Len(x) |-> x[i]]
  BY <1>1, <1>3
<1> QED
  BY <1>1, <1>5, <1>6 DEF e

\* from_typed and decode.
LEMMA RequestIsRead ==
    ASSUME NEW amount \in Seq(Nat), \A i \in 1 .. Len(amount) : amount[i] # Brace,
           NEW description \in Seq(Nat) \cup {Absent}
    PROVE  decode(from_typed([amount |-> amount, description |-> description])) = amount
<1> DEFINE r == [amount |-> amount, description |-> description]
           tail == OrEmpty(description)
           front == amount \o <<Brace>>
           json == front \o tail
           raw == from_typed(r)
           I == {i \in 1 .. Len(json) : json[i] = Brace}
           first == SelectInSeq(json, LAMBDA c : c = Brace)
<1>1. tail \in Seq(Nat) /\ <<Brace>> \in Seq(Nat) /\ Len(<<Brace>>) = 1 /\ <<Brace>>[1] = Brace
  BY EmptySeq DEF OrEmpty, Brace
<1>2. Len(amount) \in Nat /\ Len(tail) \in Nat
  BY <1>1, LenProperties
<1> HIDE DEF tail
<1>3. /\ front \in Seq(Nat) /\ Len(front) = Len(amount) + 1
      /\ front[Len(amount) + 1] = Brace
      /\ \A i \in 1 .. Len(amount) : front[i] = amount[i]
  BY <1>1, <1>2, ConcatProperties
<1> HIDE DEF front, raw, first, I
<1>4. /\ json \in Seq(Nat) /\ Len(json) = Len(front) + Len(tail)
      /\ \A i \in 1 .. Len(front) + Len(tail) :
           json[i] = IF i <= Len(front) THEN front[i] ELSE tail[i - Len(front)]
  <2>1. front \in Seq(Nat) /\ tail \in Seq(Nat)
    BY <1>1, <1>3
  <2> HIDE DEF r
  <2> QED
    BY <2>1, ConcatProperties
<1>5. /\ Len(json) >= Len(amount) + 1 /\ json[Len(amount) + 1] = Brace
      /\ \A i \in 1 .. Len(amount) : json[i] = amount[i]
  BY <1>2, <1>3, <1>4
<1>6. raw = base64url_encode(json)
  BY DEF from_typed, Json, front, tail, raw
<1> HIDE DEF json
<1>7. base64url_decode(raw) = json
  BY <1>4, <1>6, EncodedIsDecoded
<1>8. json # Err
  <2>1. json[1] \in Nat
    BY <1>2, <1>4, <1>5, ElementOfSeq
  <2> QED
    BY <2>1 DEF Err
<1>9. first = IF I # {} THEN Min(I) ELSE 0
  BY DEF SelectInSeq, first, I
<1>10. decode(raw) = IF json = Err \/ first = 0 THEN Absent ELSE SubSeq(json, 1, first - 1)
  BY <1>7 DEF decode, first
<1>11. Len(amount) + 1 \in I /\ \A i \in I : Len(amount) + 1 <= i
  <2>1. Len(json) \in Nat
    BY <1>4, LenProperties
  <2>2. Len(amount) + 1 \in I
    BY <1>2, <1>5, <2>1 DEF I
  <2>3. ASSUME NEW i \in I, i < Len(amount) + 1 PROVE FALSE
    <3>1. i \in 1 .. Len(amount)
      BY <1>2, <2>1, <2>3 DEF I
    <3>2. json[i] = Brace
      BY DEF I
    <3> QED
      BY <1>5, <3>1, <3>2
  <2>4. I \subseteq Int
    BY <2>1 DEF I
  <2> QED
    BY <1>2, <2>2, <2>3, <2>4
<1>12. first = Len(amount) + 1
  <2>1. \A i \in I : i \in Int
    BY <1>4, LenProperties DEF I
  <2>2. Min(I) = Len(amount) + 1
    BY <1>2, <1>11, <2>1 DEF Min
  <2> QED
    BY <1>9, <1>11, <2>2
<1>13. SubSeq(json, 1, Len(amount)) = amount
  <2>1. \A i \in 1 .. Len(amount) : json[i] \in Nat
    BY <1>2, <1>5, ElementOfSeq
  <2>2. /\ SubSeq(json, 1, Len(amount)) \in Seq(Nat)
        /\ Len(SubSeq(json, 1, Len(amount))) = Len(amount)
        /\ \A i \in 1 .. Len(amount) : SubSeq(json, 1, Len(amount))[i] = json[i]
    BY <1>2, <2>1, SubSeqProperties
  <2>3. \A i \in 1 .. Len(amount) : SubSeq(json, 1, Len(amount))[i] = amount[i]
    BY <1>5, <2>2
  <2> QED
    BY <2>2, <2>3, SeqEqual, Zenon
<1> QED
  BY <1>2, <1>8, <1>10, <1>12, <1>13, SMTT(30) DEF raw

\* The constructors do not touch the request.
LEMMA RequestIsKept ==
    ASSUME NEW k, NEW c, DOMAIN c = ChallengeFields
    PROVE  with_secret_key_full(k, c).request = c.request
BY DEF with_secret_key_full, ChallengeFields, EchoFields, Required

\* The challenge for a price asks for what the price comes to.
LEMMA PricedIsDue ==
    ASSUME NEW s \in Server, NEW o \in Offer[s],
           BaseUnits(o.price, decimals[s]) \in 0 .. U128 - 1
    PROVE  Number(decode(Priced(s, o).request), U64)
             = IF BaseUnits(o.price, decimals[s]) < U64
               THEN BaseUnits(o.price, decimals[s]) ELSE NotANumber
<1> DEFINE amount == parse_units(o.price, decimals[s])
           r == from_typed([amount |-> amount, description |-> o.description])
           c == [id |-> <<>>, realm |-> realm[s], method |-> <<50>>,
                 intent |-> <<51>>, request |-> r,
                 expires |-> IF o.expires = Absent
                             THEN offset(default_expires) ELSE o.expires,
                 description |-> o.description, digest |-> Absent,
                 opaque |-> Absent]
<1>1. /\ o.price \in Seq(Nat) /\ o.description \in Seq(Nat) \cup {Absent}
      /\ decimals[s] \in Nat /\ U64 \in Nat
  BY ExchangeAssumption, AmountsAssumption
<1>2. /\ amount \in Seq(Nat)
      /\ \A i \in 1 .. Len(amount) : amount[i] \in Digit \cup {Plus}
      /\ Number(amount, U64) = IF BaseUnits(o.price, decimals[s]) < U64
                               THEN BaseUnits(o.price, decimals[s]) ELSE NotANumber
  BY <1>1, PricesAreExact
<1>3. Brace \notin Digit \cup {Plus}
  BY RadixType DEF Digit, Plus, Brace
<1>4. DOMAIN c = ChallengeFields /\ c.request = r
  BY DEF ChallengeFields, EchoFields, Required
<1>5. Priced(s, o) = with_secret_key_full(secret_key[s], c)
  BY DEF Priced
<1> HIDE DEF c, amount
<1>6. Priced(s, o).request = r
  BY <1>4, <1>5, RequestIsKept
<1>7. decode(r) = amount
  BY <1>1, <1>2, <1>3, RequestIsRead
<1> QED
  BY <1>2, <1>6, <1>7

\* What is asked for is what is due, and what is paid is what was asked for.
PriceInv ==
    /\ \A i \in issued :
         i.due \in 0 .. U128 - 1 =>
           Number(decode(i.challenge.request), U64)
             = IF i.due < U64 THEN i.due ELSE NotANumber
    /\ paid # NotANumber =>
         /\ stage \in Answered
         /\ paid = Number(decode(challenge.request), U64)
         /\ WithinMaximum(decode(challenge.request), MaxAmount)

\* One more is issued.
LEMMA IssueKeepsPrice ==
    ASSUME PriceInv, NEW s, NEW c, NEW due, MayIssue, Issue(s, c, due),
           due \in 0 .. U128 - 1 =>
             Number(decode(c.request), U64) = IF due < U64 THEN due ELSE NotANumber
    PROVE  PriceInv'
<1> DEFINE i == [by |-> s, challenge |-> c, due |-> due]
<1>1. issued' = issued \cup {i} /\ UNCHANGED <<challenge, paid, stage>> /\ stage = "open"
  BY DEF MayIssue, Issue, client
<1>2. i.due = due /\ i.challenge = c
  OBVIOUS
<1> HIDE DEF i
<1> QED
  BY <1>1, <1>2 DEF PriceInv, Answered

LEMMA InitPrice == Init => PriceInv
BY DEF Init, PriceInv

LEMMA NextPrice == PriceInv /\ [Next]_vars => PriceInv'
<1> SUFFICES ASSUME PriceInv, [Next]_vars PROVE PriceInv'
  OBVIOUS
<1> USE DEF scanner, client
<1>1. ASSUME UNCHANGED <<issued, paid, challenge>>,
             stage \in Answered => stage' \in Answered
      PROVE  PriceInv'
  BY <1>1 DEF PriceInv, Answered
<1>2. ASSUME UNCHANGED <<issued, paid>>, stage \notin Answered
      PROVE  PriceInv'
  BY <1>2 DEF PriceInv, Answered
<1>3. CASE Server402
  <2>1. ASSUME NEW s \in Server, NEW o \in Offer[s], Charge(s, o) PROVE PriceInv'
    BY <2>1, PricedIsDue, IssueKeepsPrice DEF Charge
  <2>2. ASSUME NEW s \in Server, NEW d \in Draft[s], ChargeByHand(s, d) PROVE PriceInv'
    <3> DEFINE k == secret_key[s]
               named == [d EXCEPT !.realm = realm[s]]
               bare == [named EXCEPT !.expires = Absent, !.description = Absent,
                                     !.digest = Absent, !.opaque = Absent]
               due == IF decode(d.request) = Absent THEN NotANumber
                      ELSE Number(decode(d.request), U64)
    <3>1. DOMAIN d = ChallengeFields
      BY ExchangeAssumption
    <3>2. /\ DOMAIN named = ChallengeFields /\ named.request = d.request
          /\ DOMAIN bare = ChallengeFields /\ bare.request = d.request
      BY <3>1 DEF ChallengeFields, EchoFields, Required
    <3>3. with_secret_key(k, named) = with_secret_key_full(k, bare)
      BY DEF with_secret_key
    <3>4. PICK c \in {with_secret_key(k, named), with_secret_key_full(k, named)} :
            MayIssue /\ Issue(s, c, due)
      BY <2>2 DEF ChargeByHand
    <3> HIDE DEF k, named, bare
    <3>5. c.request = d.request
      BY <3>2, <3>3, <3>4, RequestIsKept
    <3>6. due \in 0 .. U128 - 1 =>
            Number(decode(c.request), U64) = IF due < U64 THEN due ELSE NotANumber
      <4>1. d.request \in Text /\ U64 \in Nat
        BY ExchangeAssumption, AmountsAssumption DEF ChallengeFields, EchoFields, Required
      <4>2. decode(d.request) \in Text
        BY <4>1, DecodedIsText
      <4>3. \/ Number(decode(d.request), U64) \in Nat /\ Number(decode(d.request), U64) < U64
            \/ Number(decode(d.request), U64) = NotANumber
        BY <4>1, <4>2, NumberIsBelow
      <4> QED
        BY <3>5, <4>3 DEF NotANumber
    <3> HIDE DEF due
    <3> QED
      BY <3>4, <3>6, IssueKeepsPrice
  <2> QED
    BY <1>3, <2>1, <2>2 DEF Server402
<1>4. CASE Respond \/ SelectPayment \/ Read
  <2>1. /\ stage \notin Answered
        /\ UNCHANGED <<issued, paid>>
    BY <1>4 DEF Respond, Send, Unsent, SendCombined, SelectPayment, Read, Receive,
                SkipWord, TakeParam, AtKey, Understand, Reject, Scanned, Answered
  <2> QED
    BY <1>2, <2>1
<1>5. CASE Answer
  <2>1. UNCHANGED <<issued, challenge>> /\ stage = "read"
    BY <1>5 DEF Answer
  <2>2. \/ /\ WithinMaximum(decode(challenge.request), MaxAmount)
           /\ paid' = Number(decode(challenge.request), U64) /\ stage' = "answered"
        \/ paid' = paid
    BY <1>5 DEF Answer
  <2> QED
    BY <2>1, <2>2 DEF PriceInv, Answered
<1>6. CASE AnswerRespelled
  BY <1>2, <1>6 DEF AnswerRespelled, Answered
<1>7. CASE Decide \/ TakeReceipt \/ Tick \/ UNCHANGED vars
  <2>1. /\ UNCHANGED <<issued, paid, challenge>>
        /\ stage' = stage \/ stage' \in Answered
    BY <1>7 DEF Decide, Admit, Refuse, Serve, Unsettled, TakeReceipt, Tick, vars, Answered
  <2> QED
    BY <1>1, <2>1
<1> QED
  BY <1>3, <1>4, <1>5, <1>6, <1>7 DEF Next

\* A client that was given the challenge of a price signs exactly what the
\* price comes to, for every radix, width and number of decimals (parse_units,
\* parse_amount, validate_max_amount).
THEOREM PriceIsExact == Spec => []PriceIsPaid
<1>1. Inv /\ PriceInv => PriceIsPaid
  <2> SUFFICES ASSUME Inv, PriceInv, paid # NotANumber, challenge = sent.challenge,
                      sent.due \in 0 .. U128 - 1
               PROVE  paid = sent.due /\ paid <= Number(MaxAmount, U64)
    BY DEF PriceIsPaid
  <2>1. sent \in issued
    BY DEF Inv, AnswerInv, PriceInv, Answered
  <2>2. paid = Number(decode(challenge.request), U64) /\ paid \in {sent.due, NotANumber}
    BY <2>1 DEF PriceInv
  <2> QED
    BY <2>2 DEF PriceInv, WithinMaximum
<1> QED
  BY <1>1, InitPrice, NextPrice, Invariance, PTL DEF Spec

-----------------------------------------------------------------------------
(***************************************************************************)
(* Where the identity of an answer is from, and how an exchange ends.      *)
(***************************************************************************)

\* Somewhere in a text there is an identity of this value.
Bears(text, id) ==
    \E n \in 1 .. Len(text) : /\ KeyEnd(text, n) < Len(text)
                              /\ Key(text, n) = Name.id
                              /\ Param(text, n).value = id

IdInv ==
    /\ Name.id \in DOMAIN params => Bears(header, params[Name.id])
    /\ stage \notin Unread => Bears(header, challenge.id)
    /\ stage \in Answered => answer.echo.id = challenge.id

EndInv ==
    /\ stage = "unbuilt" =>
         ~(/\ WithinMaximum(decode(challenge.request), MaxAmount)
           /\ Number(decode(challenge.request), U64) # 0)
    /\ stage = "refused" => ~Accepts(answer.to, answer.echo)
    /\ stage \in {"served", "done"} => receipt # Nothing

LEMMA InitId == Init => IdInv /\ EndInv
BY DEF Init, IdInv, EndInv, Unread, Answered

\* The header and what is known of it stay.
LEMMA StayKeepsId ==
    ASSUME IdInv, UNCHANGED <<header, params, challenge, answer>>,
           stage' \notin Unread => stage \notin Unread,
           stage' \in Answered => stage \in Answered
    PROVE  IdInv'
BY DEF IdInv

LEMMA ReceiveKeepsId ==
    ASSUME TypeInv, NEW h, Receive(h)
    PROVE  IdInv'
<1>1. DOMAIN params' = {} /\ stage' \in {"scan", "rejected"}
  BY DEF Receive, TypeInv, ScannerInv
<1> QED
  BY <1>1 DEF IdInv, Unread, Answered

\* What is found under the name of the identity is there.
LEMMA TakeKeepsId ==
    ASSUME TypeInv, IdInv, TakeParam
    PROVE  IdInv'
<1> DEFINE key == Key(header, at)
           param == Param(header, at)
<1>1. /\ stage = "scan" /\ stage' \in {"scan", "rejected"} /\ header' = header
      /\ KeyStart(header, at) <= Len(header) /\ KeyEnd(header, at) < Len(header)
      /\ \/ params' = params
         \/ params' = [k \in DOMAIN params \cup {key} |->
                         IF k = key THEN param.value ELSE params[k]]
  BY DEF TakeParam, AtKey
<1>2. at \in 1 .. Len(header)
  <2>1. header \in Text /\ at \in 1 .. Len(header) + 1 /\ Len(header) \in Nat
    BY LenProperties DEF TypeInv, ScannerInv, Text
  <2>2. KeyStart(header, at) \in at .. Len(header) + 1
    BY <2>1, KeyPlaces
  <2> QED
    BY <1>1, <2>1, <2>2
<1>3. key = Name.id => Bears(header, param.value)
  BY <1>1, <1>2 DEF Bears
<1> HIDE DEF key, param
<1>4. Name.id \in DOMAIN params' => Bears(header, params'[Name.id])
  BY <1>1, <1>3 DEF IdInv
<1> QED
  BY <1>1, <1>4 DEF IdInv, Unread, Answered, Bears

LEMMA UnderstandKeepsId ==
    ASSUME IdInv, Understand
    PROVE  IdInv'
<1>1. /\ header' = header /\ params' = params /\ stage' = "read"
      /\ Name.id \in DOMAIN params /\ challenge'.id = params[Name.id]
  BY DEF Understand, scanner, IsChallenge, Required, Get, ChallengeFields, EchoFields
<1> QED
  BY <1>1 DEF IdInv, Unread, Answered, Bears

\* Whoever answers, it is under the identity that was read.
LEMMA AnswerKeepsId ==
    ASSUME TypeInv, IdInv, Answer \/ AnswerRespelled
    PROVE  IdInv'
<1>1. /\ stage = "read" /\ UNCHANGED <<header, params, challenge>>
      /\ stage' \in {"answered", "unbuilt"}
  BY DEF Answer, AnswerRespelled, scanner
<1>2. challenge \in [ChallengeFields -> Text]
  BY <1>1 DEF TypeInv, ClientInv, Unread
<1>3. stage' = "answered" => answer'.echo.id = challenge.id
  <2>1. CASE Answer
    BY <1>2, <2>1 DEF Answer, Credential, to_echo, EchoFields, Required
  <2>2. CASE AnswerRespelled
    <3>1. PICK e \in Respell(to_echo(challenge)), s \in Server : answer' = Credential(s, e)
      BY <2>2 DEF AnswerRespelled
    <3>2. e.id = challenge.id
      BY <1>2, RespelledIsText
    <3> QED
      BY <3>1, <3>2 DEF Credential
  <2> QED
    BY <2>1, <2>2
<1> QED
  BY <1>1, <1>3 DEF IdInv, Unread, Answered

LEMMA NextId == TypeInv /\ IdInv /\ [Next]_vars => IdInv'
<1> SUFFICES ASSUME TypeInv, IdInv, [Next]_vars PROVE IdInv'
  OBVIOUS
<1> USE DEF scanner, client, Unread, Answered
<1>1. CASE Server402 \/ Respond \/ SelectPayment
  <2>1. /\ UNCHANGED <<header, params, challenge, answer>>
        /\ stage' \in {"open", "sent", "unsent"}
    BY <1>1 DEF Server402, Charge, ChargeByHand, MayIssue, Issue, Respond, Send, Unsent,
                SendCombined, SelectPayment
  <2> QED
    BY <2>1, StayKeepsId
<1>2. CASE Read
  <2>1. CASE SkipWord \/ Reject
    <3>1. UNCHANGED <<header, params, challenge, answer>> /\ stage' \in {"scan", "rejected"}
      BY <2>1 DEF SkipWord, AtKey, Reject
    <3> QED
      BY <3>1, StayKeepsId
  <2> QED
    BY <1>2, <2>1, ReceiveKeepsId, TakeKeepsId, UnderstandKeepsId DEF Read
<1>3. CASE Answer \/ AnswerRespelled
  BY <1>3, AnswerKeepsId
<1>4. CASE Decide \/ TakeReceipt \/ Tick \/ UNCHANGED vars
  <2>1. /\ UNCHANGED <<header, params, challenge, answer>>
        /\ \/ stage' = stage
           \/ stage \in Answered /\ stage' \in Answered
    BY <1>4 DEF Decide, Admit, Refuse, Serve, Unsettled, TakeReceipt, Tick, vars
  <2> QED
    BY <2>1, StayKeepsId
<1> QED
  BY <1>1, <1>2, <1>3, <1>4 DEF Next

LEMMA NextEnd == EndInv /\ [Next]_vars => EndInv'
<1> SUFFICES ASSUME EndInv, [Next]_vars PROVE EndInv'
  OBVIOUS
<1> USE DEF scanner, client
<1>1. ASSUME stage' \notin {"unbuilt", "refused", "served", "done"} PROVE EndInv'
  BY <1>1 DEF EndInv
<1>2. CASE Server402 \/ Respond \/ SelectPayment
  <2>1. stage' \in {"open", "sent", "unsent"}
    BY <1>2 DEF Server402, Charge, ChargeByHand, MayIssue, Issue, Respond, Send, Unsent,
                SendCombined, SelectPayment
  <2> QED
    BY <1>1, <2>1
<1>3. CASE Read \/ AnswerRespelled
  <2>1. stage' \in {"scan", "rejected", "read", "answered"}
    BY <1>3 DEF Read, Receive, SkipWord, TakeParam, AtKey, Understand, Reject, AnswerRespelled
  <2> QED
    BY <1>1, <2>1
<1>4. CASE Answer
  <2>1. /\ challenge' = challenge
        /\ \/ stage' = "answered"
           \/ /\ stage' = "unbuilt"
              /\ ~(/\ WithinMaximum(decode(challenge.request), MaxAmount)
                   /\ Number(decode(challenge.request), U64) # 0)
    BY <1>4 DEF Answer
  <2> QED
    BY <1>1, <2>1 DEF EndInv
<1>5. CASE Decide
  <2>1. CASE Serve
    BY <2>1 DEF Serve, Receipt, Nothing, EndInv
  <2>3. CASE Admit \/ Unsettled
    BY <1>1, <2>3 DEF Admit, Unsettled
  <2>2. CASE Refuse
    <3>1. stage' = "refused" /\ now' = now /\ answer' = answer /\ ~Accepts(answer.to, answer.echo)
      BY <2>2 DEF Refuse
    <3> QED
      BY <3>1 DEF EndInv, Accepts, Recognises
  <2> QED
    BY <1>5, <2>1, <2>2, <2>3 DEF Decide
<1>6. CASE TakeReceipt
  BY <1>6 DEF TakeReceipt, EndInv
<1>7. CASE Tick
  BY <1>1, <1>7 DEF Tick
<1>8. CASE UNCHANGED vars
  BY <1>8 DEF vars, EndInv, Accepts, Recognises
<1> QED
  BY <1>2, <1>3, <1>4, <1>5, <1>6, <1>7, <1>8 DEF Next

\* The inductive invariant with all that is said of the header, the scanner and
\* the client.
ReadInv == TypeInv /\ SentInv /\ ScanInv /\ PriceInv /\ IdInv /\ EndInv

THEOREM ReadingInvariance == Spec => []ReadInv
<1>1. Init => ReadInv
  BY InitType, InitSent, InitPrice, InitId DEF ReadInv
<1>2. Inv /\ ReadInv /\ [Next]_vars => ReadInv'
  BY NextType, NextSent, NextPrice, NextId, NextEnd DEF ReadInv
<1> QED
  BY <1>1, <1>2, Invariance, PTL DEF Spec

\* A client that has read something has read a header of the response.
LEMMA SourceOfChallenge ==
    ASSUME Inv, ReadInv, stage \notin Unread
    PROVE  \/ /\ header = format_www_authenticate(sent.challenge)
              /\ challenge = sent.challenge /\ Taken(sent.challenge)
           \/ header \in ForeignTexts
<1>1. stage \notin {"open", "unsent", "sent"}
  BY DEF Unread
<1>2. header = Own \/ header \in ForeignTexts
  BY <1>1 DEF ReadInv, SentInv, ScanInv
<1> QED
  BY <1>2 DEF ReadInv, ScanInv, Own

\* What a client reads in the header of a challenge is that challenge, whatever
\* its texts are, and it reads nothing in a header made of two
\* (format_www_authenticate, parse_auth_params, parse_www_authenticate).
THEOREM ChallengesArrive == Spec => [](header \notin ForeignTexts => ChallengeArrives)
<1>1. Inv /\ ReadInv => (header \notin ForeignTexts => ChallengeArrives)
  <2> SUFFICES ASSUME Inv, ReadInv, header \notin ForeignTexts, challenge # Nothing
               PROVE  /\ header = format_www_authenticate(sent.challenge)
                      /\ challenge = sent.challenge
    BY DEF ChallengeArrives
  <2>1. stage \notin Unread
    BY DEF ReadInv, TypeInv, ClientInv
  <2> QED
    BY <2>1, SourceOfChallenge
<1> QED
  BY <1>1, Invariance, ReadingInvariance, PTL

\* Nobody but the servers has the keys: no header from elsewhere bears a code
\* of theirs.
Unforged ==
    \A f \in Foreign, s \in Server, e \in [EchoFields -> Text] :
      ~Bears(f.text, compute_challenge_id(secret_key[s], realm[s], e))

\* A code is never short, so that headers with short identities are not forged.
LEMMA ShortIsUnforged ==
    ASSUME \A f \in Foreign : \A n \in 1 .. Len(f.text) :
             KeyEnd(f.text, n) < Len(f.text) /\ Key(f.text, n) = Name.id =>
               Len(Param(f.text, n).value) < 7
    PROVE  Unforged
<1> SUFFICES ASSUME NEW f \in Foreign, NEW s \in Server, NEW e \in [EchoFields -> Text],
                    Bears(f.text, compute_challenge_id(secret_key[s], realm[s], e))
             PROVE  FALSE
  BY DEF Unforged
<1> DEFINE code == compute_challenge_id(secret_key[s], realm[s], e)
<1>1. Len(code) < 7
  BY DEF Bears
<1>2. secret_key[s] \in Nat /\ realm[s] \in Text
  BY ExchangeAssumption DEF Given
<1>3. Texts7(e)
  BY DEF Texts7, EchoFields, Required
<1>4. code \in Text /\ Len(code) >= 7
  BY <1>2, <1>3, CodeIsText
<1> HIDE DEF code
<1>5. Len(code) \in Nat
  BY <1>4, LenProperties DEF Text
<1>6. \A n \in Nat : ~(n < 7 /\ n >= 7)
  OBVIOUS
<1> QED
  BY <1>1, <1>4, <1>5, <1>6, Zenon

\* The code of an echo is that of the challenge.
LEMMA CodeOfEcho ==
    ASSUME NEW k, NEW r, NEW c
    PROVE  compute_challenge_id(k, r, to_echo(c)) = compute_challenge_id(k, r, c)
<1>1. /\ to_echo(c).method = c.method /\ to_echo(c).intent = c.intent
      /\ to_echo(c).request = c.request /\ to_echo(c).expires = c.expires
      /\ to_echo(c).digest = c.digest /\ to_echo(c).opaque = c.opaque
  BY DEF to_echo, EchoFields, Required
<1> QED
  BY <1>1 DEF compute_challenge_id, Joined

\* An answer under a code of a server is to the challenge that was sent.
LEMMA CodeIsOfSent ==
    ASSUME Inv, ReadInv, Unforged, stage \in Answered,
           NEW s \in Server, NEW e \in [EchoFields -> Text],
           answer.echo.id = compute_challenge_id(secret_key[s], realm[s], e)
    PROVE  challenge = sent.challenge /\ Taken(sent.challenge) /\ sent \in issued
<1>1. stage \notin Unread /\ stage # "open"
  BY DEF Unread, Answered
<1>2. Bears(header, compute_challenge_id(secret_key[s], realm[s], e))
  BY <1>1 DEF ReadInv, IdInv
<1>3. header \notin ForeignTexts
  BY <1>2 DEF Unforged, ForeignTexts
<1> QED
  BY <1>1, <1>3, SourceOfChallenge DEF Inv, AnswerInv

\* What is served was issued: a credential gets no receipt unless it is under
\* the identity of a challenge that the client was sent, even if it was
\* tampered with (compute_challenge_id, Mpp::verify).
THEOREM OnlyIssuedServed ==
    ASSUME Unforged
    PROVE  Spec => []OnlyIssuedIsServed
<1>1. Inv /\ ReadInv => OnlyIssuedIsServed
  <2> SUFFICES ASSUME Inv, ReadInv, receipt # Nothing
               PROVE  \E i \in issued : receipt = Receipt(i.challenge)
    BY DEF OnlyIssuedIsServed
  <2>1. /\ stage \in Answered /\ answer.to \in Server
        /\ answer.echo.id
             = compute_challenge_id(secret_key[answer.to], realm[answer.to], answer.echo)
    BY DEF Inv, AdmittedInv, ReceiptInv, Recognises, Answered
  <2>2. answer.echo \in [EchoFields -> Text] /\ receipt = Receipt(answer.echo)
    BY <2>1 DEF ReadInv, TypeInv, ClientInv
  <2>3. challenge = sent.challenge /\ sent \in issued
    BY <2>1, <2>2, CodeIsOfSent
  <2>4. answer.echo.id = sent.challenge.id
    BY <2>1, <2>3 DEF ReadInv, IdInv
  <2> QED
    BY <2>2, <2>3, <2>4 DEF Receipt
<1> QED
  BY <1>1, Invariance, ReadingInvariance, PTL

\* An exchange in which nobody tampers ends with a receipt, unless for a reason
\* that is in the texts: a line break, a challenge that no client may take, an
\* amount that cannot be paid, a token too long, time, or a payment that is not
\* settled (format_www_authenticate to Mpp::verify).
THEOREM HonestyIsServed ==
    ASSUME Unforged
    PROVE  Spec => []HonestIsServed
<1> DEFINE c == sent.challenge
<1>1. Inv /\ ReadInv => HonestIsServed
  <2> SUFFICES ASSUME Inv, ReadInv PROVE HonestIsServed
    OBVIOUS
  <2>1. stage # "open" => /\ sent \in issued /\ sent.by \in Server /\ Shaped(c)
                          /\ c.id = compute_challenge_id(secret_key[sent.by], realm[sent.by], c)
    BY DEF Inv, AnswerInv, IssuedInv, ReadInv, TypeInv, ShapeInv
  <2>2. ASSUME stage = "unsent" PROVE \E f \in ChallengeFields : LineBreak \in ToSet(c[f])
    <3>1. Shaped(c) /\ format_www_authenticate(c) = Err
      BY <2>1, <2>2 DEF ReadInv, SentInv, Own
    <3> QED
      BY <3>1, ShapedIsSent
  <2>3. ASSUME stage = "rejected", header = format_www_authenticate(c)
        PROVE  ~IsMethodName(c.method) \/ decode(c.request) = Absent
    BY <2>3 DEF ReadInv, ScanInv, Own, Taken
  <2>4. ASSUME stage = "unbuilt", challenge = c, sent.due \in 1 .. Number(MaxAmount, U64)
        PROVE  FALSE
    <3> DEFINE max == Number(MaxAmount, U64)
               amount == decode(c.request)
    <3>1. (max \in Nat /\ max < U64) \/ max = NotANumber
      BY NumberIsBelow, AmountsAssumption, ExchangeAssumption
    <3>2. sent.due \in 1 .. max
      BY <2>4
    <3> HIDE DEF max
    <3>3. /\ max \in Nat /\ max # NotANumber /\ sent.due \in Nat /\ sent.due # 0
          /\ sent.due <= max /\ sent.due < U64 /\ sent.due \in 0 .. U128 - 1
      BY <3>1, <3>2, AmountsAssumption DEF NotANumber
    <3>4. Number(amount, U64) = sent.due
      BY <2>1, <2>4, <3>3 DEF ReadInv, PriceInv
    <3>5. WithinMaximum(amount, MaxAmount) /\ Number(amount, U64) # 0
      BY <3>3, <3>4 DEF WithinMaximum, max, NotANumber
    <3> QED
      BY <2>4, <3>5 DEF ReadInv, EndInv
  <2>5. ASSUME stage = "refused", answer = Credential(sent.by, to_echo(c)),
               Readable(to_echo(c)), Unexpired(c, now)
        PROVE  FALSE
    <3> DEFINE e == to_echo(c)
    <3>1. answer.to = sent.by /\ answer.echo = e
      BY <2>5 DEF Credential
    <3>2. /\ e \in [EchoFields -> Text] /\ e.id = c.id /\ e.request = c.request
          /\ e.expires = c.expires
      BY <2>1, <2>5, EchoIsText DEF Shaped, to_echo, EchoFields, Required
    <3>3. sent.by \in Server /\ Recognises(sent.by, e)
      BY <2>1, <2>5, <3>2, CodeOfEcho DEF Recognises
    <3> HIDE DEF e
    <3>4. Taken(c)
      BY <2>5, <3>1, <3>2, <3>3, CodeIsOfSent DEF Recognises, Answered
    <3>5. Accepts(answer.to, answer.echo)
      BY <2>5, <3>1, <3>2, <3>3, <3>4 DEF Accepts, Taken, Unexpired, e
    <3> QED
      BY <2>5, <3>5 DEF ReadInv, EndInv
  <2>6. ASSUME stage = "done", answer.echo = to_echo(c)
        PROVE  receipt = Receipt(c)
    <3>1. receipt # Nothing
      BY <2>6 DEF ReadInv, EndInv
    <3>2. receipt = Receipt(to_echo(c))
      BY <2>6, <3>1 DEF ReadInv, TypeInv, ClientInv
    <3> QED
      BY <3>2 DEF Receipt, to_echo, EchoFields, Required
  <2> QED
    BY <2>2, <2>3, <2>4, <2>5, <2>6 DEF HonestIsServed
<1> QED
  BY <1>1, Invariance, ReadingInvariance, PTL

\* With headers of other schemes about it, all that a client reads is what was
\* sent.
THEOREM OthersAreIgnored ==
    ASSUME \A f \in Foreign : ~HasScheme(f.text)
    PROVE  Spec => []ChallengeArrives
<1> DEFINE OfScheme == stage \in {"open", "unsent", "sent", "rejected"} \/ HasScheme(header)
<1>1. Init => OfScheme
  BY DEF Init
<1>2. OfScheme /\ [Next]_vars => OfScheme'
  <2> SUFFICES ASSUME OfScheme, [Next]_vars PROVE OfScheme'
    OBVIOUS
  <2> USE DEF scanner, client
  <2>1. CASE Server402 \/ Respond \/ SelectPayment
    BY <2>1 DEF Server402, Charge, ChargeByHand, MayIssue, Issue, Respond, Send, Unsent,
                SendCombined, SelectPayment
  <2>2. CASE Read
    <3>1. ASSUME NEW h, Receive(h) PROVE OfScheme'
      BY <3>1 DEF Receive
    <3>2. CASE SkipWord \/ TakeParam \/ Understand \/ Reject
      <4>1. header' = header /\ stage = "scan"
        BY <3>2 DEF SkipWord, TakeParam, AtKey, Understand, Reject, Scanned
      <4> QED
        BY <4>1
    <3> QED
      BY <2>2, <3>1, <3>2 DEF Read
  <2>3. CASE Answer \/ AnswerRespelled \/ Decide \/ TakeReceipt \/ Tick \/ UNCHANGED vars
    <3>1. header' = header
      BY <2>3 DEF Answer, AnswerRespelled, Decide, Admit, Refuse, Serve, Unsettled, TakeReceipt, Tick, vars
    <3>2. \/ stage' = stage
          \/ stage \notin {"open", "unsent", "sent", "rejected"}
      BY <2>3 DEF Answer, AnswerRespelled, Decide, Admit, Refuse, Serve, Unsettled, TakeReceipt, Tick, vars
    <3> QED
      BY <3>1, <3>2
  <2> QED
    BY <2>1, <2>2, <2>3 DEF Next
<1>3. Inv /\ ReadInv /\ OfScheme => ChallengeArrives
  <2> SUFFICES ASSUME Inv, ReadInv, OfScheme, challenge # Nothing
               PROVE  /\ header = format_www_authenticate(sent.challenge)
                      /\ challenge = sent.challenge
    BY DEF ChallengeArrives
  <2>1. stage \notin Unread
    BY DEF ReadInv, TypeInv, ClientInv
  <2>2. header \notin ForeignTexts
    BY <2>1 DEF Unread, ForeignTexts
  <2> QED
    BY <2>1, <2>2, SourceOfChallenge
<1> QED
  BY <1>1, <1>2, <1>3, Invariance, ReadingInvariance, PTL DEF Spec

\* A challenge and a credential are judged alike where they are judged: by the
\* methods of PaymentChallenge and by Mpp::verify.
THEOREM JudgementsAgree == Spec => []ChecksAgree
<1>1. ASSUME NEW e, e.expires \in Text, now \in Int
      PROVE  ~is_expired(e, now) <=> Unexpired(e, now)
  <2> DEFINE t == TimeOf(e.expires)
  <2>1. t \in Int
    <3>1. CASE e.expires = <<>>
      BY <3>1 DEF TimeOf, NotANumber
    <3>2. CASE e.expires # <<>>
      BY <1>1, <3>2, HeadTailProperties DEF TimeOf, NotANumber, Text, Calendar
    <3> QED
      BY <3>1, <3>2
  <2> HIDE DEF t
  <2>2. ~(t <= now) <=> now < t
    BY <1>1, <2>1
  <2> QED
    BY <2>2 DEF is_expired, Unexpired, t
<1>2. Inv /\ ReadInv => ChecksAgree
  <2> SUFFICES ASSUME Inv, ReadInv, answer # Nothing, NEW s \in Server,
                      answer.echo.realm = realm[s]
               PROVE  (verify(answer.echo, secret_key[s]) /\ ~is_expired(answer.echo, now))
                        <=> (Recognises(s, answer.echo) /\ Unexpired(answer.echo, now))
    BY DEF ChecksAgree
  <2>1. answer.echo \in [EchoFields -> Text]
    BY DEF ReadInv, TypeInv, ClientInv
  <2>2. answer.echo.expires \in Text /\ now \in Int
    BY <2>1, ExchangeAssumption DEF EchoFields, Inv
  <2>3. ~is_expired(answer.echo, now) <=> Unexpired(answer.echo, now)
    BY <1>1, <2>2
  <2> QED
    BY <2>3 DEF verify, Recognises
<1> QED
  BY <1>2, Invariance, ReadingInvariance, PTL

\* The scanner takes no turn without moving on, and never past the end: it is
\* through with a header after at most as many turns as there are characters
\* (the loop of parse_auth_params).
THEOREM ScannerAdvances ==
    Spec => [][SkipWord \/ (TakeParam /\ stage' = "scan") =>
                 at < at' /\ at' <= Len(header) + 1]_vars
<1>1. ReadInv /\ (SkipWord \/ (TakeParam /\ stage' = "scan")) =>
        at < at' /\ at' <= Len(header) + 1
  <2> SUFFICES ASSUME ReadInv, SkipWord \/ (TakeParam /\ stage' = "scan")
               PROVE  at < at' /\ at' <= Len(header) + 1
    OBVIOUS
  <2>1. header \in Text /\ at \in 1 .. Len(header) + 1 /\ Len(header) \in Nat
    BY LenProperties DEF ReadInv, TypeInv, ScannerInv, Text
  <2>2. CASE SkipWord
    <3>1. at' \in at + 1 .. Len(header) + 1
      BY <2>1, <2>2, WordIsPassed DEF SkipWord, AtKey
    <3> QED
      BY <2>1, <3>1
  <2>3. CASE TakeParam /\ stage' = "scan"
    <3>1. at' = Param(header, at).next /\ KeyEnd(header, at) < Len(header)
      BY <2>3 DEF TakeParam, AtKey
    <3>2. at' \in at + 1 .. Len(header) + 1
      BY <2>1, <3>1, ParamIsText
    <3> QED
      BY <2>1, <3>2
  <2> QED
    BY <2>2, <2>3
<1> QED
  BY <1>1, ReadingInvariance, PTL DEF Spec
=============================================================================
