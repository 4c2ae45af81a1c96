----------------------------- MODULE AuthHeader -----------------------------
(***************************************************************************)
(* The WWW-Authenticate header: the text a challenge is formatted to, and  *)
(* the pieces the scanner of its parameters is made of.  The scanner       *)
(* itself runs in Exchange, one step for each turn of its outer loop.      *)
(***************************************************************************)
EXTENDS Texts

\* The scheme, as one word: "payment", and "Payment" as the code writes it.
Payment == 59
PaymentScheme == Payment + 20

\* The parameters in the order they are written, and their names.
Fields == <<"id", "realm", "method", "intent", "request",
            "expires", "description", "digest", "opaque">>

Name == [id |-> <<40>>, realm |-> <<41>>, method |-> <<42>>,
         intent |-> <<43>>, request |-> <<44>>, expires |-> <<45>>,
         description |-> <<46>>, digest |-> <<47>>, opaque |-> <<48>>]

\* str::replace of a character.
Replace(text, c, by) ==
    FlattenSeq([i \in DOMAIN text |-> IF text[i] = c THEN by ELSE <<text[i]>>])

\* Mutant: the quotes come first.
escape_quotes_first(text) ==
    Replace(Replace(text, Quote, <<Escape, Quote>>), Escape, <<Escape, Escape>>)

escape_quoted_value(text) ==
    Replace(Replace(text, Escape, <<Escape, Escape>>), Quote, <<Escape, Quote>>)

\* One field of the challenge; a field that is None is left out.
Parameter(challenge, f) ==
    IF challenge[f] = Absent THEN <<>>
    ELSE <<Comma, Blank>> \o Name[f] \o <<Equals, Quote>>
         \o escape_quoted_value(challenge[f]) \o <<Quote>>

\* The first parameter has no comma before it.
format_www_authenticate(challenge) ==
    IF \E n \in DOMAIN Fields : LineBreak \in ToSet(challenge[Fields[n]])
    THEN Err
    ELSE <<PaymentScheme>>
         \o Tail(FlattenSeq([n \in DOMAIN Fields |-> Parameter(challenge, Fields[n])]))

-----------------------------------------------------------------------------
(* Scanning.  A position is an index into the text, or one past its end.   *)

\* The first position from i on that holds a character of S, or the end.
Upto(text, i, S) ==
    CHOOSE j \in i .. Len(text) + 1 :
      /\ j = Len(text) + 1 \/ text[j] \in S
      /\ \A k \in i .. j - 1 : text[k] \notin S

\* The first position from i on that holds none of S, or the end.
Past(text, i, S) ==
    CHOOSE j \in i .. Len(text) + 1 :
      /\ j = Len(text) + 1 \/ text[j] \notin S
      /\ \A k \in i .. j - 1 : text[k] \in S

\* Where the scheme is, or 0: strip_payment_scheme and the space it asks for.
Scheme(header, spaces) ==
    LET i == Past(header, 1, Whitespace)
    IN  IF /\ i < Len(header)
           /\ lowercase(header)[i] = Payment
           /\ header[i + 1] \in spaces
        THEN i ELSE 0

\* What parse_www_authenticate takes, and what parse_www_authenticate_all,
\* which knows no tab, hands to it.
HasScheme(header) == Scheme(header, {Blank, Tab}) # 0
IsPayment(header) == Scheme(header, {Blank}) # 0

\* Where the parameters begin.
Params(header) == Past(header, Scheme(header, {Blank, Tab}) + 1, Whitespace)

\* Mutant: a blank ends a name and begins one.
KeyStartAtBlank(text, at) == Past(text, at, {Comma})

KeyStart(text, at) == Past(text, at, Whitespace \cup {Comma})
KeyEnd(text, at) == Upto(text, KeyStart(text, at), Whitespace \cup {Equals})

Key(text, at) == SubSeq(text, KeyStart(text, at), KeyEnd(text, at) - 1)

\* There is a name with an equals sign after it.
HasKey(text, at) == KeyEnd(text, at) <= Len(text) /\ text[KeyEnd(text, at)] = Equals

\* A quoted value from i on: the text without its escapes, and where it ends.
Quoted(text, i) ==
    LET end == Len(text) + 1
        read[j \in i .. end] ==
          IF j = end \/ text[j] = Quote
          THEN [value |-> <<>>, next |-> Min({j + 1, end})]
          ELSE LET here == IF text[j] = Escape /\ j + 1 < end THEN j + 1 ELSE j
               IN  [read[here + 1] EXCEPT !.value = <<text[here]>> \o @]
    IN  read[i]

Bare(text, i) ==
    LET end == Upto(text, i, Whitespace \cup {Comma})
    IN  [value |-> SubSeq(text, i, end - 1), next |-> end]

\* The value after the key at this position.
Param(text, at) ==
    LET i == KeyEnd(text, at) + 1
    IN  IF text[i] = Quote THEN Quoted(text, i + 1) ELSE Bare(text, i)

\* HashMap::get
Get(params, f) == IF Name[f] \in DOMAIN params THEN params[Name[f]] ELSE Absent
=============================================================================
