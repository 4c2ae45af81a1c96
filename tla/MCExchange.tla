----------------------------- MODULE MCExchange -----------------------------
(***************************************************************************)
(* Small instances of Exchange: digits of base 3, a u64 of 16 and a u128   *)
(* of 256 values.                                                          *)
(***************************************************************************)
EXTENDS Exchange

CONSTANTS s1, s2

\* Two servers of one operator: one key, two realms, two currencies.
MCServer == {s1, s2}
MCRealm == s1 :> <<52>> @@ s2 :> <<52, 53>>
MCKey == [s \in MCServer |-> 7]
MCDecimals == s1 :> 2 @@ s2 :> 0

\* Twelve.
MCMaxAmount == <<1, 1, 0>>

PriceOffer(price) == [price |-> price, description |-> Absent, expires |-> Absent]
TextOffer(description, expires) ==
    [price |-> <<Plus, 1>>, description |-> description, expires |-> expires]

\* Prices with a dot, the second more than the client may pay; nothing; more
\* decimals than there are; a product beyond u128.
Prices == {<<Dot, 1>>, <<1, Dot, 2>>, <<0, Dot>>, <<1, Dot, 1, 1, 1>>,
           <<1, 0, 0, 2>>}

\* Texts that need quoting; one that cannot be sent; one that makes the token
\* too long; deadlines of the route's own, one of them no time.
MCOffer ==
    s1 :> {PriceOffer(p) : p \in Prices}
          \cup {TextOffer(<<Escape, Quote, Comma, Blank, 41, Equals>>, Timestamp(1)),
                TextOffer(<<>>, <<55>>),
                TextOffer(<<55, LineBreak>>, Absent)}
    @@ s2 :> {PriceOffer(<<2>>), TextOffer(<<55, 55, 55, 55, 55, 55, 55, Quote>>, Absent)}

DraftOf(method, request, expires, digest, opaque) ==
    [id |-> <<>>, realm |-> <<>>, method |-> method, intent |-> <<71>>,
     request |-> request, expires |-> expires, description |-> <<Quote>>,
     digest |-> digest, opaque |-> opaque]

Request(amount) == from_typed([amount |-> amount, description |-> Absent])

MCDraft ==
    s1 :> {DraftOf(<<70>>, Request(<<1, 0>>), <<>>, <<54>>, Absent),
           DraftOf(<<50, 1>>, Request(<<1>>), <<>>, Absent, <<54>>),
           DraftOf(<<50>>, <<54>>, Absent, Absent, Absent)}
    @@ s2 :> {}

\* A header of another scheme, and one as another server may write it: a tab,
\* bare values, a word too many, a name without a value.
Other == [id |-> <<107>>, realm |-> <<56>>, method |-> <<57>>, intent |-> <<51>>,
          request |-> Request(<<2>>), expires |-> Absent, description |-> Absent,
          digest |-> Absent, opaque |-> Absent]

MCForeign ==
  {[text |-> <<58, Blank>> \o Name.realm \o <<Equals, Quote, 56, Quote>>,
    means |-> Nothing],
   [text |-> <<Payment, Tab, 55, Blank>>
               \o Name.id \o <<Equals>> \o Other.id \o <<Blank>>
               \o Name.realm \o <<Equals, Quote>> \o Other.realm \o <<Quote>>
               \o Name.method \o <<Equals>> \o Other.method \o <<Comma>>
               \o Name.intent \o <<Equals, 71, Comma>>
               \o Name.request \o <<Equals>> \o Other.request \o <<Blank>>
               \o Name.digest \o <<Equals>>,
    means |-> Other]}
=============================================================================
