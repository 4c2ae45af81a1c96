------------------------------ MODULE Exchange ------------------------------
(***************************************************************************)
(* One exchange over HTTP: a server prices a route and issues a challenge, *)
(* the challenge travels as a header, the client reads it, builds its      *)
(* payment and answers, the server recognises its challenge and sends a    *)
(* receipt.  How a payment is settled is in RustServer, and here takes its *)
(* time and may fail; here it is about the texts: that they arrive as they *)
(* were meant, and that the server knows its own challenges by nothing but *)
(* their text.                                                             *)
(***************************************************************************)
EXTENDS Amounts, AuthHeader, ChallengeIdentity

CONSTANTS
    Server,         \* servers; those with a common key know each other's codes
    realm,          \* realm[s]: the text that names server s
    secret_key,     \* secret_key[s]
    decimals,       \* decimals[s]: of the currency
    default_expires,\* minutes(5), in ticks
    Offer,          \* Offer[s]: what routes hand to charge_with_options
    Draft,          \* Draft[s]: what applications hand to with_secret_key_full
    Foreign,        \* headers of other schemes and servers, with their meaning
    MaxAmount,      \* the most the client is told to pay, as a text
    MaxTokenLen,    \* MAX_TOKEN_LEN
    MaxIssued,      \* bound of the model: challenges
    MaxTime         \* bound of the model: ticks

\* No value of a variable yet.
Nothing == [kind |-> "nothing"]

ASSUME ExchangeAssumption ==
    /\ realm \in [Server -> Given]
    /\ secret_key \in [Server -> Nat]
    /\ decimals \in [Server -> Nat]
    /\ default_expires \in Nat
    /\ \A s \in Server : \A o \in Offer[s] :
          /\ DOMAIN o = {"price", "description", "expires"}
          /\ o.price \in Seq(Nat)
          /\ o.description \in Seq(Nat) \cup {Absent}
          /\ o.expires \in Text
    /\ \A s \in Server : \A d \in Draft[s] :
          /\ d \in [ChallengeFields -> Text]
          /\ \A f \in Required : d[f] # Absent
    /\ \A f \in Foreign : f.text \in Text
    /\ MaxAmount \in Text /\ MaxTokenLen \in Nat /\ MaxIssued \in Nat /\ MaxTime \in Nat

VARIABLES
    now,        \* the clock, read by everybody
    issued,     \* the challenges there are, with what is owed for each
    sent,       \* the one this exchange is about
    response,   \* the WWW-Authenticate headers of the 402, in no order
    header,     \* the one that is scanned
    at,         \* where
    params,     \* what has been found
    challenge,  \* what the client understood
    paid,       \* what the client signed a transfer of
    answer,     \* the credential: the challenge it echoes, and who gets it
    receipt,    \* what the server has sent for it
    stage       \* where the exchange is

scanner == <<header, at, params>>
client == <<challenge, paid, answer>>
vars == <<now, issued, sent, response, scanner, client, receipt, stage>>

Stage == {"open", "unsent", "sent", "scan", "rejected", "read", "unbuilt",
          "answered", "refused", "settling", "unsettled", "served", "done"}

\* The exchange is over: with no header, no challenge, no credential, an
\* error, or a receipt.
Ended == {"unsent", "rejected", "unbuilt", "refused", "unsettled", "done"}

Init ==
    /\ now = 0
    /\ issued = {}
    /\ sent = Nothing
    /\ response = {}
    /\ header = <<>> /\ at = 1 /\ params = [k \in {} |-> <<>>]
    /\ challenge = Nothing /\ paid = NotANumber /\ answer = Nothing
    /\ receipt = Nothing
    /\ stage = "open"

-----------------------------------------------------------------------------
(* The server asks.                                                        *)

\* expires::minutes and its like
offset(duration) == Timestamp(now + duration)

\* Mpp::charge_with_options: the challenge for a price.
Priced(s, o) ==
    LET request == [amount |-> parse_units(o.price, decimals[s]),
                    description |-> o.description]
    IN  with_secret_key_full(secret_key[s],
          [id |-> <<>>, realm |-> realm[s], method |-> <<50>>,
           intent |-> <<51>>, request |-> from_typed(request),
           expires |-> IF o.expires = Absent
                       THEN offset(default_expires) ELSE o.expires,
           description |-> o.description, digest |-> Absent,
           opaque |-> Absent])

MayIssue == stage = "open" /\ Cardinality(issued) < MaxIssued

\* What is issued, with the server it is from and what it is to cost.
Issue(s, c, due) ==
    /\ issued' = issued \cup {[by |-> s, challenge |-> c, due |-> due]}
    /\ UNCHANGED <<now, sent, response, scanner, client, receipt, stage>>

Charge(s, o) ==
    /\ MayIssue
    /\ parse_units(o.price, decimals[s]) # Err
    /\ Issue(s, Priced(s, o), BaseUnits(o.price, decimals[s]))

\* An application draws the challenge up by itself, in base units.
ChargeByHand(s, d) ==
    LET named == [d EXCEPT !.realm = realm[s]]
    IN  /\ MayIssue
        /\ \E c \in {with_secret_key(secret_key[s], named),
                    with_secret_key_full(secret_key[s], named)} :
             Issue(s, c, IF decode(d.request) = Absent THEN NotANumber
                         ELSE Number(decode(d.request), U64))

\* The 402, its header among those of other schemes and servers.
Send(i) ==
    /\ stage = "open"
    /\ format_www_authenticate(i.challenge) # Err
    /\ response' = {f.text : f \in Foreign} \cup {format_www_authenticate(i.challenge)}
    /\ sent' = i
    /\ stage' = "sent"
    /\ UNCHANGED <<now, issued, scanner, client, receipt>>

\* Two challenges whose headers an intermediary has put into one.
SendCombined(i, j) ==
    /\ stage = "open"
    /\ i # j
    /\ \A k \in {i, j} : format_www_authenticate(k.challenge) # Err
    /\ response' = {format_www_authenticate(i.challenge) \o <<Comma, Blank>>
                     \o format_www_authenticate(j.challenge)}
    /\ sent' = i
    /\ stage' = "sent"
    /\ UNCHANGED <<now, issued, scanner, client, receipt>>

Unsent(i) ==
    /\ stage = "open"
    /\ format_www_authenticate(i.challenge) = Err
    /\ sent' = i
    /\ stage' = "unsent"
    /\ UNCHANGED <<now, issued, response, scanner, client, receipt>>

-----------------------------------------------------------------------------
(* The client reads.                                                       *)

\* parse_www_authenticate_all leaves out what is not for it.
SelectPayment ==
    /\ stage = "sent"
    /\ response' = {h \in response : IsPayment(h)}
    /\ response' # response
    /\ UNCHANGED <<now, issued, sent, scanner, client, receipt, stage>>

Receive(h) ==
    /\ stage = "sent"
    /\ header' = h
    /\ IF HasScheme(h) THEN at' = Params(h) /\ stage' = "scan"
       ELSE at' = at /\ stage' = "rejected"
    /\ UNCHANGED <<now, issued, sent, response, params, client, receipt>>

AtKey == stage = "scan" /\ KeyStart(header, at) <= Len(header)

\* A word with no equals sign after it is passed over.
SkipWord ==
    /\ AtKey /\ ~HasKey(header, at)
    /\ at' = Upto(header, KeyEnd(header, at), Whitespace \cup {Comma})
    /\ UNCHANGED <<now, issued, sent, response, header, params, client, receipt, stage>>

TakeParam ==
    LET key == Key(header, at)
        param == Param(header, at)
    IN  /\ AtKey /\ HasKey(header, at) /\ KeyEnd(header, at) < Len(header)
        /\ IF key \in DOMAIN params
           THEN stage' = "rejected" /\ UNCHANGED <<at, params>>
           ELSE /\ params' = [k \in DOMAIN params \cup {key} |->
                                 IF k = key THEN param.value ELSE params[k]]
                /\ at' = param.next
                /\ stage' = stage
        /\ UNCHANGED <<now, issued, sent, response, header, client, receipt>>

\* The text is used up, or ends in an equals sign.
Scanned ==
    /\ stage = "scan"
    /\ \/ KeyStart(header, at) > Len(header)
       \/ HasKey(header, at) /\ KeyEnd(header, at) = Len(header)

\* What the parameters have to be for a challenge.
IsChallenge ==
    /\ \A f \in Required : Name[f] \in DOMAIN params
    /\ Get(params, "id") # <<>>
    /\ IsMethodName(Get(params, "method"))
    /\ decode(Get(params, "request")) # Absent

Understand ==
    /\ Scanned /\ IsChallenge
    /\ challenge' = [f \in ChallengeFields |->
                        IF f = "intent" THEN IntentName(Get(params, f))
                        ELSE Get(params, f)]
    /\ stage' = "read"
    /\ UNCHANGED <<now, issued, sent, response, scanner, paid, answer, receipt>>

Reject ==
    /\ Scanned /\ ~IsChallenge
    /\ stage' = "rejected"
    /\ UNCHANGED <<now, issued, sent, response, scanner, client, receipt>>

-----------------------------------------------------------------------------
(* The client pays and answers.                                            *)

\* Mutant: it is sent to the realm.
AnswerRealm ==
    /\ stage = "read"
    /\ answer' = Credential(challenge.realm, to_echo(challenge))
    /\ stage' = "answered"
    /\ UNCHANGED <<now, issued, sent, response, scanner, challenge, paid, receipt>>

\* build_credential_header, which looks at neither method nor expiry, after the
\* application has compared the amount with its maximum.  An amount of nothing
\* is refused by build_charge_transaction.
Answer ==
    /\ stage = "read"
    /\ \E amount \in {decode(challenge.request)} :
          IF WithinMaximum(amount, MaxAmount) /\ Number(amount, U64) # 0
          THEN /\ paid' = Number(amount, U64)
               /\ answer' = Credential(sent.by, to_echo(challenge))
               /\ stage' = "answered"
          ELSE /\ stage' = "unbuilt"
               /\ UNCHANGED <<paid, answer>>
    /\ UNCHANGED <<now, issued, sent, response, scanner, challenge, receipt>>

\* A client of another make answers with a field of some other challenge, or
\* leaves one out, or puts an optional one in another's place.
Respell(e) ==
    {e}
    \cup {[e EXCEPT ![f] = e[g], ![g] = e[f]] : f, g \in {"expires", "digest", "opaque"}}
    \cup UNION {{[e EXCEPT ![f] = v] :
                    v \in {Absent, <<>>} \cup {i.challenge[f] : i \in issued}} :
                  f \in EchoFields \ {"id"}}

AnswerRespelled ==
    /\ stage = "read"
    /\ \E e \in Respell(to_echo(challenge)), s \in Server : answer' = Credential(s, e)
    /\ stage' = "answered"
    /\ UNCHANGED <<now, issued, sent, response, scanner, challenge, paid, receipt>>

-----------------------------------------------------------------------------
(* The server recognises its challenge, or does not.                       *)

\* The length of the token format_authorization makes; the code and the payload
\* in it always have the same.
TokenLen(e) ==
    MapThenSumSet(LAMBDA f : Len(OrEmpty(e[f])), EchoFields \ {"id"})

\* parse_authorization: its fields are texts, and only the last three may lack.
Readable(e) ==
    /\ \A f \in EchoFields : e[f] \in Text
    /\ \A f \in Required : e[f] # Absent
    /\ TokenLen(e) <= MaxTokenLen

\* Mutant: as far as the shorter of the two.
RecognisesPrefix(s, e) ==
    IsPrefix(e.id, compute_challenge_id(secret_key[s], realm[s], e))

\* Mpp::verify: the realm is the server's own, whatever the echo says.
Recognises(s, e) == e.id = compute_challenge_id(secret_key[s], realm[s], e)

Accepts(s, e) ==
    /\ Readable(e)
    /\ decode(e.request) # Absent
    /\ Recognises(s, e)
    /\ Unexpired(e, now)

\* The identity and the clock are looked at once, before the first await.
Admit ==
    /\ stage = "answered"
    /\ Accepts(answer.to, answer.echo)
    /\ stage' = "settling"
    /\ UNCHANGED <<now, issued, sent, response, scanner, client, receipt>>

Refuse ==
    /\ stage = "answered"
    /\ ~Accepts(answer.to, answer.echo)
    /\ stage' = "refused"
    /\ UNCHANGED <<now, issued, sent, response, scanner, client, receipt>>

\* The payment is settled and consumed, whatever the time is by then.
Serve ==
    /\ stage = "settling"
    /\ receipt' = Receipt(answer.echo)
    /\ stage' = "served"
    /\ UNCHANGED <<now, issued, sent, response, scanner, client>>

\* Or it is not, for one of the reasons that RustServer has.
Unsettled ==
    /\ stage = "settling"
    /\ stage' = "unsettled"
    /\ UNCHANGED <<now, issued, sent, response, scanner, client, receipt>>

\* parse_receipt; its limit is that of the longer token before it.
TakeReceipt ==
    /\ stage = "served"
    /\ stage' = "done"
    /\ UNCHANGED <<now, issued, sent, response, scanner, client, receipt>>

\* The clock is read when a challenge is issued and when an answer is decided
\* on: all the time between the two passes at the end of it, the rest while
\* the payment settles.
Tick ==
    /\ stage \in {"open", "answered", "settling"}
    /\ now < MaxTime
    /\ now' = now + 1
    /\ UNCHANGED <<issued, sent, response, scanner, client, receipt, stage>>

-----------------------------------------------------------------------------

Server402 ==
    \/ \E s \in Server : \E o \in Offer[s] : Charge(s, o)
    \/ \E s \in Server : \E d \in Draft[s] : ChargeByHand(s, d)

Respond ==
    \/ \E i \in issued : Send(i) \/ Unsent(i)
    \/ \E i, j \in issued : SendCombined(i, j)

Read ==
    \/ \E h \in response : Receive(h)
    \/ SkipWord \/ TakeParam \/ Understand \/ Reject

Decide == Admit \/ Refuse \/ Serve \/ Unsettled

Next == \/ Server402 \/ Respond \/ SelectPayment \/ Read
        \/ Answer \/ AnswerRespelled \/ Decide \/ TakeReceipt \/ Tick

Spec == Init /\ [][Next]_vars

\* A client reads and answers what it got, a server decides on an answer.
FairSpec ==
    Spec /\ WF_vars(Read) /\ WF_vars(Answer) /\ WF_vars(Decide) /\ WF_vars(TakeReceipt)

-----------------------------------------------------------------------------
(* Properties.                                                             *)

\* Types.
TypeOK ==
    /\ now \in 0 .. MaxTime
    /\ \A i \in issued :
          /\ i.by \in Server /\ i.due \in Int
          /\ i.challenge \in [ChallengeFields -> Text]
    /\ header \in Text /\ \A h \in response : h \in Text
    /\ at \in 1 .. Len(header) + 1
    /\ params \in [DOMAIN params -> Text]
    /\ challenge \in [ChallengeFields -> Text] \cup {Nothing}
    /\ paid \in Int
    /\ answer # Nothing => answer.to \in Server /\ answer.echo \in [EchoFields -> Text]
    /\ receipt # Nothing => receipt.challenge_id \in Given
    /\ stage \in Stage

\* What the client understands is the challenge whose header it was given,
\* whatever quotes, escapes and blanks are in it: no header, not even one made
\* of two, is read as a challenge that nobody issued
\* (format_www_authenticate, parse_auth_params, parse_www_authenticate).
ChallengeArrives ==
    challenge # Nothing =>
      \/ /\ header = format_www_authenticate(sent.challenge)
         /\ challenge = sent.challenge
      \/ \E f \in Foreign : header = f.text /\ challenge = f.means

\* Texts without a bar.
Plain == Seq(Int \ {Bar})

\* No bar is in what the code of a challenge is computed of.
IsPlain(i) ==
    /\ realm[i.by] \in Plain
    /\ \A f \in EchoFields \ {"id", "realm"} : i.challenge[f] \in Plain

\* The identity binds what is served: a credential that a server takes under
\* the identity of a challenge agrees with it in every field but the realm and
\* the description, and an absent field differs from an empty one at most, and
\* the server has the realm and the key of the one that issued the challenge.
\* It is enough that the challenge has no bars: what bars a client puts into
\* the echo do not help it (compute_challenge_id, Mpp::verify).
IdentityBinds ==
    receipt # Nothing =>
      \A i \in issued :
        i.challenge.id = receipt.challenge_id /\ IsPlain(i) =>
          /\ realm[i.by] = realm[answer.to]
          /\ secret_key[i.by] = secret_key[answer.to]
          /\ \A f \in {"method", "intent", "request"} :
                answer.echo[f] = i.challenge[f]
          /\ \A f \in {"expires", "digest", "opaque"} :
                OrEmpty(answer.echo[f]) = OrEmpty(i.challenge[f])

\* Only challenges that were issued are served (with_secret_key_full,
\* Mpp::verify).
OnlyIssuedIsServed ==
    receipt # Nothing => \E i \in issued : receipt = Receipt(i.challenge)

\* The time until which a challenge is answered.  An empty text is no limit to a
\* client that leaves it out.
Deadline(c) ==
    IF OrEmpty(c.expires) = <<>> THEN MaxTime + 1 ELSE TimeOf(c.expires)

\* A credential is admitted to settlement in the time of the challenge that was
\* issued: nothing a client does to the credential extends it
\* (with_secret_key_full, to_echo, the comparison with the clock in
\* Mpp::verify).  The receipt comes when the payment is settled, which may be
\* later: nothing looks at the clock again.
NoLateAdmission ==
    [][stage' = "settling" /\ stage # "settling" =>
         \A i \in issued :
           i.challenge.id = answer.echo.id /\ IsPlain(i) =>
             now < Deadline(i.challenge)]_vars

\* A client signs what the price of the route comes to in base units, to the
\* unit, and no more than it was told to pay (parse_units, parse_amount,
\* validate_max_amount).
PriceIsPaid ==
    paid # NotANumber /\ challenge = sent.challenge /\ sent.due \in 0 .. U128 - 1 =>
      /\ paid = sent.due
      /\ paid <= Number(MaxAmount, U64)

\* An honest exchange ends with service, unless for a reason that is to be
\* seen: a line break in a text, a challenge that no client may take, an amount
\* that cannot be paid, a token that is too long, time, or a payment that is
\* not settled (format_www_authenticate to Mpp::verify).
HonestIsServed ==
    LET c == sent.challenge
    IN  /\ stage = "unsent" =>
             \E f \in ChallengeFields : LineBreak \in ToSet(c[f])
        /\ stage = "rejected" /\ header = format_www_authenticate(c) =>
             ~IsMethodName(c.method) \/ decode(c.request) = Absent
        /\ stage = "unbuilt" /\ challenge = c =>
             sent.due \notin 1 .. Number(MaxAmount, U64)
        /\ stage = "refused" /\ answer = Credential(sent.by, to_echo(c)) =>
             ~Readable(to_echo(c)) \/ ~Unexpired(c, now)
        /\ stage = "done" /\ answer.echo = to_echo(c) => receipt = Receipt(c)

\* The two places that decide on a challenge agree: the methods of
\* PaymentChallenge, and Mpp::verify, which does it anew for the credential.
ChecksAgree ==
    answer # Nothing =>
      \A s \in Server :
        answer.echo.realm = realm[s] =>
          ((verify(answer.echo, secret_key[s]) /\ ~is_expired(answer.echo, now))
           <=> (Recognises(s, answer.echo) /\ Unexpired(answer.echo, now)))

\* The scanner reads every header to its end, and what is sent is decided.
ExchangeEnds == (stage = "sent") ~> (stage \in Ended)
=============================================================================
