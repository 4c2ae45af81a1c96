-------------------------- MODULE ChallengeIdentity --------------------------
(***************************************************************************)
(* What a challenge is and what its identity binds.  The server keeps no   *)
(* memory of the challenges it issued: it recognises them by an HMAC over  *)
(* seven of their fields, joined with a bar.  The HMAC is external: under  *)
(* a key, two messages have two codes, and nobody without the key makes    *)
(* one.                                                                    *)
(***************************************************************************)
EXTENDS Texts

\* The fields a credential echoes: all but the description.
Required == {"id", "realm", "method", "intent", "request"}
EchoFields == Required \cup {"expires", "digest", "opaque"}

ChallengeFields == EchoFields \cup {"description"}

\* The text the code is computed of.  What is absent is the empty text.
Then(text, rest) == text \o (<<Bar>> \o rest)

\* Mutant: nothing between them.
JoinedBare(r, c) ==
    r \o c.method \o c.intent \o c.request
      \o OrEmpty(c.expires) \o OrEmpty(c.digest) \o OrEmpty(c.opaque)

Joined(r, c) ==
    Then(r, Then(c.method, Then(c.intent, Then(c.request,
        Then(OrEmpty(c.expires), Then(OrEmpty(c.digest), OrEmpty(c.opaque)))))))

Hmac(key, text) == <<key>> \o text

\* Mutant: the expiry is left out.
compute_timeless_id(key, r, c) ==
    base64url_encode(Hmac(key, Joined(r, [c EXCEPT !.expires = Absent])))

compute_challenge_id(key, r, c) ==
    base64url_encode(Hmac(key, Joined(r, c)))

\* Mutant: the code is that of the names as they were given.
with_key_of_given(key, c) ==
    [c EXCEPT !.method = MethodName(@), !.intent = IntentName(@),
              !.id = compute_challenge_id(key, c.realm, c)]

\* The names are brought to lower case, the description is not bound.
with_secret_key_full(key, c) ==
    LET named == [c EXCEPT !.method = MethodName(@), !.intent = IntentName(@)]
    IN  [named EXCEPT !.id = compute_challenge_id(key, named.realm, named)]

\* PaymentChallenge::with_secret_key: the optional fields are None.
with_secret_key(key, c) ==
    with_secret_key_full(key,
      [c EXCEPT !.expires = Absent, !.description = Absent,
                !.digest = Absent, !.opaque = Absent])

to_echo(c) == [f \in EchoFields |-> c[f]]

\* PaymentCredential, with the server s it goes to.  The payload is the same
\* in all of them.
Credential(s, e) == [to |-> s, echo |-> e]

\* Receipt::success
Receipt(e) == [status |-> "success", challenge_id |-> e.id]

\* PaymentChallenge::verify goes by the realm the challenge names.
verify(c, key) == c.id = compute_challenge_id(key, c.realm, c)

\* Mutant: the last moment is one of grace.
is_past(c, now) ==
    c.expires # Absent /\ (TimeOf(c.expires) = NotANumber \/ TimeOf(c.expires) < now)

\* A time that cannot be read has passed.
is_expired(c, now) ==
    c.expires # Absent /\ (TimeOf(c.expires) = NotANumber \/ TimeOf(c.expires) <= now)

\* The time the server reads, for a credential: none is no limit.
Unexpired(c, now) ==
    c.expires = Absent \/ (TimeOf(c.expires) # NotANumber /\ now < TimeOf(c.expires))
=============================================================================
