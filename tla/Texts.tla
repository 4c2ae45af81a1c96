------------------------------- MODULE Texts -------------------------------
(***************************************************************************)
(* Texts as the protocol's headers carry them: sequences of characters, a  *)
(* character being a number.  Only those the code treats specially have a  *)
(* name; a word that is never taken apart (a method, the name of a         *)
(* parameter, a point in time) is one character.                           *)
(***************************************************************************)
EXTENDS Integers, SequencesExt

Text == Seq(Int)

\* From 0 on there are digits.
Dot == 10
Plus == 11
Minus == 12

Quote == 20
Escape == 21
Comma == 22
Blank == 23
LineBreak == 24
Equals == 25
Bar == 26
Tab == 27
Brace == 28     \* what JSON puts between two members

Whitespace == {Blank, Tab, LineBreak}

\* Words in lower case, and the same words in upper case.
Lower == 40 .. 59
Upper == 60 .. 79

\* From Alphabet on: what base64url yields; from Calendar on: times.
Alphabet == 100
Calendar == 1000

\* What a Result or an Option holds that holds no text.
Err == <<-2>>
Absent == <<-1>>

\* A text that is there.
Given == Text \ {Absent}

\* A number that is none.
NotANumber == -1

\* Option::unwrap_or("")
OrEmpty(text) == IF text = Absent THEN <<>> ELSE text

\* The case of letters is the only thing names are normalised in.
lowercase(text) ==
    [i \in DOMAIN text |-> IF text[i] \in Upper THEN text[i] - 20 ELSE text[i]]

MethodName(text) == lowercase(text)

IntentName(text) == lowercase(text)

\* MethodName::is_valid, which parse_www_authenticate repeats.
IsMethodName(text) == text # <<>> /\ ToSet(text) \subseteq Lower

base64url_encode(text) == [i \in DOMAIN text |-> text[i] + Alphabet]

\* What is left of a text without a character; it may hold none.
Without(text, c) ==
    IF \E i \in DOMAIN text : text[i] = c
    THEN FlattenSeq([i \in DOMAIN text |-> IF text[i] = c THEN <<>> ELSE <<text[i]>>])
    ELSE text

\* Padding is ignored, so that a value has more than one spelling.
base64url_decode(text) ==
    LET unpadded == Without(text, Equals)
    IN  IF \A i \in DOMAIN unpadded : unpadded[i] >= Alphabet
        THEN [i \in DOMAIN unpadded |-> unpadded[i] - Alphabet]
        ELSE Err

\* JCS of a ChargeRequest, as far as its length and its amount matter.
Json(request) == request.amount \o <<Brace>> \o OrEmpty(request.description)

\* Base64UrlJson::from_typed and decode; the raw text is kept and never
\* spelled anew.
from_typed(request) == base64url_encode(Json(request))

decode(raw) ==
    LET json == base64url_decode(raw)
        brace == SelectInSeq(json, LAMBDA c : c = Brace)
    IN  IF json = Err \/ brace = 0 THEN Absent
        ELSE SubSeq(json, 1, brace - 1)     \* the amount

\* An RFC 3339 timestamp, and the time it stands for.
Timestamp(time) == <<Calendar + time>>

TimeOf(text) ==
    IF Len(text) = 1 /\ Head(text) >= Calendar THEN Head(text) - Calendar
    ELSE NotANumber
=============================================================================
