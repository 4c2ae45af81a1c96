--------------------------- MODULE ChargePromise ---------------------------
(***************************************************************************)
(* What a charge server promises, whatever its settlement mode: a call is  *)
(* answered with a receipt only for a payment that has settled and that    *)
(* pays what was asked, and a payment buys at most one receipt for as long *)
(* as the server remembers it.                                             *)
(***************************************************************************)
CONSTANTS
    Call,           \* calls of the server's verify operation
    Tx,             \* payments
    ChargeRequest,  \* what can be asked
    Pays,           \* the pairs <<t, q>> such that payment t pays request q
    NotServed,      \* stands for no receipt
    Durable         \* TRUE: what was served is never forgotten

VARIABLES
    settled,  \* payments made
    served,   \* served[c]: the payment and the request of c's receipt
    memory    \* payments the server remembers to have served

vars == <<settled, served, memory>>

Init ==
    /\ settled = {}
    /\ served = [c \in Call |-> NotServed]
    /\ memory = {}

\* A payment settles.
Settle(t) ==
    /\ settled' = settled \cup {t}
    /\ UNCHANGED <<served, memory>>

\* Call c is served: payment t, which pays q, is used up.
Serve(c, t, q) ==
    /\ served[c] = NotServed
    /\ t \in settled \ memory
    /\ <<t, q>> \in Pays
    /\ served' = [served EXCEPT ![c] = [tx |-> t, request |-> q]]
    /\ memory' = memory \cup {t}
    /\ UNCHANGED settled

\* A server without a durable memory starts over.
Forget ==
    /\ ~Durable
    /\ memory' = {}
    /\ UNCHANGED <<settled, served>>

Next ==
    \/ \E t \in Tx : Settle(t)
    \/ \E c \in Call, t \in Tx, q \in ChargeRequest : Serve(c, t, q)
    \/ Forget

Spec == Init /\ [][Next]_vars
=============================================================================
