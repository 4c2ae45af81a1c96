----------------------------- MODULE MCTsServer -----------------------------
(***************************************************************************)
(* Instances of TsServer for TLC: "whole" is paid by tWhole, "feeless" is  *)
(* sponsored and paid by tFeeless, which needs the server's signature and  *)
(* moves less than "whole" asks.                                           *)
(***************************************************************************)
EXTENDS TsServer

CONSTANTS whole, feeless, tWhole, tFeeless, any, payer, presenter

MCChainMatch ==
    {<<tWhole, whole>>, <<tFeeless, feeless>>}
        \cap (Tx \X ChargeRequest)
MCSponsored == {feeless} \cap ChargeRequest
MCServerKey == [t \in Tx |-> IF t = tFeeless THEN "signer" ELSE "absent"]

\* Two methods use one store: that of "feeless" has a signer.
MCHasSigner == [q \in ChargeRequest |-> q = feeless]

\* One call may bring anything, one a payment with its request, and one the
\* signature of a payment that another call may have begun.
MCPresented == [c \in Call |->
    CASE c = any       -> Credential
      [] c = payer     -> {k \in Credential : /\ k.mode # "malformed"
                                            /\ <<k.tx, k.request>> \in ChainMatch}
      [] c = presenter -> {[request |-> whole, mode |-> "push", tx |-> tWhole]}]
=============================================================================
