---------------------------- MODULE MCRustServer ----------------------------
(***************************************************************************)
(* Instances of RustServer for TLC.  Two requests have the same headline   *)
(* (amount, currency, recipient): "whole" and "shared", which splits it.   *)
(* "feeless" has its fee sponsored by the server.                          *)
(***************************************************************************)
EXTENDS RustServer, TLC

CONSTANTS whole, shared, feeless, tWhole, tBoth, tFeeless, tNested, tOdd

\* tWhole pays "whole", like "feeless"; tBoth pays "whole" and "shared";
\* tFeeless pays both and needs the server's signature; tNested pays "whole" in an
\* inner instruction, which only the on-chain check sees; tOdd pays "feeless"
\* and names the server's key, but not as a signer.
MCRawMatch == {<<tWhole, whole>>, <<tBoth, whole>>, <<tBoth, shared>>,
               <<tFeeless, feeless>>, <<tFeeless, whole>>,
               <<tOdd, feeless>>, <<tWhole, feeless>>}
                \cap (Tx \X ChargeRequest)
MCChainMatch ==
    MCRawMatch \cup ({<<tNested, whole>>} \cap (Tx \X ChargeRequest))

MCHeadline == [q \in ChargeRequest |-> IF q = shared /\ whole \in ChargeRequest
                                       THEN whole ELSE q]
MCSponsored == {feeless} \cap ChargeRequest
MCServerKey == [t \in Tx |-> CASE t = tFeeless -> "signer"
                               [] t = tOdd -> "account"
                               [] OTHER -> "absent"]
MCForged == {[request |-> q, expires |-> 9] : q \in ChargeRequest}

CallSymmetry == Permutations(Call)
=============================================================================
