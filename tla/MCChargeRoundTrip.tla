------------------------- MODULE MCChargeRoundTrip -------------------------
(***************************************************************************)
(* Instances of ChargeRoundTrip for TLC: every set-up, less those in which *)
(* a payment is known to be taken and then refused; one of these; and the  *)
(* set-ups of two promises the options of the servers make.                *)
(***************************************************************************)
EXTENDS ChargeRoundTrip

Symbol == [name |-> "symbol", lower |-> FALSE]

AllSetups ==
    {s \in [server : Party, client : Party, broadcast : BOOLEAN,
            configured : Currency \cup {Unset}, asked : {Unset, Sol, Mint, Symbol},
            hint : Program \cup {Unset}, owner : Program,
            feePayer : BOOLEAN, signer : BOOLEAN, funded : BOOLEAN] :
        /\ s.server = "rust" => s.configured # Unset
        /\ s.server = "ts" => ~s.feePayer
        /\ s.client = "rust" => ~s.broadcast}

MCScenario == {s \in AllSetups : ~Astray(s)}

MCSponsoredPush == {s \in AllSetups : SponsoredPush(s)}
=============================================================================
