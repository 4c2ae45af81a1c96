--------------------------- MODULE SolanaNetwork ---------------------------
(***************************************************************************)
(* The Solana cluster as the two servers and the clients see it through    *)
(* JSON-RPC: simulateTransaction, sendTransaction, getSignatureStatuses,   *)
(* getTransaction.  It is not part of the repository: the model keeps only *)
(* the answers the code branches on.                                       *)
(*                                                                         *)
(* A transaction is identified with its signature.  "confirmed" and        *)
(* "failed" mean executed and visible at the commitment the caller asks    *)
(* for; what is executed but not yet visible there, and may still be       *)
(* dropped with its fork, is "pending".  "expired" is a transaction whose  *)
(* blockhash is too old: no node will execute it any more.                 *)
(***************************************************************************)
EXTENDS Naturals, FiniteSets

CONSTANTS
    Tx,       \* the transactions, one per signature
    Lagging   \* TRUE: an RPC node may answer from a bank behind the cluster

ASSUME NetworkAssumption == Lagging \in BOOLEAN

VARIABLE ledger

TxStatus == {"unsent", "pending", "confirmed", "failed", "expired"}

LedgerType == ledger \in [Tx -> TxStatus]

LedgerInit == ledger = [t \in Tx |-> "unsent"]

(***************************************************************************)
(* RPC answers.                                                            *)
(***************************************************************************)

\* simulateTransaction can only succeed on a transaction that has not been
\* executed: a second execution is AlreadyProcessed, an old blockhash is
\* BlockhashNotFound.  (It can always fail: the balance is not modelled.)
SimulationCanPass(t) ==
    \/ ledger[t] \in {"unsent", "pending"}
    \/ Lagging /\ ledger[t] = "confirmed"

\* getTransaction finds executed transactions only, a lagging node misses them.
FetchCanFind(t) == ledger[t] \in {"confirmed", "failed"}
FetchCanMiss(t) == Lagging \/ ~FetchCanFind(t)

(***************************************************************************)
(* Steps of the cluster.                                                   *)
(***************************************************************************)

\* sendTransaction accepted by a node.  A duplicate may be accepted too (the
\* preflight bank is older than the commitment waited for) and has no effect.
Submit(t) ==
    /\ ledger[t] \in {"unsent", "pending", "confirmed"}
    /\ ledger' = [ledger EXCEPT ![t] = IF @ = "unsent" THEN "pending" ELSE @]

Confirm(t) ==
    /\ ledger[t] = "pending"
    /\ ledger' = [ledger EXCEPT ![t] = "confirmed"]

Fail(t) ==
    /\ ledger[t] = "pending"
    /\ ledger' = [ledger EXCEPT ![t] = "failed"]

Expire(t) ==
    /\ ledger[t] \in {"unsent", "pending"}
    /\ ledger' = [ledger EXCEPT ![t] = "expired"]

Resolve(t) == Confirm(t) \/ Fail(t) \/ Expire(t)
=============================================================================
