------------------------------ MODULE TsServer ------------------------------
(***************************************************************************)
(* The charge server of the TypeScript SDK                                 *)
(* (typescript/packages/mpp/src/server/Charge.ts).  Each call of verify is *)
(* an async function: the event loop may run other calls at every await,   *)
(* that is between any two actions of one call.  The mppx framework, which *)
(* is not in the repository, checks that the challenge is authentic and    *)
(* hands the credential to verify.                                         *)
(***************************************************************************)
EXTENDS SolanaNetwork

CONSTANTS
    Call,           \* calls of verify
    ChargeRequest,  \* charge requests, as the challenge carries them
    Sponsored,      \* the requests with methodDetails.feePayer
    ChainMatch,     \* <<t, q>>: verifyInstructions accepts t for q
    ServerKey,      \* [Tx -> how the signer's key occurs in the message]
    HasSigner,      \* HasSigner[q]: the charge() that verifies q was given a signer
    Durable,        \* TRUE: the store survives a restart of the process
    Presented,      \* bound of the model: [Call -> what it may be called with]
    MaxFaults, MaxCrashes   \* bounds of the model

Credential == [request : ChargeRequest, mode : {"pull", "push", "malformed"}, tx : Tx]

ASSUME ServerAssumption ==
    /\ Sponsored \subseteq ChargeRequest
    /\ ChainMatch \subseteq Tx \X ChargeRequest
    /\ ServerKey \in [Tx -> {"absent", "signer", "account"}]
    /\ HasSigner \in [ChargeRequest -> BOOLEAN]
    /\ Durable \in BOOLEAN
    /\ Presented \in [Call -> SUBSET Credential]
    /\ {MaxFaults, MaxCrashes} \subseteq Nat

VARIABLES
    pc,        \* pc[c]: the await call c is at
    cred,      \* cred[c]: the credential of call c
    reply,     \* reply[c]: what verify returned or threw
    store,     \* signatures s with the key "solana-charge:consumed:s"
    cosigned,  \* transactions the server signed as fee payer
    prior,     \* prior[c]: payments with a receipt when call c began
    crashes,   \* crashes so far
    faults     \* failures of RPC, store and signer so far

vars == <<ledger, pc, cred, reply, store, cosigned, prior, crashes, faults>>

NoCredential == [mode |-> "none"]

Running == {"cosign", "simulate", "broadcast", "poll", "get", "fetch", "put",
            "respond"}

Phase == Running \cup {"idle", "done", "lost"}

ErrorCode == {"invalid_payload", "fee_sponsored_push", "not_a_signer", "simulation_failed",
              "rpc_error", "failed", "timeout", "not_found", "mismatch",
              "signature_consumed", "store_error"}

Reply == ErrorCode \cup {"none", "receipt"}

TxOf(c) == cred[c].tx
HasReceipt(c) == reply[c] = "receipt"

Init ==
    /\ LedgerInit
    /\ pc = [c \in Call |-> "idle"]
    /\ cred = [c \in Call |-> NoCredential]
    /\ reply = [c \in Call |-> "none"]
    /\ store = {}
    /\ cosigned = {}
    /\ prior = [c \in Call |-> {}]
    /\ crashes = 0
    /\ faults = 0

Goto(c, phase) ==
    /\ pc' = [pc EXCEPT ![c] = phase]
    /\ UNCHANGED <<cred, reply, prior, crashes>>

\* verify returns the receipt or throws.
Answer(c, r) ==
    /\ pc' = [pc EXCEPT ![c] = "done"]
    /\ reply' = [reply EXCEPT ![c] = r]
    /\ UNCHANGED <<cred, prior, crashes>>

Effects == <<ledger, store, cosigned>>

Fault == faults < MaxFaults /\ faults' = faults + 1
NoFault == UNCHANGED faults

-----------------------------------------------------------------------------
(***************************************************************************)
(* The start of a call.  Push mode is refused for sponsored requests; pull *)
(* mode goes on to co-sign whenever the method has a signer.               *)
(***************************************************************************)
Refusal(k) ==
    CASE k.mode = "malformed" -> "invalid_payload"
      [] k.mode = "push" /\ k.request \in Sponsored -> "fee_sponsored_push"
      [] OTHER -> "none"

Begin(c, k) ==
    /\ pc[c] = "idle"
    /\ cred' = [cred EXCEPT ![c] = k]
    /\ prior' = [prior EXCEPT ![c] = {TxOf(d) : d \in {e \in Call : HasReceipt(e)}}]
    /\ pc' = [pc EXCEPT ![c] =
                 CASE Refusal(k) # "none" -> "done"
                   [] Refusal(k) = "none" /\ k.mode = "push" -> "get"
                   [] Refusal(k) = "none" /\ k.mode = "pull" ->
                        IF HasSigner[k.request] THEN "cosign" ELSE "simulate"]
    /\ reply' = [reply EXCEPT ![c] = Refusal(k)]
    /\ UNCHANGED <<Effects, crashes, faults>>

-----------------------------------------------------------------------------
(***************************************************************************)
(* Pull mode: co-sign, simulate, broadcast, wait, and only then verify.    *)
(***************************************************************************)
Cosign(c) ==
    /\ pc[c] = "cosign"
    /\ ServerKey[TxOf(c)] = "signer"
    /\ cosigned' = cosigned \cup {TxOf(c)}
    /\ Goto(c, "simulate")
    /\ NoFault
    /\ UNCHANGED <<ledger, store>>

CosignRefused(c) ==
    /\ pc[c] = "cosign"
    /\ ServerKey[TxOf(c)] # "signer"
    /\ Answer(c, "not_a_signer")
    /\ NoFault
    /\ UNCHANGED Effects

SimulatePass(c) ==
    /\ pc[c] = "simulate"
    /\ SimulationCanPass(TxOf(c))
    /\ Goto(c, "broadcast")
    /\ NoFault
    /\ UNCHANGED Effects

SimulateFail(c) ==
    /\ pc[c] = "simulate"
    /\ Answer(c, "simulation_failed")
    /\ NoFault
    /\ UNCHANGED Effects

FullySigned(t) == ServerKey[t] = "signer" => t \in cosigned

Broadcast(c) ==
    /\ pc[c] = "broadcast"
    /\ FullySigned(TxOf(c))
    /\ Submit(TxOf(c))
    /\ Goto(c, "poll")
    /\ NoFault
    /\ UNCHANGED <<store, cosigned>>

BroadcastRefused(c) ==
    /\ pc[c] = "broadcast"
    /\ Answer(c, "rpc_error")
    /\ NoFault
    /\ UNCHANGED Effects

\* The answer is lost, the node may have taken the transaction.
BroadcastFault(c) ==
    /\ pc[c] = "broadcast"
    /\ Fault
    /\ (FullySigned(TxOf(c)) /\ Submit(TxOf(c))) \/ UNCHANGED ledger
    /\ Answer(c, "rpc_error")
    /\ UNCHANGED <<store, cosigned>>

Polled(c) ==
    /\ pc[c] = "poll"
    /\ ledger[TxOf(c)] = "confirmed"
    /\ Goto(c, "fetch")
    /\ NoFault
    /\ UNCHANGED Effects

\* Mutant: the wait has no time limit.
PollFailedOnly(c) ==
    /\ pc[c] = "poll"
    /\ ledger[TxOf(c)] = "failed" /\ Answer(c, "failed")
    /\ NoFault
    /\ UNCHANGED Effects

\* Mutant: whoever gives up marks the signature on the way out.
PollEndsMarked(c) ==
    /\ pc[c] = "poll"
    /\ \/ ledger[TxOf(c)] \in {"pending", "failed"} /\ Answer(c, "failed")
       \/ ledger[TxOf(c)] # "failed" /\ Answer(c, "timeout")
    /\ store' = store \cup {TxOf(c)}
    /\ NoFault
    /\ UNCHANGED <<ledger, cosigned>>

\* The status shows an error, of a block that is not yet confirmed it may be,
\* or 30 seconds have passed, whatever the status is.
PollEnds(c) ==
    /\ pc[c] = "poll"
    /\ \/ ledger[TxOf(c)] \in {"pending", "failed"} /\ Answer(c, "failed")
       \/ ledger[TxOf(c)] # "failed" /\ Answer(c, "timeout")
    /\ NoFault
    /\ UNCHANGED Effects

(***************************************************************************)
(* Push mode: look the signature up in the store.                          *)
(***************************************************************************)
NotYetConsumed(c) ==
    /\ pc[c] = "get"
    /\ TxOf(c) \notin store
    /\ Goto(c, "fetch")
    /\ NoFault
    /\ UNCHANGED Effects

AlreadyConsumed(c) ==
    /\ pc[c] = "get"
    /\ TxOf(c) \in store
    /\ Answer(c, "signature_consumed")
    /\ NoFault
    /\ UNCHANGED Effects

(***************************************************************************)
(* Both modes: fetch the executed transaction, compare, mark consumed.     *)
(***************************************************************************)
\* Mutant: the transfers are not compared with the challenge.
FetchedUnchecked(c) ==
    /\ pc[c] = "fetch"
    /\ ledger[TxOf(c)] = "confirmed"
    /\ Goto(c, "put")
    /\ NoFault
    /\ UNCHANGED Effects

Fetched(c) ==
    /\ pc[c] = "fetch"
    /\ ledger[TxOf(c)] = "confirmed"
    /\ <<TxOf(c), cred[c].request>> \in ChainMatch
    /\ Goto(c, "put")
    /\ NoFault
    /\ UNCHANGED Effects

FetchRefused(c) ==
    /\ pc[c] = "fetch"
    /\ \/ FetchCanMiss(TxOf(c)) /\ Answer(c, "not_found")
       \/ ledger[TxOf(c)] = "failed" /\ Answer(c, "failed")
       \/ /\ ledger[TxOf(c)] = "confirmed"
          /\ <<TxOf(c), cred[c].request>> \notin ChainMatch
          /\ Answer(c, "mismatch")
    /\ NoFault
    /\ UNCHANGED Effects

\* Mutant: the key is not written.
PutNothing(c) ==
    /\ pc[c] = "put"
    /\ Goto(c, "respond")
    /\ NoFault
    /\ UNCHANGED Effects

\* store.put overwrites: it cannot tell that the key was there.
Put(c) ==
    /\ pc[c] = "put"
    /\ store' = store \cup {TxOf(c)}
    /\ Goto(c, "respond")
    /\ NoFault
    /\ UNCHANGED <<ledger, cosigned>>

\* Mutant: the reference is returned where the receipt is due.
RespondReference(c) ==
    /\ pc[c] = "respond"
    /\ Answer(c, TxOf(c))
    /\ NoFault
    /\ UNCHANGED Effects

Respond(c) ==
    /\ pc[c] = "respond"
    /\ Answer(c, "receipt")
    /\ NoFault
    /\ UNCHANGED Effects

-----------------------------------------------------------------------------
(***************************************************************************)
(* Failures and the rest of the world.                                     *)
(***************************************************************************)

\* The signer, or an RPC that only reads, throws.
CallFault(c) ==
    /\ pc[c] \in {"cosign", "simulate", "poll", "fetch"}
    /\ Fault
    /\ Answer(c, "rpc_error")
    /\ UNCHANGED Effects

\* store.get or store.put throws; put may have written the key.
StoreFault(c) ==
    /\ pc[c] \in {"get", "put"}
    /\ Fault
    /\ \/ UNCHANGED store
       \/ pc[c] = "put" /\ store' = store \cup {TxOf(c)}
    /\ Answer(c, "store_error")
    /\ UNCHANGED <<ledger, cosigned>>

\* The process dies and restarts; Store.memory() starts empty.
Crash ==
    /\ crashes < MaxCrashes
    /\ crashes' = crashes + 1
    /\ pc' = [c \in Call |-> IF pc[c] \in Running THEN "lost" ELSE pc[c]]
    /\ store' = IF Durable THEN store ELSE {}
    /\ UNCHANGED <<ledger, cred, reply, cosigned, prior, faults>>

Untouched == <<pc, cred, reply, store, cosigned, prior, crashes, faults>>

PayerSends(t) == FullySigned(t) /\ Submit(t) /\ UNCHANGED Untouched

Network(t) == Resolve(t) /\ UNCHANGED Untouched

-----------------------------------------------------------------------------
Step(c) ==
    \/ Cosign(c) \/ CosignRefused(c)
    \/ SimulatePass(c) \/ SimulateFail(c)
    \/ Broadcast(c) \/ BroadcastRefused(c)
    \/ Polled(c) \/ PollEnds(c)
    \/ NotYetConsumed(c) \/ AlreadyConsumed(c)
    \/ Fetched(c) \/ FetchRefused(c)
    \/ Put(c) \/ Respond(c)

Failure(c) == BroadcastFault(c) \/ CallFault(c) \/ StoreFault(c)

Next ==
    \/ \E c \in Call : \E k \in Presented[c] : Begin(c, k)
    \/ \E c \in Call : Step(c) \/ Failure(c)
    \/ \E t \in Tx : PayerSends(t) \/ Network(t)
    \/ Crash

Spec == Init /\ [][Next]_vars

\* Every promise an await waits for settles, and the cluster decides.
Fairness ==
    /\ \A c \in Call : WF_vars(Step(c))
    /\ \A t \in Tx : WF_vars(Network(t))

FairSpec == Spec /\ Fairness

-----------------------------------------------------------------------------
(***************************************************************************)
(* Types.                                                                  *)
(***************************************************************************)
TypeOK ==
    /\ LedgerType
    /\ pc \in [Call -> Phase]
    /\ cred \in [Call -> Credential \cup {NoCredential}]
    /\ reply \in [Call -> Reply]
    /\ store \subseteq Tx
    /\ cosigned \subseteq Tx
    /\ prior \in [Call -> SUBSET Tx]
    /\ crashes \in Nat
    /\ faults \in Nat

(***************************************************************************)
(* Safety.                                                                 *)
(***************************************************************************)

\* A receipt is for an executed transaction that moves what is asked, in pull
\* mode although the transaction is verified after it was broadcast.
ReceiptMeansPaid ==
    \A c \in Call : HasReceipt(c) =>
        /\ ledger[TxOf(c)] = "confirmed"
        /\ <<TxOf(c), cred[c].request>> \in ChainMatch

\* A signature buys at most one receipt ("Replay prevention: reject
\* already-consumed transaction signatures").
AtMostOneReceipt ==
    \A c, d \in Call :
        HasReceipt(c) /\ HasReceipt(d) /\ TxOf(c) = TxOf(d) => c = d

\* What the code achieves of it: a call that begins after a receipt was given
\* for a payment never gets another one for it.  A push call finds the key in
\* the store; a pull call, which does not look there, depends on the cluster
\* to refuse the second simulation.
ReplayRefused ==
    \A c \in Call : HasReceipt(c) => TxOf(c) \notin prior[c]

(***************************************************************************)
(* Liveness.                                                               *)
(***************************************************************************)

\* Every call ends: the wait for the confirmation is bounded.
EveryCallEnds ==
    \A c \in Call : pc[c] \in Running ~> pc[c] \in {"done", "lost"}

\* Once failures stop, a settled payment that no failure has used up buys a
\* receipt when its signature is presented: so a pull call that ran into the
\* confirmation timeout can be recovered in push mode, and push calls that
\* race for the payment do not all lose.
NoMoreFailures == faults = MaxFaults /\ crashes = MaxCrashes

\* Its signature is marked, and a call for it failed at the store or was lost.
UsedUp(t) ==
    /\ t \in store
    /\ \E d \in Call :
          /\ pc[d] # "idle" /\ TxOf(d) = t
          /\ pc[d] = "lost" \/ reply[d] = "store_error"

Claimed(t, c) ==
    /\ pc[c] \in {"get", "fetch", "put"} /\ TxOf(c) = t
    /\ <<t, cred[c].request>> \in ChainMatch

PaidIsServed ==
    \A t \in Tx :
        (/\ NoMoreFailures /\ ledger[t] = "confirmed" /\ ~UsedUp(t)
         /\ \E c \in Call : Claimed(t, c))
            ~> (\E d \in Call : HasReceipt(d) /\ TxOf(d) = t)
=============================================================================
