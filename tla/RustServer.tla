----------------------------- MODULE RustServer -----------------------------
(***************************************************************************)
(* The charge server of the Rust SDK (rust/src/server/mod.rs): challenges  *)
(* are issued statelessly, and each call of verify_credential runs through *)
(* the HMAC and expiry checks, the settlement in pull or push mode, and    *)
(* the replay store, one atomic step per await or blocking RPC.  Calls run *)
(* concurrently, the process may crash and restart, a call may be          *)
(* cancelled while it awaits, and every RPC and store operation may fail.  *)
(***************************************************************************)
EXTENDS SolanaNetwork

CONSTANTS
    Call,           \* calls of verify_credential[_with_expected]
    ChargeRequest,  \* charge requests (amount, currency, recipient, details)
    Headline,       \* [ChargeRequest -> what ..._with_expected compares]
    Sponsored,      \* the requests whose method details say feePayer: true
    RawMatch,       \* <<t, q>>: verify_transaction_pre_broadcast accepts
    ChainMatch,     \* <<t, q>>: the check of the on-chain transaction accepts
    ServerKey,      \* [Tx -> how the fee payer's key occurs in the message]
    HasSigner,      \* TRUE: Config.fee_payer_signer is set
    Durable,        \* TRUE: Config.store survives a restart of the process
    Lifetimes,      \* lifetimes a challenge is issued with
    Endpoints,      \* requests that ..._with_expected is called with
    Forged,         \* challenges a caller may present without their issue
    Unreadable,     \* an "expires" that is not an RFC 3339 timestamp
    NoExpectation,  \* the call is verify_credential, without expected request
    MaxTime, MaxIssued, MaxFaults, MaxCrashes   \* bounds of the model

ASSUME ServerAssumption ==
    /\ Headline \in [ChargeRequest -> ChargeRequest]
    /\ {Sponsored, Endpoints} \subseteq SUBSET ChargeRequest
    /\ RawMatch \subseteq ChainMatch
    /\ ChainMatch \subseteq Tx \X ChargeRequest
    /\ ServerKey \in [Tx -> {"absent", "signer", "account"}]
    /\ {HasSigner, Durable} \subseteq BOOLEAN
    /\ Lifetimes \subseteq Nat \cup {Unreadable}
    /\ Unreadable \notin Nat
    /\ Forged \subseteq [request : ChargeRequest, expires : Nat]
    /\ NoExpectation \notin ChargeRequest
    /\ {MaxTime, MaxIssued, MaxFaults, MaxCrashes} \subseteq Nat

VARIABLES
    now,       \* wall clock
    issued,    \* challenges whose id carries this server's HMAC
    pc,        \* pc[c]: where call c is
    cred,      \* cred[c]: the credential c was admitted with
    reply,     \* reply[c]: what the caller of c got
    store,     \* signatures s with the key "solana-charge:consumed:s"
    life,      \* life[c]: the server life in which c inserted its signature
    cosigned,  \* transactions the server signed as fee payer and let out
    sent,      \* transactions the server handed to the cluster
    crashes,   \* crashes so far: numbers the server's lives
    faults     \* failures of RPC, store and signer, and cancelled calls so far

vars == <<ledger, now, issued, pc, cred, reply, store, life, cosigned, sent,
          crashes, faults>>

Challenge == [request : ChargeRequest, expires : Nat \cup {Unreadable}]

Mode == {"pull", "push", "malformed"}

\* expected: the request of the endpoint, for verify_credential_with_expected.
Credential == [challenge : Challenge, mode : Mode, tx : Tx,
               expected : ChargeRequest \cup {NoExpectation}]

NoCredential == [mode |-> "none"]

\* The server's lives are numbered from 1.
NoLife == 0
ThisLife == crashes + 1

Running == {"cosign", "simulate", "send", "confirm", "fetch", "consume",
            "respond"}

Phase == Running \cup {"idle", "done", "lost"}

ErrorCode == {"credential_mismatch", "payment_expired", "invalid_expires",
              "invalid_payload", "verification_failed", "transaction_failed",
              "not_found", "network_error", "signer_error", "store_error",
              "signature_consumed"}

Reply == ErrorCode \cup {"none", "receipt"}

-----------------------------------------------------------------------------
(***************************************************************************)
(* The transaction and the charge request an admitted call is about.       *)
(***************************************************************************)
TxOf(c) == cred[c].tx
RequestOf(c) == cred[c].challenge.request

Init ==
    /\ LedgerInit
    /\ now = 0
    /\ issued = {}
    /\ pc = [c \in Call |-> "idle"]
    /\ cred = [c \in Call |-> NoCredential]
    /\ reply = [c \in Call |-> "none"]
    /\ store = {}
    /\ life = [c \in Call |-> NoLife]
    /\ cosigned = {}
    /\ sent = {}
    /\ crashes = 0
    /\ faults = 0

\* What a step of a call leaves alone unless the step says otherwise.
CallVars == <<pc, cred, reply>>
Outside == <<now, issued, crashes>>
Effects == <<ledger, store, life, cosigned, sent>>

Goto(c, phase) ==
    /\ pc' = [pc EXCEPT ![c] = phase]
    /\ UNCHANGED <<cred, reply, Outside>>

Answer(c, r) ==
    /\ pc' = [pc EXCEPT ![c] = "done"]
    /\ reply' = [reply EXCEPT ![c] = r]
    /\ UNCHANGED <<cred, Outside>>

Fault == faults < MaxFaults /\ faults' = faults + 1
NoFault == UNCHANGED faults

-----------------------------------------------------------------------------
(***************************************************************************)
(* Issuing a challenge keeps nothing on the server: issued is the set of   *)
(* challenges on which the HMAC check will succeed.                        *)
(***************************************************************************)
Issue(q, lifetime) ==
    /\ Cardinality(issued) < MaxIssued
    /\ issued' = issued \cup
         {[request |-> q,
           expires |-> IF lifetime = Unreadable THEN Unreadable
                       ELSE now + lifetime]}
    /\ UNCHANGED <<CallVars, Effects, now, crashes, faults>>

(***************************************************************************)
(* The start of a call, up to its first await or RPC.                      *)
(***************************************************************************)
Expected(k) ==
    k.expected # NoExpectation =>
        Headline[k.challenge.request] = Headline[k.expected]

Authentic(k) == k.challenge \in issued

Unexpired(k) ==
    k.challenge.expires # Unreadable /\ now < k.challenge.expires

Refuse(c, r) ==
    /\ pc[c] = "idle"
    /\ Answer(c, r)
    /\ UNCHANGED <<Effects, faults>>

RefuseMismatch(c, k) ==
    /\ ~(Expected(k) /\ Authentic(k))
    /\ Refuse(c, "credential_mismatch")

RefuseExpiry(c, k) ==
    /\ Expected(k) /\ Authentic(k) /\ ~Unexpired(k)
    /\ Refuse(c, IF k.challenge.expires = Unreadable THEN "invalid_expires"
                 ELSE "payment_expired")

RefusePayload(c, k) ==
    /\ Expected(k) /\ Authentic(k) /\ Unexpired(k)
    /\ k.mode = "malformed"
    /\ Refuse(c, "invalid_payload")

\* Pull mode verifies the transaction before it signs or sends anything.
RefuseTransaction(c, k) ==
    /\ Expected(k) /\ Authentic(k) /\ Unexpired(k)
    /\ k.mode = "pull"
    /\ <<k.tx, k.challenge.request>> \notin RawMatch
    /\ Refuse(c, "verification_failed")

\* Mutant: pull mode leaves the check to the time after confirmation.
AdmitUnverified(c, k) ==
    /\ pc[c] = "idle"
    /\ Expected(k) /\ Authentic(k) /\ Unexpired(k)
    /\ k.mode # "malformed"
    /\ cred' = [cred EXCEPT ![c] = k]
    /\ pc' = [pc EXCEPT ![c] = IF k.mode = "push" THEN "fetch" ELSE "simulate"]
    /\ UNCHANGED <<reply, Outside, Effects, faults>>

\* Mutant: whoever has a signer uses it, whatever the challenge offers.
AdmitToCosign(c, k) ==
    /\ pc[c] = "idle"
    /\ Expected(k) /\ Authentic(k) /\ Unexpired(k)
    /\ k.mode = "pull" /\ <<k.tx, k.challenge.request>> \in RawMatch
    /\ cred' = [cred EXCEPT ![c] = k]
    /\ pc' = [pc EXCEPT ![c] = "cosign"]
    /\ UNCHANGED <<reply, Outside, Effects, faults>>

\* Mutant: the signature is consumed when the call starts.
AdmitAndConsume(c, k) ==
    /\ pc[c] = "idle"
    /\ Expected(k) /\ Authentic(k) /\ Unexpired(k)
    /\ k.mode = "push"
    /\ cred' = [cred EXCEPT ![c] = k]
    /\ pc' = [pc EXCEPT ![c] = "fetch"]
    /\ store' = store \cup {k.tx}
    /\ UNCHANGED <<reply, Outside, ledger, life, cosigned, sent, faults>>

Admit(c, k) ==
    /\ pc[c] = "idle"
    /\ Expected(k) /\ Authentic(k) /\ Unexpired(k)
    /\ \/ k.mode = "push"
       \/ k.mode = "pull" /\ <<k.tx, k.challenge.request>> \in RawMatch
    /\ cred' = [cred EXCEPT ![c] = k]
    /\ pc' = [pc EXCEPT ![c] =
                 IF k.mode = "push" THEN "fetch"
                 ELSE IF k.challenge.request \in Sponsored THEN "cosign"
                 ELSE "simulate"]
    /\ UNCHANGED <<reply, Outside, Effects, faults>>

-----------------------------------------------------------------------------
(***************************************************************************)
(* Pull mode: co-sign, simulate, send and confirm.                         *)
(***************************************************************************)
CosignRefused(c) ==
    /\ pc[c] = "cosign"
    /\ \/ ~HasSigner /\ Answer(c, "signer_error")
       \/ /\ HasSigner /\ ServerKey[TxOf(c)] = "absent"
          /\ Answer(c, "invalid_payload")
    /\ NoFault
    /\ UNCHANGED Effects

\* tx.signatures[idx] is out of range when the key is not that of a signer:
\* the task of the call panics, its caller gets nothing.
CosignOutOfRange(c) ==
    /\ pc[c] = "cosign"
    /\ HasSigner /\ ServerKey[TxOf(c)] = "account"
    /\ Goto(c, "lost")
    /\ NoFault
    /\ UNCHANGED Effects

Cosign(c) ==
    /\ pc[c] = "cosign"
    /\ HasSigner /\ ServerKey[TxOf(c)] = "signer"
    /\ cosigned' = cosigned \cup {TxOf(c)}
    /\ Goto(c, "simulate")
    /\ NoFault
    /\ UNCHANGED <<ledger, store, life, sent>>

SignerFault(c) ==
    /\ pc[c] = "cosign" /\ HasSigner
    /\ Fault
    /\ Answer(c, "signer_error")
    /\ UNCHANGED Effects

SimulatePass(c) ==
    /\ pc[c] = "simulate"
    /\ SimulationCanPass(TxOf(c))
    /\ Goto(c, "send")
    /\ NoFault
    /\ UNCHANGED Effects

SimulateFail(c) ==
    /\ pc[c] = "simulate"
    /\ Answer(c, "transaction_failed")
    /\ NoFault
    /\ UNCHANGED Effects

\* The node wants every signature the message calls for.
FullySigned(t) == ServerKey[t] = "signer" => t \in cosigned

SendAccepted(c) ==
    /\ pc[c] = "send"
    /\ FullySigned(TxOf(c))
    /\ Submit(TxOf(c))
    /\ sent' = sent \cup {TxOf(c)}
    /\ Goto(c, "confirm")
    /\ NoFault
    /\ UNCHANGED <<store, life, cosigned>>

\* Signature check or preflight of the node fails.
SendRefused(c) ==
    /\ pc[c] = "send"
    /\ Answer(c, "network_error")
    /\ NoFault
    /\ UNCHANGED Effects

\* The answer to sendTransaction is lost: the node may have taken it.
SendFault(c) ==
    /\ pc[c] = "send"
    /\ Fault
    /\ \/ /\ FullySigned(TxOf(c)) /\ Submit(TxOf(c))
          /\ sent' = sent \cup {TxOf(c)}
       \/ UNCHANGED <<ledger, sent>>
    /\ Answer(c, "network_error")
    /\ UNCHANGED <<store, life, cosigned>>

\* Mutant: sendTransaction's acknowledgement counts as confirmation.
ConfirmedEarly(c) ==
    /\ pc[c] = "confirm"
    /\ ledger[TxOf(c)] \in {"pending", "confirmed"}
    /\ Goto(c, "consume")
    /\ NoFault
    /\ UNCHANGED Effects

Confirmed(c) ==
    /\ pc[c] = "confirm"
    /\ ledger[TxOf(c)] = "confirmed"
    /\ Goto(c, "consume")
    /\ NoFault
    /\ UNCHANGED Effects

\* Mutant: an expired blockhash does not end the wait.
WaitForever(c) ==
    /\ pc[c] = "confirm"
    /\ ledger[TxOf(c)] = "failed"
    /\ Answer(c, "network_error")
    /\ NoFault
    /\ UNCHANGED Effects

NotConfirmed(c) ==
    /\ pc[c] = "confirm"
    /\ ledger[TxOf(c)] \in {"failed", "expired"}
    /\ Answer(c, "network_error")
    /\ NoFault
    /\ UNCHANGED Effects

(***************************************************************************)
(* Push mode: fetch the executed transaction and check it.                 *)
(***************************************************************************)
FetchMiss(c) ==
    /\ pc[c] = "fetch"
    /\ FetchCanMiss(TxOf(c))
    /\ Answer(c, "not_found")
    /\ NoFault
    /\ UNCHANGED Effects

FetchRefused(c) ==
    /\ pc[c] = "fetch"
    /\ FetchCanFind(TxOf(c))
    /\ \/ /\ ledger[TxOf(c)] = "failed"
          /\ Answer(c, "transaction_failed")
       \/ /\ ledger[TxOf(c)] # "failed"
          /\ <<TxOf(c), RequestOf(c)>> \notin ChainMatch
          /\ Answer(c, "verification_failed")
    /\ NoFault
    /\ UNCHANGED Effects

Fetched(c) ==
    /\ pc[c] = "fetch"
    /\ FetchCanFind(TxOf(c))
    /\ ledger[TxOf(c)] # "failed"
    /\ <<TxOf(c), RequestOf(c)>> \in ChainMatch
    /\ Goto(c, "consume")
    /\ NoFault
    /\ UNCHANGED Effects

\* An RPC that only reads fails.
ReadFault(c) ==
    /\ pc[c] \in {"simulate", "confirm", "fetch"}
    /\ Fault
    /\ Answer(c, "network_error")
    /\ UNCHANGED Effects

-----------------------------------------------------------------------------
(***************************************************************************)
(* Replay protection: put_if_absent is one atomic step of the store.       *)
(***************************************************************************)
\* Mutant: put instead of put_if_absent.
InsertBlindly(c) ==
    /\ store' = store \cup {TxOf(c)}
    /\ life' = [life EXCEPT ![c] = ThisLife]

Insert(c) ==
    /\ TxOf(c) \notin store
    /\ store' = store \cup {TxOf(c)}
    /\ life' = [life EXCEPT ![c] = ThisLife]

Consume(c) ==
    /\ pc[c] = "consume"
    /\ Insert(c)
    /\ Goto(c, "respond")
    /\ NoFault
    /\ UNCHANGED <<ledger, cosigned, sent>>

AlreadyConsumed(c) ==
    /\ pc[c] = "consume"
    /\ TxOf(c) \in store
    /\ Answer(c, "signature_consumed")
    /\ NoFault
    /\ UNCHANGED Effects

\* Mutant: an error of the store is rolled back by deleting the key.
StoreRollback(c) ==
    /\ pc[c] = "consume"
    /\ Fault
    /\ store' = store \ {TxOf(c)}
    /\ Answer(c, "store_error")
    /\ UNCHANGED <<ledger, life, cosigned, sent>>

\* The store reports an error; a remote store may have done the insertion.
StoreFault(c) ==
    /\ pc[c] = "consume"
    /\ Fault
    /\ Insert(c) \/ UNCHANGED <<store, life>>
    /\ Answer(c, "store_error")
    /\ UNCHANGED <<ledger, cosigned, sent>>

\* Mutant: the reference is returned where the receipt is due.
RespondReference(c) ==
    /\ pc[c] = "respond"
    /\ Answer(c, TxOf(c))
    /\ NoFault
    /\ UNCHANGED Effects

\* Mutant: a call that sees another one at the store backs off.
RespondUncontended(c) ==
    /\ pc[c] = "respond"
    /\ Answer(c, IF \E d \in Call : pc[d] = "consume" /\ TxOf(d) = TxOf(c)
                 THEN "signature_consumed" ELSE "receipt")
    /\ NoFault
    /\ UNCHANGED Effects

Respond(c) ==
    /\ pc[c] = "respond"
    /\ Answer(c, "receipt")
    /\ NoFault
    /\ UNCHANGED Effects

-----------------------------------------------------------------------------
(***************************************************************************)
(* What happens to the server.                                             *)
(***************************************************************************)

\* The future of a call is dropped at an await (the caller hung up): of the
\* signer, or of the store before or after the insertion is done.
Cancel(c) ==
    /\ pc[c] \in {"cosign", "consume", "respond"}
    /\ Fault
    /\ Goto(c, "lost")
    /\ UNCHANGED Effects

\* The process dies and starts again; an in-memory store starts empty.
Crash ==
    /\ crashes < MaxCrashes
    /\ crashes' = crashes + 1
    /\ pc' = [c \in Call |-> IF pc[c] \in Running THEN "lost" ELSE pc[c]]
    /\ store' = IF Durable THEN store ELSE {}
    /\ UNCHANGED <<ledger, now, issued, cred, reply, life, cosigned, sent,
                   faults>>

Tick ==
    /\ now < MaxTime
    /\ now' = now + 1
    /\ UNCHANGED <<CallVars, Effects, issued, crashes, faults>>

(***************************************************************************)
(* What happens to the transactions outside of the server.                 *)
(***************************************************************************)
Untouched == <<CallVars, Outside, faults, store, life, cosigned, sent>>

\* Push mode: the payer sends the transaction itself.
PayerSends(t) == FullySigned(t) /\ Submit(t) /\ UNCHANGED Untouched

Network(t) == Resolve(t) /\ UNCHANGED Untouched

-----------------------------------------------------------------------------
Begin(c, k) ==
    \/ RefuseMismatch(c, k)
    \/ RefuseExpiry(c, k)
    \/ RefusePayload(c, k)
    \/ RefuseTransaction(c, k)
    \/ Admit(c, k)

\* A step the server takes by itself once its callee has answered.
Step(c) ==
    \/ CosignRefused(c) \/ CosignOutOfRange(c) \/ Cosign(c)
    \/ SimulatePass(c) \/ SimulateFail(c)
    \/ SendAccepted(c) \/ SendRefused(c)
    \/ Confirmed(c) \/ NotConfirmed(c)
    \/ FetchMiss(c) \/ FetchRefused(c) \/ Fetched(c)
    \/ Consume(c) \/ AlreadyConsumed(c) \/ Respond(c)

Failure(c) ==
    SignerFault(c) \/ SendFault(c) \/ ReadFault(c) \/ StoreFault(c) \/ Cancel(c)

\* The credentials that can arrive: for a challenge that was issued or not.
Presentable == [challenge : issued \cup Forged, mode : Mode, tx : Tx,
                expected : Endpoints \cup {NoExpectation}]

Next ==
    \/ \E q \in ChargeRequest, l \in Lifetimes : Issue(q, l)
    \/ \E c \in Call, k \in Presentable : Begin(c, k)
    \/ \E c \in Call : Step(c) \/ Failure(c)
    \/ \E t \in Tx : PayerSends(t) \/ Network(t)
    \/ Crash
    \/ Tick

Spec == Init /\ [][Next]_vars

\* The executor polls a task that is ready, and the cluster decides: a
\* transaction is executed or its blockhash expires.
Fairness ==
    /\ \A c \in Call : WF_vars(Step(c))
    /\ \A t \in Tx : WF_vars(Network(t))

FairSpec == Spec /\ Fairness

-----------------------------------------------------------------------------
(***************************************************************************)
(* Types.                                                                  *)
(***************************************************************************)
TypeOK ==
    /\ LedgerType
    /\ now \in Nat
    /\ issued \subseteq Challenge
    /\ pc \in [Call -> Phase]
    /\ cred \in [Call -> Credential \cup {NoCredential}]
    /\ reply \in [Call -> Reply]
    /\ store \subseteq Tx
    /\ life \in [Call -> Nat]
    /\ cosigned \subseteq Tx
    /\ sent \subseteq Tx
    /\ crashes \in Nat
    /\ faults \in Nat

(***************************************************************************)
(* Safety.                                                                 *)
(***************************************************************************)

HasReceipt(c) == reply[c] = "receipt"

\* The lives c and d ran in share what the store holds.
SameMemory(c, d) == Durable \/ life[c] = life[d]

\* A transaction signature buys at most one receipt, however calls interleave
\* in pull and push mode: put_if_absent decides between the calls that have
\* all found it settled.  An in-memory store forgets with its process, so
\* there the promise is one receipt per life of the server.
AtMostOneReceipt ==
    \A c, d \in Call :
        /\ HasReceipt(c) /\ HasReceipt(d) /\ c # d
        /\ TxOf(c) = TxOf(d)
        => ~SameMemory(c, d)

\* A receipt is for a transaction that is executed on chain, that moves what
\* the challenge asks, and the challenge is one this server issued.  Pull
\* mode relies on a check made before sending and never looks again.
ReceiptMeansPaid ==
    \A c \in Call : HasReceipt(c) =>
        /\ ledger[TxOf(c)] = "confirmed"
        /\ <<TxOf(c), RequestOf(c)>> \in ChainMatch
        /\ cred[c].challenge \in issued

\* A call for an endpoint is served only for a payment of what that endpoint
\* expects (doc comment of verify_credential_with_expected).
ExpectedIsPaid ==
    \A c \in Call :
        HasReceipt(c) /\ cred[c].expected # NoExpectation
            => <<TxOf(c), cred[c].expected>> \in ChainMatch

\* The server lets no transaction out, signed or sent, that it has not found
\* to pay a challenge it issued: an invalid credential moves no funds.
OnlyVerifiedLeaves ==
    \A t \in sent \cup cosigned :
        \E k \in issued : <<t, k.request>> \in RawMatch

\* The fee payer's signature is only on transactions that pay a challenge
\* which offers to pay the fee, and nothing unsigned by it is on its way.
OnlySponsoredCosigned ==
    /\ \A t \in cosigned :
          \E k \in issued : k.request \in Sponsored /\ <<t, k.request>> \in RawMatch
    /\ \A t \in Tx :
          ledger[t] \in {"pending", "confirmed", "failed"} => FullySigned(t)

\* Nobody is told "signature consumed" for a payment that nothing was given
\* for: another call has inserted the signature, after it saw it settled.
RefusalIsJust ==
    \A c \in Call : reply[c] = "signature_consumed" =>
        \E d \in Call \ {c} :
            /\ life[d] # NoLife /\ TxOf(d) = TxOf(c)
            /\ ledger[TxOf(d)] = "confirmed"
            /\ HasReceipt(d) \/ pc[d] \in {"respond", "lost"}
                            \/ reply[d] = "store_error"

(***************************************************************************)
(* Action property: what is consumed stays consumed, except when a process *)
(* with an in-memory store restarts, and a signature only enters the store *)
(* once its transaction is executed.                                       *)
(***************************************************************************)
ConsumedIsFinal ==
    [][ /\ Durable \/ crashes' = crashes => store \subseteq store'
        /\ \A t \in store' \ store : ledger[t] = "confirmed" ]_vars

(***************************************************************************)
(* Liveness.                                                               *)
(***************************************************************************)

\* Every call ends: no wait for a confirmation outlasts the blockhash.
EveryCallEnds ==
    \A c \in Call : pc[c] \in Running ~> pc[c] \in {"done", "lost"}

\* Once failures stop, a settled payment that no failure has used up buys a
\* receipt as soon as a call asks the chain about it: several calls racing for
\* it do not all lose, and a payment whose first call was lost (a crash, an
\* RPC error after the broadcast) is recovered by presenting its signature.
NoMoreFailures == faults = MaxFaults /\ crashes = MaxCrashes

\* Its signature was inserted by a call that failed before its answer.
UsedUp(t) ==
    /\ t \in store
    /\ \E d \in Call :
          /\ life[d] # NoLife /\ TxOf(d) = t
          /\ pc[d] = "lost" \/ reply[d] = "store_error"

Claimed(t, c) ==
    /\ pc[c] \in {"confirm", "fetch", "consume"} /\ TxOf(c) = t
    /\ <<t, RequestOf(c)>> \in ChainMatch

PaidIsServed ==
    \A t \in Tx :
        (/\ NoMoreFailures /\ ledger[t] = "confirmed" /\ ~UsedUp(t)
         /\ \E c \in Call : Claimed(t, c))
            ~> (\E d \in Call : HasReceipt(d) /\ TxOf(d) = t)

(***************************************************************************)
(* The promise this server implements.                                     *)
(***************************************************************************)
Settled == {t \in Tx : ledger[t] = "confirmed"}

NoService == [tx |-> "none"]

Served ==
    [c \in Call |->
        IF HasReceipt(c) THEN [tx |-> TxOf(c), request |-> RequestOf(c)]
        ELSE NoService]

Remembered ==
    {t \in Tx : \E c \in Call :
        HasReceipt(c) /\ TxOf(c) = t /\ (Durable \/ life[c] = ThisLife)}

Promise ==
    INSTANCE ChargePromise WITH
        Pays <- ChainMatch, NotServed <- NoService,
        settled <- Settled, served <- Served, memory <- Remembered

ImplementsPromise == Promise!Spec
=============================================================================
