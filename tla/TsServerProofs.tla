--------------------------- MODULE TsServerProofs ---------------------------
(***************************************************************************)
(* Theorems about TsServer, for every set of calls, transactions and       *)
(* requests, every matching relation and every bound.                      *)
(***************************************************************************)
EXTENDS TsServer, TLAPS

-----------------------------------------------------------------------------
(***************************************************************************)
(* The inductive invariant: what is known of a call.                       *)
(***************************************************************************)

\* c has compared its payment with the challenge.
Verified(c) == pc[c] \in {"put", "respond"} \/ HasReceipt(c)

\* c has passed what tells it that its payment may still be used: the look-up
\* of its signature, or the simulation.
PastGuard(c) == pc[c] \in {"broadcast", "poll", "fetch"} \/ Verified(c)

CallInv(c) ==
    /\ pc[c] \in Running \/ HasReceipt(c) => cred[c] \in Credential
    /\ HasReceipt(c) => pc[c] = "done"
    /\ Verified(c) => /\ ledger[TxOf(c)] = "confirmed"
                      /\ <<TxOf(c), cred[c].request>> \in ChainMatch
    /\ Durable /\ (pc[c] = "respond" \/ HasReceipt(c)) => TxOf(c) \in store
    /\ Durable => \A t \in prior[c] : ledger[t] = "confirmed" /\ t \in store
    /\ Durable /\ ~Lagging /\ PastGuard(c) => TxOf(c) \notin prior[c]

Inv == TypeOK /\ \A c \in Call : CallInv(c)

-----------------------------------------------------------------------------
(***************************************************************************)
(* Lemmas about parts of a step.                                           *)
(***************************************************************************)

\* What has been executed stays executed.
LEMMA ConfirmedStays ==
    ASSUME LedgerType, NEW s \in Tx, Submit(s) \/ Resolve(s)
    PROVE  /\ LedgerType'
           /\ \A t \in Tx : ledger[t] = "confirmed" => ledger'[t] = "confirmed"
BY DEF LedgerType, TxStatus, Submit, Resolve, Confirm, Fail, Expire

\* What is known of a call survives the steps of everything else.
LEMMA Bystander ==
    ASSUME TypeOK, NEW d \in Call, CallInv(d),
           pc'[d] = pc[d], cred'[d] = cred[d], reply'[d] = reply[d],
           prior'[d] = prior[d],
           Durable => store \subseteq store',
           \A t \in Tx : ledger[t] = "confirmed" => ledger'[t] = "confirmed"
    PROVE  CallInv(d)'
<1>1. Verified(d) => TxOf(d) \in Tx
  BY DEF CallInv, Verified, Running, Credential, TxOf
<1>2. prior[d] \subseteq Tx
  BY DEF TypeOK
<1> QED
  BY <1>1, <1>2 DEF CallInv, Verified, PastGuard, TxOf, HasReceipt

\* A running call has a transaction.
LEMMA RunningType ==
    ASSUME NEW c \in Call, CallInv(c), pc[c] \in Running
    PROVE  TxOf(c) \in Tx /\ cred[c].request \in ChargeRequest
BY DEF CallInv, Credential, TxOf

\* A call goes on; what its next phase has to know holds.
LEMMA MoveKeepsInv ==
    ASSUME Inv, NEW c \in Call, NEW phase \in Running,
           pc[c] \in Running, Goto(c, phase),
           faults' \in Nat, cosigned' \subseteq Tx, store' \subseteq Tx, LedgerType',
           store \subseteq store',
           \A t \in Tx : ledger[t] = "confirmed" => ledger'[t] = "confirmed",
           phase \in {"put", "respond"}
             => /\ ledger[TxOf(c)] = "confirmed"
                /\ <<TxOf(c), cred[c].request>> \in ChainMatch,
           phase = "respond" => TxOf(c) \in store',
           Durable /\ ~Lagging /\ phase \in {"broadcast", "poll", "fetch", "put", "respond"}
             => TxOf(c) \notin prior[c]
    PROVE  Inv'
<1> USE DEF Goto
<1>1. TypeOK'
  BY DEF Inv, TypeOK, Phase
<1>2. CallInv(c)'
  <2>1. TxOf(c) \in Tx /\ prior[c] \subseteq Tx
    BY RunningType DEF Inv, TypeOK
  <2>2. ~HasReceipt(c)
    BY DEF Inv, CallInv, Running
  <2> QED
    BY <2>1, <2>2 DEF Inv, TypeOK, CallInv, Verified, PastGuard, TxOf, HasReceipt, Running
<1>3. ASSUME NEW d \in Call \ {c} PROVE CallInv(d)'
  BY <1>3, Bystander DEF Inv, TypeOK
<1> QED
  BY <1>1, <1>2, <1>3 DEF Inv

\* A call fails, whatever it may have sent or marked before.
LEMMA FailKeepsInv ==
    ASSUME Inv, NEW c \in Call, NEW r \in ErrorCode,
           pc[c] \in Running, Answer(c, r),
           faults' \in Nat, cosigned' \subseteq Tx, store' \subseteq Tx, LedgerType',
           store \subseteq store',
           \A t \in Tx : ledger[t] = "confirmed" => ledger'[t] = "confirmed"
    PROVE  Inv'
<1> USE DEF Answer
<1>1. TypeOK'
  BY DEF Inv, TypeOK, Phase, Reply
<1>2. CallInv(c)'
  <2>1. prior[c] \subseteq Tx
    BY DEF Inv, TypeOK
  <2> QED
    BY <2>1 DEF Inv, TypeOK, CallInv, Verified, PastGuard, TxOf, HasReceipt, Running,
                ErrorCode
<1>3. ASSUME NEW d \in Call \ {c} PROVE CallInv(d)'
  BY <1>3, Bystander DEF Inv, TypeOK
<1> QED
  BY <1>1, <1>2, <1>3 DEF Inv

-----------------------------------------------------------------------------
(***************************************************************************)
(* The steps that do more, one lemma each.                                 *)
(***************************************************************************)

\* A call that begins remembers the receipts there are: their payments are
\* executed and, in a durable store, marked.
LEMMA BeginKeepsInv ==
    ASSUME Inv, NEW c \in Call, NEW k \in Credential, Begin(c, k)
    PROVE  Inv'
<1> DEFINE paid == {TxOf(d) : d \in {e \in Call : HasReceipt(e)}}
<1>1. \A t \in paid : t \in Tx /\ ledger[t] = "confirmed" /\ (Durable => t \in store)
  <2> SUFFICES ASSUME NEW d \in Call, HasReceipt(d)
               PROVE  /\ TxOf(d) \in Tx /\ ledger[TxOf(d)] = "confirmed"
                      /\ Durable => TxOf(d) \in store
    OBVIOUS
  <2>1. CallInv(d) /\ Verified(d)
    BY DEF Inv, Verified
  <2> QED
    BY <2>1 DEF CallInv, Credential, TxOf
<1>2. Refusal(k) \in ErrorCode \cup {"none"}
  BY DEF Refusal, ErrorCode
<1>3. pc'[c] \in {"done", "get", "cosign", "simulate"}
  BY DEF Begin, Refusal, Credential, Inv, TypeOK
<1>4. TypeOK'
  <2>1. prior' \in [Call -> SUBSET Tx]
    <3>1. paid \subseteq Tx
      BY <1>1
    <3> QED
      BY <3>1 DEF Inv, TypeOK, Begin
  <2>2. pc' \in [Call -> Phase]
    <3>1. pc'[c] \in Phase
      BY <1>3 DEF Phase, Running
    <3> QED
      BY <3>1 DEF Begin, Inv, TypeOK
  <2>3. cred' \in [Call -> Credential \cup {NoCredential}]
    BY DEF Begin, Inv, TypeOK
  <2>4. reply' \in [Call -> Reply]
    BY <1>2 DEF Begin, Inv, TypeOK, Reply
  <2> QED
    BY <2>1, <2>2, <2>3, <2>4 DEF Begin, Effects, Inv, TypeOK, LedgerType
<1>5. CallInv(c)'
  <2>1. prior'[c] = paid /\ cred'[c] = k /\ reply'[c] = Refusal(k)
    BY DEF Begin, Inv, TypeOK
  <2>2. ~HasReceipt(c)'
    BY <2>1, <1>2 DEF HasReceipt, ErrorCode
  <2>3. ~PastGuard(c)' /\ ~Verified(c)' /\ (pc[c] # "respond")'
    BY <1>3, <2>2 DEF PastGuard, Verified
  <2>4. UNCHANGED <<ledger, store>>
    BY DEF Begin, Effects
  <2> QED
    BY <1>1, <2>1, <2>2, <2>3, <2>4 DEF CallInv
<1>6. ASSUME NEW d \in Call \ {c} PROVE CallInv(d)'
  BY <1>6, Bystander DEF Begin, Effects, Inv, TypeOK
<1> QED
  BY <1>4, <1>5, <1>6 DEF Inv

\* The receipt is given for what has been verified and marked.
LEMMA RespondKeepsInv ==
    ASSUME Inv, NEW c \in Call, Respond(c)
    PROVE  Inv'
<1> USE DEF Respond, Answer, Effects, NoFault
<1>1. TypeOK'
  BY DEF Inv, TypeOK, LedgerType, Phase, Reply
<1>2. CallInv(c)'
  BY DEF Inv, TypeOK, CallInv, Verified, PastGuard, TxOf, HasReceipt, Running
<1>3. ASSUME NEW d \in Call \ {c} PROVE CallInv(d)'
  BY <1>3, Bystander DEF Inv, TypeOK
<1> QED
  BY <1>1, <1>2, <1>3 DEF Inv

\* Running calls are lost, and the content of a store in memory.
LEMMA CrashKeepsInv ==
    ASSUME Inv, Crash
    PROVE  Inv'
<1> USE DEF Crash
<1>1. TypeOK'
  BY DEF Inv, TypeOK, LedgerType, Phase
<1>2. ASSUME NEW c \in Call PROVE CallInv(c)'
  <2>1. CASE pc[c] \in Running
    <3>1. pc'[c] = "lost" /\ ~HasReceipt(c)'
      BY <2>1 DEF Inv, TypeOK, CallInv, HasReceipt, Running
    <3> QED
      BY <3>1 DEF Inv, TypeOK, CallInv, Verified, PastGuard, Running
  <2>2. CASE pc[c] \notin Running
    <3>1. pc'[c] = pc[c]
      BY <2>2 DEF Inv, TypeOK
    <3>2. Durable => store \subseteq store'
      OBVIOUS
    <3> QED
      BY <3>1, <3>2, Bystander DEF Inv
  <2> QED
    BY <2>1, <2>2
<1> QED
  BY <1>1, <1>2 DEF Inv

-----------------------------------------------------------------------------
(***************************************************************************)
(* The steps of a running call.                                            *)
(***************************************************************************)
LEMMA StepKeepsInv ==
    ASSUME Inv, NEW c \in Call, Step(c)
    PROVE  Inv'
<1> USE DEF Effects, NoFault
<1> LedgerType /\ store \subseteq Tx /\ cosigned \subseteq Tx /\ faults \in Nat
    /\ CallInv(c)
  BY DEF Inv, TypeOK
<1> pc[c] \in Running => TxOf(c) \in Tx
  BY RunningType
<1>1. CASE Cosign(c)
  BY <1>1, MoveKeepsInv DEF Cosign, Running, LedgerType
<1>2. CASE CosignRefused(c)
  BY <1>2, FailKeepsInv DEF CosignRefused, Running, ErrorCode, LedgerType
<1>3. CASE SimulatePass(c)
  \* A payment in prior[c] is executed, and an exact node would say so.
  <2>1. Durable /\ ~Lagging => TxOf(c) \notin prior[c]
    BY <1>3 DEF SimulatePass, SimulationCanPass, CallInv
  <2> QED
    BY <1>3, <2>1, MoveKeepsInv DEF SimulatePass, Running, LedgerType
<1>4. CASE SimulateFail(c)
  BY <1>4, FailKeepsInv DEF SimulateFail, Running, ErrorCode, LedgerType
<1>5. CASE Broadcast(c)
  <2>1. pc[c] = "broadcast" /\ Submit(TxOf(c)) /\ Goto(c, "poll")
        /\ UNCHANGED <<store, cosigned, faults>>
    BY <1>5 DEF Broadcast
  <2>2. TxOf(c) \in Tx
    BY <2>1 DEF Running
  <2>3. Durable /\ ~Lagging => TxOf(c) \notin prior[c]
    BY <2>1 DEF CallInv, PastGuard
  <2> QED
    BY <2>1, <2>2, <2>3, ConfirmedStays, MoveKeepsInv DEF Running
<1>6. CASE BroadcastRefused(c)
  BY <1>6, FailKeepsInv DEF BroadcastRefused, Running, ErrorCode, LedgerType
<1>7. CASE Polled(c)
  <2>1. Durable /\ ~Lagging => TxOf(c) \notin prior[c]
    BY <1>7 DEF Polled, CallInv, PastGuard
  <2> QED
    BY <1>7, <2>1, MoveKeepsInv DEF Polled, Running, LedgerType
<1>8. CASE PollEnds(c)
  BY <1>8, FailKeepsInv DEF PollEnds, Running, ErrorCode, LedgerType
<1>9. CASE NotYetConsumed(c)
  \* A payment in prior[c] is in the store.
  <2>1. Durable /\ ~Lagging => TxOf(c) \notin prior[c]
    BY <1>9 DEF NotYetConsumed, CallInv
  <2> QED
    BY <1>9, <2>1, MoveKeepsInv DEF NotYetConsumed, Running, LedgerType
<1>10. CASE AlreadyConsumed(c)
  BY <1>10, FailKeepsInv DEF AlreadyConsumed, Running, ErrorCode, LedgerType
<1>11. CASE Fetched(c)
  <2>1. Durable /\ ~Lagging => TxOf(c) \notin prior[c]
    BY <1>11 DEF Fetched, CallInv, PastGuard
  <2> QED
    BY <1>11, <2>1, MoveKeepsInv DEF Fetched, Running, LedgerType
<1>12. CASE FetchRefused(c)
  BY <1>12, FailKeepsInv DEF FetchRefused, Running, ErrorCode, LedgerType
<1>13. CASE Put(c)
  <2>1. pc[c] = "put" /\ Goto(c, "respond") /\ store' = store \cup {TxOf(c)}
        /\ UNCHANGED <<ledger, cosigned, faults>>
    BY <1>13 DEF Put
  <2>2. Verified(c) /\ PastGuard(c) /\ TxOf(c) \in Tx
    BY <2>1 DEF Verified, PastGuard, Running
  <2>3. /\ ledger[TxOf(c)] = "confirmed"
        /\ <<TxOf(c), cred[c].request>> \in ChainMatch
        /\ Durable /\ ~Lagging => TxOf(c) \notin prior[c]
    BY <2>2 DEF CallInv
  <2> QED
    BY <2>1, <2>2, <2>3, MoveKeepsInv DEF Running, LedgerType
<1>14. CASE Respond(c)
  BY <1>14, RespondKeepsInv
<1> QED
  BY <1>1, <1>2, <1>3, <1>4, <1>5, <1>6, <1>7, <1>8, <1>9, <1>10, <1>11, <1>12,
     <1>13, <1>14 DEF Step

LEMMA FailureKeepsInv ==
    ASSUME Inv, NEW c \in Call, Failure(c)
    PROVE  Inv'
<1> LedgerType /\ store \subseteq Tx /\ cosigned \subseteq Tx /\ faults \in Nat
    /\ CallInv(c)
  BY DEF Inv, TypeOK
<1> pc[c] \in Running => TxOf(c) \in Tx
  BY RunningType
<1> SUFFICES ASSUME Fault PROVE Inv'
  BY DEF Failure, BroadcastFault, CallFault, StoreFault
<1>0. faults' \in Nat
  BY DEF Fault
<1>1. CASE BroadcastFault(c)
  <2>1. /\ pc[c] = "broadcast" /\ Answer(c, "rpc_error")
        /\ UNCHANGED <<store, cosigned>>
        /\ Submit(TxOf(c)) \/ UNCHANGED ledger
    BY <1>1 DEF BroadcastFault
  <2>2. LedgerType'
        /\ \A t \in Tx : ledger[t] = "confirmed" => ledger'[t] = "confirmed"
    BY <2>1, ConfirmedStays DEF Running, LedgerType
  <2> QED
    BY <1>0, <2>1, <2>2, FailKeepsInv DEF Running, ErrorCode
<1>2. CASE CallFault(c)
  BY <1>0, <1>2, FailKeepsInv DEF CallFault, Effects, Running, ErrorCode, LedgerType
<1>3. CASE StoreFault(c)
  <2>1. /\ pc[c] \in Running /\ Answer(c, "store_error")
        /\ store' \in {store, store \cup {TxOf(c)}}
        /\ UNCHANGED <<ledger, cosigned>>
    BY <1>3 DEF StoreFault, Running
  <2> QED
    BY <1>0, <2>1, FailKeepsInv DEF ErrorCode, LedgerType
<1> QED
  BY <1>1, <1>2, <1>3 DEF Failure

-----------------------------------------------------------------------------
(***************************************************************************)
(* The theorems.                                                           *)
(***************************************************************************)
LEMMA InitInv == Init => Inv
BY DEF Init, LedgerInit, Inv, TypeOK, LedgerType, TxStatus, Phase, Reply,
       CallInv, Verified, PastGuard, HasReceipt, Running

\* What a call is called with is a credential.
LEMMA PresentedIsCredential == \A c \in Call : Presented[c] \subseteq Credential
BY ServerAssumption

LEMMA NextInv == Inv /\ [Next]_vars => Inv'
<1> SUFFICES ASSUME Inv, [Next]_vars PROVE Inv'
  OBVIOUS
<1>1. ASSUME NEW c \in Call, NEW k \in Credential, Begin(c, k) PROVE Inv'
  BY <1>1, BeginKeepsInv
<1>2. ASSUME NEW c \in Call, Step(c) PROVE Inv'
  BY <1>2, StepKeepsInv
<1>3. ASSUME NEW c \in Call, Failure(c) PROVE Inv'
  BY <1>3, FailureKeepsInv
<1>4. ASSUME NEW t \in Tx, Submit(t) \/ Resolve(t), UNCHANGED Untouched PROVE Inv'
  <2> USE DEF Untouched
  <2>1. LedgerType'
        /\ \A s \in Tx : ledger[s] = "confirmed" => ledger'[s] = "confirmed"
    BY <1>4, ConfirmedStays DEF Inv, TypeOK
  <2>2. TypeOK'
    BY <1>4, <2>1 DEF Inv, TypeOK
  <2>3. ASSUME NEW c \in Call PROVE CallInv(c)'
    BY <1>4, <2>1, Bystander DEF Inv
  <2> QED
    BY <2>2, <2>3 DEF Inv
<1>5. CASE Crash
  BY <1>5, CrashKeepsInv
<1>6. CASE UNCHANGED vars
  <2>1. TypeOK'
    BY <1>6 DEF vars, Inv, TypeOK, LedgerType
  <2>2. ASSUME NEW c \in Call PROVE CallInv(c)'
    BY <1>6, Bystander DEF vars, Inv
  <2> QED
    BY <2>1, <2>2 DEF Inv
<1> QED
  BY <1>1, <1>2, <1>3, <1>4, <1>5, <1>6, PresentedIsCredential
     DEF Next, PayerSends, Network

\* The invariant holds in every state of every behaviour.
THEOREM Invariance == Spec => []Inv
BY InitInv, NextInv, PTL DEF Spec

\* The state keeps its types.
THEOREM TypeCorrectness == Spec => []TypeOK
<1>1. Inv => TypeOK
  BY DEF Inv
<1> QED
  BY <1>1, Invariance, PTL

\* A receipt is for an executed transaction that moves what the challenge
\* asks, although pull mode broadcasts before it compares.
THEOREM ReceiptsArePaid == Spec => []ReceiptMeansPaid
<1>1. Inv => ReceiptMeansPaid
  BY DEF Inv, CallInv, Verified, ReceiptMeansPaid
<1> QED
  BY <1>1, Invariance, PTL

\* With a store that outlives the process and nodes that simulate against the
\* state of the cluster, no call that begins after a receipt was given for a
\* payment gets another one for it.
THEOREM LateReplayIsRefused ==
    ASSUME Durable, ~Lagging
    PROVE  Spec => []ReplayRefused
<1>1. Inv => ReplayRefused
  BY DEF Inv, CallInv, Verified, PastGuard, ReplayRefused
<1> QED
  BY <1>1, Invariance, PTL

-----------------------------------------------------------------------------
(***************************************************************************)
(* Calls that take turns.  The look-up and the mark are two operations of  *)
(* the store, so that AtMostOneReceipt is false of calls that overlap (the *)
(* run ts_race).  Nothing else is wrong with it: it holds as long as the   *)
(* calls about one payment do not overlap, however many there are, and     *)
(* whatever fails.                                                         *)
(***************************************************************************)
TakeTurns ==
    \A c, d \in Call : c # d /\ {pc[c], pc[d]} \subseteq Running => TxOf(c) # TxOf(d)

\* Of two calls that were, or may yet be, served with one payment, one began
\* after the other's receipt.
InOrder(c, d) ==
    HasReceipt(c) /\ (pc[d] \in Running \/ HasReceipt(d)) /\ TxOf(c) = TxOf(d)
        => TxOf(c) \in prior[d] \/ (HasReceipt(d) /\ TxOf(d) \in prior[c])

OrderInv == \A c, d \in Call : c # d => InOrder(c, d)

\* A step without a new call and a new receipt leaves the order alone.
LEMMA OthersKeepOrder ==
    ASSUME OrderInv, UNCHANGED <<cred, prior>>,
           \A c \in Call : HasReceipt(c)' <=> HasReceipt(c),
           \A c \in Call : pc'[c] \in Running => pc[c] \in Running
    PROVE  OrderInv'
<1> SUFFICES ASSUME NEW c \in Call, NEW d \in Call, c # d PROVE InOrder(c, d)'
  BY DEF OrderInv
<1>1. InOrder(c, d)
  BY DEF OrderInv
<1>2. TxOf(c)' = TxOf(c) /\ TxOf(d)' = TxOf(d) /\ prior' = prior
  BY DEF TxOf
<1>3. HasReceipt(c)' = HasReceipt(c) /\ HasReceipt(d)' = HasReceipt(d)
  BY DEF HasReceipt
<1> QED
  BY <1>1, <1>2, <1>3 DEF InOrder

\* A call that begins knows of every receipt there is.
LEMMA BeginKeepsOrder ==
    ASSUME Inv, OrderInv, NEW b \in Call, NEW k \in Credential, Begin(b, k)
    PROVE  OrderInv'
<1> SUFFICES ASSUME NEW c \in Call, NEW d \in Call, c # d PROVE InOrder(c, d)'
  BY DEF OrderInv
<1>1. ~HasReceipt(b)'
  <2>1. Refusal(k) # "receipt"
    BY DEF Refusal
  <2> QED
    BY <2>1 DEF Begin, Inv, TypeOK, HasReceipt
<1>2. CASE d = b
  <2>1. prior'[d] = {TxOf(e) : e \in {a \in Call : HasReceipt(a)}}
    BY <1>2 DEF Begin, Inv, TypeOK
  <2>2. cred'[c] = cred[c] /\ reply'[c] = reply[c]
    BY <1>2 DEF Begin, Inv, TypeOK
  <2> QED
    BY <2>1, <2>2 DEF InOrder, HasReceipt, TxOf
<1>3. CASE c = b
  BY <1>1, <1>3 DEF InOrder
<1>4. CASE c # b /\ d # b
  <2>1. /\ cred'[c] = cred[c] /\ reply'[c] = reply[c] /\ prior'[c] = prior[c]
        /\ cred'[d] = cred[d] /\ reply'[d] = reply[d] /\ prior'[d] = prior[d]
        /\ pc'[d] = pc[d]
    BY <1>4 DEF Begin, Inv, TypeOK
  <2> QED
    BY <2>1 DEF OrderInv, InOrder, HasReceipt, TxOf
<1> QED
  BY <1>2, <1>3, <1>4

\* A receipt is given while no other call about its payment is running, and
\* those that had one had it when this call began.
LEMMA RespondKeepsOrder ==
    ASSUME Inv, OrderInv, TakeTurns, NEW b \in Call, Respond(b)
    PROVE  OrderInv'
<1> SUFFICES ASSUME NEW c \in Call, NEW d \in Call, c # d PROVE InOrder(c, d)'
  BY DEF OrderInv
<1> USE DEF Respond, Answer
<1>1. pc[b] \in Running /\ ~HasReceipt(b)
  BY DEF Running, Inv, CallInv
<1>2. UNCHANGED <<cred, prior>> /\ pc'[b] = "done"
  BY DEF Inv, TypeOK
<1>3. \A e \in Call \ {b} : pc'[e] = pc[e] /\ reply'[e] = reply[e]
  BY DEF Inv, TypeOK
<1>4. CASE c = b
  <2>1. HasReceipt(d) /\ TxOf(d) = TxOf(b) => TxOf(d) \in prior[b]
    BY <1>1, <1>4 DEF OrderInv, InOrder
  <2>2. pc[d] \in Running => TxOf(d) # TxOf(b)
    BY <1>1, <1>4 DEF TakeTurns
  <2> QED
    BY <1>2, <1>3, <1>4, <2>1, <2>2 DEF InOrder, HasReceipt, TxOf
<1>5. CASE d = b
  <2>1. HasReceipt(c) /\ TxOf(c) = TxOf(b) => TxOf(c) \in prior[b]
    BY <1>1, <1>5 DEF OrderInv, InOrder
  <2> QED
    BY <1>2, <1>3, <1>5, <2>1 DEF InOrder, HasReceipt, TxOf
<1>6. CASE c # b /\ d # b
  BY <1>2, <1>3, <1>6 DEF OrderInv, InOrder, HasReceipt, TxOf
<1> QED
  BY <1>4, <1>5, <1>6

LEMMA NextOrder == Inv /\ OrderInv /\ TakeTurns /\ [Next]_vars => OrderInv'
<1> SUFFICES ASSUME Inv, OrderInv, TakeTurns, [Next]_vars PROVE OrderInv'
  OBVIOUS
<1>1. ASSUME NEW b \in Call, NEW k \in Credential, Begin(b, k) PROVE OrderInv'
  BY <1>1, BeginKeepsOrder
<1>2. ASSUME NEW b \in Call, Respond(b) PROVE OrderInv'
  BY <1>2, RespondKeepsOrder
\* Every other step of a call moves it on or fails it.
<1>3. ASSUME NEW b \in Call, pc[b] \in Running,
             \/ \E phase \in Running : Goto(b, phase)
             \/ \E r \in ErrorCode : Answer(b, r)
      PROVE OrderInv'
  <2>1. UNCHANGED <<cred, prior>>
    BY <1>3 DEF Goto, Answer
  <2>2. \A c \in Call : pc'[c] \in Running => pc[c] \in Running
    BY <1>3 DEF Goto, Answer, Inv, TypeOK
  <2>3. ~HasReceipt(b)
    BY <1>3 DEF Inv, CallInv, Running
  <2>4. reply'[b] = reply[b] \/ reply'[b] \in ErrorCode
    BY <1>3 DEF Goto, Answer, Inv, TypeOK
  <2>5. \A c \in Call \ {b} : reply'[c] = reply[c]
    BY <1>3 DEF Goto, Answer, Inv, TypeOK
  <2>6. \A c \in Call : HasReceipt(c)' <=> HasReceipt(c)
    BY <2>3, <2>4, <2>5 DEF HasReceipt, ErrorCode
  <2> QED
    BY <2>1, <2>2, <2>6, OthersKeepOrder
<1>4. ASSUME NEW b \in Call, Step(b) PROVE OrderInv'
  <2>1. CASE \/ Cosign(b) \/ SimulatePass(b) \/ Broadcast(b) \/ Polled(b)
             \/ NotYetConsumed(b) \/ Fetched(b) \/ Put(b)
    BY <2>1, <1>3 DEF Cosign, SimulatePass, Broadcast, Polled, NotYetConsumed,
                      Fetched, Put, Running
  <2>2. CASE \/ CosignRefused(b) \/ SimulateFail(b) \/ BroadcastRefused(b)
             \/ PollEnds(b) \/ AlreadyConsumed(b) \/ FetchRefused(b)
    BY <2>2, <1>3 DEF CosignRefused, SimulateFail, BroadcastRefused, PollEnds,
                      AlreadyConsumed, FetchRefused, Running, ErrorCode
  <2> QED
    BY <1>2, <1>4, <2>1, <2>2 DEF Step
<1>5. ASSUME NEW b \in Call, Failure(b) PROVE OrderInv'
  BY <1>5, <1>3 DEF Failure, BroadcastFault, CallFault, StoreFault, Running, ErrorCode
<1>6. CASE UNCHANGED vars \/ \E t \in Tx : PayerSends(t) \/ Network(t)
  BY <1>6, OthersKeepOrder DEF vars, PayerSends, Network, Untouched, HasReceipt
<1>7. CASE Crash
  <2>1. UNCHANGED <<cred, reply, prior>>
    BY <1>7 DEF Crash
  <2>2. \A c \in Call : pc'[c] \in Running => pc[c] \in Running
    BY <1>7 DEF Crash, Inv, TypeOK, Running
  <2> QED
    BY <2>1, <2>2, OthersKeepOrder DEF HasReceipt
<1> QED
  BY <1>1, <1>4, <1>5, <1>6, <1>7, PresentedIsCredential DEF Next

\* With a store that outlives the process and nodes that simulate against the
\* state of the cluster, a signature buys at most one receipt if the calls
\* about one payment take turns: the overlap of the look-up and the mark is
\* all that keeps the code from the promise.
THEOREM TurnsAreEnough ==
    ASSUME Durable, ~Lagging
    PROVE  Spec /\ []TakeTurns => []AtMostOneReceipt
<1>1. Init => OrderInv
  BY DEF Init, OrderInv, InOrder, HasReceipt
<1>2. Inv /\ OrderInv => AtMostOneReceipt
  <2> SUFFICES ASSUME Inv, OrderInv, NEW c \in Call, NEW d \in Call,
                      HasReceipt(c), HasReceipt(d), TxOf(c) = TxOf(d), c # d
               PROVE  FALSE
    BY DEF AtMostOneReceipt
  <2>1. TxOf(c) \notin prior[c] /\ TxOf(d) \notin prior[d]
    BY DEF Inv, CallInv, PastGuard, Verified
  <2> QED
    BY <2>1 DEF OrderInv, InOrder
<1> QED
  BY <1>1, <1>2, NextOrder, Invariance, PTL DEF Spec
=============================================================================
