-------------------------- MODULE RustServerProofs --------------------------
(***************************************************************************)
(* Theorems about RustServer, for every set of calls, transactions and     *)
(* requests, every matching relation and every bound.                      *)
(***************************************************************************)
EXTENDS RustServer, TLAPS

-----------------------------------------------------------------------------
(***************************************************************************)
(* The inductive invariant.  CallInv is what is known of one call; the     *)
(* other conjuncts relate calls to each other and to the shared state.     *)
(***************************************************************************)

\* c was admitted, so cred[c] is a credential for an issued challenge.
Admitted(c) == pc[c] \in Running \/ life[c] # NoLife

CallInv(c) ==
    /\ Admitted(c) => cred[c] \in Credential /\ cred[c].challenge \in issued
    /\ pc[c] = "cosign" => RequestOf(c) \in Sponsored
    /\ pc[c] \in {"cosign", "simulate", "send", "confirm"}
         => <<TxOf(c), RequestOf(c)>> \in RawMatch
    /\ pc[c] \in {"consume", "respond"} \/ life[c] # NoLife
         => /\ ledger[TxOf(c)] = "confirmed"
            /\ <<TxOf(c), RequestOf(c)>> \in ChainMatch
    /\ pc[c] # "done" => reply[c] = "none"
    /\ life[c] # NoLife => \/ HasReceipt(c) \/ reply[c] = "store_error"
                           \/ pc[c] \in {"respond", "lost"}
    /\ HasReceipt(c) => life[c] # NoLife
    /\ pc[c] = "respond" => life[c] = ThisLife
    /\ life[c] <= ThisLife
    /\ life[c] # NoLife /\ (Durable \/ life[c] = ThisLife) => TxOf(c) \in store

\* No two calls inserted the same signature in one memory of the server.
OneInserter ==
    \A c, d \in Call :
        c # d /\ life[c] # NoLife /\ life[d] # NoLife /\ TxOf(c) = TxOf(d)
            => ~SameMemory(c, d)

\* What is in the store was put there by a call.
StoreHasInserter ==
    \A t \in store : \E d \in Call : life[d] # NoLife /\ TxOf(d) = t

Inv ==
    /\ TypeOK
    /\ \A c \in Call : CallInv(c)
    /\ OneInserter
    /\ StoreHasInserter
    /\ OnlyVerifiedLeaves
    /\ OnlySponsoredCosigned
    /\ RefusalIsJust

-----------------------------------------------------------------------------
(***************************************************************************)
(* Lemmas about parts of a step.                                           *)
(***************************************************************************)

\* An admitted call has a transaction and a request.
LEMMA AdmittedType ==
    ASSUME NEW c \in Call, CallInv(c), Admitted(c)
    PROVE  TxOf(c) \in Tx /\ RequestOf(c) \in ChargeRequest
BY DEF CallInv, Credential, Challenge, TxOf, RequestOf

\* What is known of a call survives the steps of everything else.
LEMMA Bystander ==
    ASSUME NEW d \in Call, CallInv(d),
           pc'[d] = pc[d], cred'[d] = cred[d], reply'[d] = reply[d],
           life'[d] = life[d], crashes' = crashes,
           issued \subseteq issued', store \subseteq store',
           \A t \in Tx : ledger[t] = "confirmed" => ledger'[t] = "confirmed"
    PROVE  CallInv(d)'
<1>1. Admitted(d) => TxOf(d) \in Tx
  BY AdmittedType
<1>2. pc[d] \in {"consume", "respond"} => Admitted(d)
  BY DEF Admitted, Running
<1> QED
  BY <1>1, <1>2 DEF CallInv, Admitted, TxOf, RequestOf, HasReceipt, ThisLife, NoLife

\* A call fails without having done anything to the shared state.
LEMMA AnswerKeepsInv ==
    ASSUME Inv, NEW c \in Call, NEW r \in ErrorCode \ {"signature_consumed"},
           pc[c] \in (Running \ {"respond"}) \cup {"idle"},
           Answer(c, r), UNCHANGED Effects, faults' \in Nat
    PROVE  Inv'
<1> USE DEF Answer, Effects, Outside
<1>1. life[c] = NoLife /\ reply[c] = "none"
  BY DEF Inv, CallInv, HasReceipt, Running, NoLife
<1>2. TypeOK'
  BY DEF Inv, TypeOK, LedgerType, Phase, Reply
<1>3. CallInv(c)'
  BY <1>1 DEF Inv, TypeOK, CallInv, Admitted, TxOf, RequestOf, HasReceipt,
              ThisLife, NoLife, Running, ErrorCode
<1>4. ASSUME NEW d \in Call \ {c} PROVE CallInv(d)'
  BY <1>4, Bystander DEF Inv, TypeOK
<1>5. OneInserter' /\ StoreHasInserter'
  BY DEF Inv, OneInserter, StoreHasInserter, SameMemory, TxOf
<1>6. OnlyVerifiedLeaves' /\ OnlySponsoredCosigned'
  BY DEF Inv, OnlyVerifiedLeaves, OnlySponsoredCosigned, FullySigned
<1>7. RefusalIsJust'
  BY <1>1 DEF Inv, TypeOK, RefusalIsJust, HasReceipt, TxOf, NoLife
<1> QED
  BY <1>2, <1>3, <1>4, <1>5, <1>6, <1>7 DEF Inv

\* A call goes on, or is lost, without doing anything to the shared state.
LEMMA MoveKeepsInv ==
    ASSUME Inv, NEW c \in Call,
           NEW phase \in {"simulate", "send", "confirm", "fetch", "consume",
                          "lost"},
           pc[c] \in Running, pc[c] = "respond" => phase = "lost",
           phase \in {"simulate", "send", "confirm"}
             => <<TxOf(c), RequestOf(c)>> \in RawMatch,
           phase = "consume"
             => /\ ledger[TxOf(c)] = "confirmed"
                /\ <<TxOf(c), RequestOf(c)>> \in ChainMatch,
           Goto(c, phase), UNCHANGED Effects, faults' \in Nat
    PROVE  Inv'
<1> USE DEF Goto, Effects, Outside
<1>1. TypeOK'
  BY DEF Inv, TypeOK, LedgerType, Phase, Running
<1>2. CallInv(c)'
  BY DEF Inv, TypeOK, CallInv, Admitted, TxOf, RequestOf, HasReceipt,
         ThisLife, NoLife, Running
<1>3. ASSUME NEW d \in Call \ {c} PROVE CallInv(d)'
  BY <1>3, Bystander DEF Inv, TypeOK
<1>4. OneInserter' /\ StoreHasInserter'
  BY DEF Inv, OneInserter, StoreHasInserter, SameMemory, TxOf
<1>5. OnlyVerifiedLeaves' /\ OnlySponsoredCosigned'
  BY DEF Inv, OnlyVerifiedLeaves, OnlySponsoredCosigned, FullySigned
<1>6. RefusalIsJust'
  BY DEF Inv, TypeOK, CallInv, RefusalIsJust, HasReceipt, TxOf, NoLife, Running
<1> QED
  BY <1>1, <1>2, <1>3, <1>4, <1>5, <1>6 DEF Inv

-----------------------------------------------------------------------------
(***************************************************************************)
(* The steps that do more, one lemma each.                                 *)
(***************************************************************************)

LEMMA AdmitKeepsInv ==
    ASSUME Inv, NEW c \in Call, NEW k \in Presentable, Admit(c, k)
    PROVE  Inv'
<1> USE DEF Admit, Effects, Outside
<1>1. k \in Credential /\ k.challenge \in issued
  <2>1. Endpoints \subseteq ChargeRequest
    BY ServerAssumption
  <2> QED
    BY <2>1 DEF Inv, TypeOK, Presentable, Credential, Authentic
<1>2. life[c] = NoLife /\ reply[c] = "none"
  BY DEF Inv, CallInv, HasReceipt, NoLife
<1>3. TypeOK'
  BY <1>1 DEF Inv, TypeOK, LedgerType, Phase, Running
<1>4. CallInv(c)'
  BY <1>1, <1>2 DEF Inv, TypeOK, CallInv, Admitted, TxOf, RequestOf,
                   HasReceipt, ThisLife, NoLife, Running
<1>5. ASSUME NEW d \in Call \ {c} PROVE CallInv(d)'
  BY <1>5, Bystander DEF Inv, TypeOK
<1>6. OneInserter' /\ StoreHasInserter'
  BY <1>2 DEF Inv, TypeOK, OneInserter, StoreHasInserter, SameMemory, TxOf
<1>7. OnlyVerifiedLeaves' /\ OnlySponsoredCosigned'
  BY DEF Inv, OnlyVerifiedLeaves, OnlySponsoredCosigned, FullySigned
<1>8. RefusalIsJust'
  BY <1>2 DEF Inv, TypeOK, RefusalIsJust, HasReceipt, TxOf
<1> QED
  BY <1>3, <1>4, <1>5, <1>6, <1>7, <1>8 DEF Inv

LEMMA CosignKeepsInv ==
    ASSUME Inv, NEW c \in Call, Cosign(c)
    PROVE  Inv'
<1> USE DEF Cosign, Goto, Outside, NoFault
<1>1. /\ TxOf(c) \in Tx /\ cred[c].challenge \in issued
      /\ RequestOf(c) \in Sponsored /\ <<TxOf(c), RequestOf(c)>> \in RawMatch
  BY AdmittedType DEF Inv, CallInv, Admitted, Running
<1>2. TypeOK'
  BY <1>1 DEF Inv, TypeOK, LedgerType, Phase, Running
<1>3. CallInv(c)'
  BY DEF Inv, TypeOK, CallInv, Admitted, TxOf, RequestOf, HasReceipt,
         ThisLife, NoLife, Running
<1>4. ASSUME NEW d \in Call \ {c} PROVE CallInv(d)'
  BY <1>4, Bystander DEF Inv, TypeOK
<1>5. OneInserter' /\ StoreHasInserter'
  BY DEF Inv, OneInserter, StoreHasInserter, SameMemory, TxOf
<1>6. OnlyVerifiedLeaves' /\ OnlySponsoredCosigned'
  BY <1>1 DEF Inv, OnlyVerifiedLeaves, OnlySponsoredCosigned, FullySigned, RequestOf
<1>7. RefusalIsJust'
  BY DEF Inv, TypeOK, RefusalIsJust, HasReceipt, TxOf, Running
<1> QED
  BY <1>2, <1>3, <1>4, <1>5, <1>6, <1>7 DEF Inv

\* A submission changes the ledger only where nothing has been executed.
LEMMA SubmitKeepsConfirmed ==
    ASSUME LedgerType, NEW t \in Tx, Submit(t)
    PROVE  /\ LedgerType'
           /\ \A u \in Tx : ledger[u] = "confirmed" => ledger'[u] = "confirmed"
           /\ \A u \in Tx \ {t} : ledger'[u] = ledger[u]
BY DEF LedgerType, TxStatus, Submit

\* SendAccepted, and SendFault when the node took the transaction.
LEMMA SendKeepsInv ==
    ASSUME Inv, NEW c \in Call, pc[c] = "send",
           FullySigned(TxOf(c)), Submit(TxOf(c)), sent' = sent \cup {TxOf(c)},
           Goto(c, "confirm") \/ Answer(c, "network_error"),
           faults' \in Nat, UNCHANGED <<store, life, cosigned>>
    PROVE  Inv'
<1> USE DEF Goto, Answer, Outside
<1>1. /\ TxOf(c) \in Tx /\ cred[c].challenge \in issued
      /\ <<TxOf(c), RequestOf(c)>> \in RawMatch
  BY AdmittedType DEF Inv, CallInv, Admitted, Running
<1>2. /\ LedgerType'
      /\ \A u \in Tx : ledger[u] = "confirmed" => ledger'[u] = "confirmed"
      /\ \A u \in Tx \ {TxOf(c)} : ledger'[u] = ledger[u]
  BY <1>1, SubmitKeepsConfirmed DEF Inv, TypeOK
<1>3. TypeOK'
  BY <1>1, <1>2 DEF Inv, TypeOK, Phase, Running, Reply, ErrorCode
<1>4. life[c] = NoLife /\ reply[c] = "none"
  BY DEF Inv, CallInv, HasReceipt
<1>5. CallInv(c)'
  BY <1>4 DEF Inv, TypeOK, CallInv, Admitted, TxOf, RequestOf, HasReceipt,
         ThisLife, NoLife, Running
<1>6. ASSUME NEW d \in Call \ {c} PROVE CallInv(d)'
  BY <1>2, <1>6, Bystander DEF Inv, TypeOK
<1>7. OneInserter' /\ StoreHasInserter'
  BY DEF Inv, OneInserter, StoreHasInserter, SameMemory, TxOf
<1>8. OnlyVerifiedLeaves' /\ OnlySponsoredCosigned'
  BY <1>1, <1>2 DEF Inv, OnlyVerifiedLeaves, OnlySponsoredCosigned, FullySigned, RequestOf
<1>9. RefusalIsJust'
  <2>1. ASSUME NEW b \in Call, reply'[b] = "signature_consumed"
        PROVE  \E d \in Call \ {b} :
                  /\ life[d] # NoLife /\ TxOf(d)' = TxOf(b)'
                  /\ ledger'[TxOf(d)] = "confirmed"
                  /\ HasReceipt(d)' \/ pc'[d] \in {"respond", "lost"}
                                   \/ reply'[d] = "store_error"
    <3>1. reply[b] = "signature_consumed" /\ b # c
      BY <2>1, <1>4 DEF Inv, TypeOK
    <3>2. PICK d \in Call \ {b} :
                  /\ life[d] # NoLife /\ TxOf(d) = TxOf(b)
                  /\ ledger[TxOf(d)] = "confirmed"
                  /\ HasReceipt(d) \/ pc[d] \in {"respond", "lost"}
                                  \/ reply[d] = "store_error"
      BY <3>1 DEF Inv, RefusalIsJust
    <3>3. d # c /\ TxOf(d) \in Tx
      BY <3>2, <1>4, AdmittedType DEF Inv, Admitted
    <3>4. TxOf(d)' = TxOf(d) /\ TxOf(b)' = TxOf(b) /\ pc'[d] = pc[d]
          /\ reply'[d] = reply[d]
      BY <3>3 DEF TxOf, Inv, TypeOK
    <3>5. ledger'[TxOf(d)] = "confirmed"
      BY <3>2, <3>3, <1>2
    <3> QED
      BY <3>2, <3>4, <3>5 DEF HasReceipt
  <2> QED
    BY <2>1 DEF RefusalIsJust, TxOf
<1> QED
  BY <1>3, <1>5, <1>6, <1>7, <1>8, <1>9 DEF Inv

\* Consume, and StoreFault when the store had done the insertion.
LEMMA InsertKeepsInv ==
    ASSUME Inv, NEW c \in Call, pc[c] = "consume", Insert(c),
           Goto(c, "respond") \/ Answer(c, "store_error"),
           faults' \in Nat, UNCHANGED <<ledger, cosigned, sent>>
    PROVE  Inv'
<1> USE DEF Goto, Answer, Outside, Insert
<1>1. TxOf(c) \in Tx
  BY AdmittedType DEF Inv, CallInv, Admitted, Running
<1>2. TypeOK'
  BY <1>1 DEF Inv, TypeOK, LedgerType, Phase, Running, Reply, ErrorCode, ThisLife
<1>3. life[c] = NoLife /\ reply[c] = "none"
  BY DEF Inv, CallInv, HasReceipt
<1>4. CallInv(c)'
  BY <1>3 DEF Inv, TypeOK, CallInv, Admitted, TxOf, RequestOf, HasReceipt,
         ThisLife, NoLife, Running
<1>5. ASSUME NEW d \in Call \ {c} PROVE CallInv(d)'
  BY <1>5, Bystander DEF Inv, TypeOK
<1>6. OneInserter'
  <2>1. ASSUME NEW d \in Call \ {c}, life[d] # NoLife, TxOf(d) = TxOf(c)
        PROVE  ~(Durable \/ life[d] = ThisLife)
    BY <2>1 DEF Inv, CallInv
  <2> QED
    BY <2>1 DEF Inv, TypeOK, OneInserter, SameMemory, TxOf
<1>7. StoreHasInserter'
  BY DEF Inv, TypeOK, StoreHasInserter, TxOf, ThisLife, NoLife
<1>8. OnlyVerifiedLeaves' /\ OnlySponsoredCosigned'
  BY DEF Inv, OnlyVerifiedLeaves, OnlySponsoredCosigned, FullySigned
<1>9. RefusalIsJust'
  BY <1>3 DEF Inv, TypeOK, RefusalIsJust, HasReceipt, TxOf
<1> QED
  BY <1>2, <1>4, <1>5, <1>6, <1>7, <1>8, <1>9 DEF Inv

LEMMA AlreadyConsumedKeepsInv ==
    ASSUME Inv, NEW c \in Call, AlreadyConsumed(c)
    PROVE  Inv'
<1> USE DEF AlreadyConsumed, Answer, Outside, Effects, NoFault
<1>1. life[c] = NoLife /\ reply[c] = "none"
  BY DEF Inv, CallInv, HasReceipt
<1>2. TypeOK'
  BY DEF Inv, TypeOK, LedgerType, Phase, Reply, ErrorCode
<1>3. CallInv(c)'
  BY <1>1 DEF Inv, TypeOK, CallInv, Admitted, TxOf, RequestOf, HasReceipt,
              ThisLife, NoLife, Running
<1>4. ASSUME NEW d \in Call \ {c} PROVE CallInv(d)'
  BY <1>4, Bystander DEF Inv, TypeOK
<1>5. OneInserter' /\ StoreHasInserter'
  BY DEF Inv, OneInserter, StoreHasInserter, SameMemory, TxOf
<1>6. OnlyVerifiedLeaves' /\ OnlySponsoredCosigned'
  BY DEF Inv, OnlyVerifiedLeaves, OnlySponsoredCosigned, FullySigned
<1>7. PICK d \in Call : life[d] # NoLife /\ TxOf(d) = TxOf(c)
  BY DEF Inv, StoreHasInserter
<1>8. /\ d # c /\ ledger[TxOf(d)] = "confirmed"
      /\ HasReceipt(d) \/ reply[d] = "store_error" \/ pc[d] \in {"respond", "lost"}
  BY <1>1, <1>7 DEF Inv, CallInv
<1>9. RefusalIsJust'
  BY <1>1, <1>7, <1>8 DEF Inv, TypeOK, RefusalIsJust, HasReceipt, TxOf
<1> QED
  BY <1>2, <1>3, <1>4, <1>5, <1>6, <1>9 DEF Inv

LEMMA RespondKeepsInv ==
    ASSUME Inv, NEW c \in Call, Respond(c)
    PROVE  Inv'
<1> USE DEF Respond, Answer, Outside, Effects, NoFault
<1>1. TypeOK'
  BY DEF Inv, TypeOK, LedgerType, Phase, Reply
<1>2. CallInv(c)'
  BY DEF Inv, TypeOK, CallInv, Admitted, TxOf, RequestOf, HasReceipt,
         ThisLife, NoLife, Running
<1>3. ASSUME NEW d \in Call \ {c} PROVE CallInv(d)'
  BY <1>3, Bystander DEF Inv, TypeOK
<1>4. OneInserter' /\ StoreHasInserter'
  BY DEF Inv, OneInserter, StoreHasInserter, SameMemory, TxOf
<1>5. OnlyVerifiedLeaves' /\ OnlySponsoredCosigned'
  BY DEF Inv, OnlyVerifiedLeaves, OnlySponsoredCosigned, FullySigned
<1>6. RefusalIsJust'
  BY DEF Inv, TypeOK, RefusalIsJust, HasReceipt, TxOf
<1> QED
  BY <1>1, <1>2, <1>3, <1>4, <1>5, <1>6 DEF Inv

\* Issue and Tick: no call is involved.
LEMMA IssueKeepsInv ==
    ASSUME Inv, NEW q \in ChargeRequest, NEW l \in Lifetimes, Issue(q, l)
    PROVE  Inv'
<1> USE DEF Issue, CallVars, Effects
<1>1. TypeOK'
  BY ServerAssumption DEF Inv, TypeOK, LedgerType, Challenge
<1>2. ASSUME NEW d \in Call PROVE CallInv(d)'
  BY <1>2, Bystander DEF Inv
<1>3. OneInserter' /\ StoreHasInserter' /\ RefusalIsJust'
  BY DEF Inv, OneInserter, StoreHasInserter, SameMemory, TxOf, RefusalIsJust, HasReceipt
<1>4. OnlyVerifiedLeaves' /\ OnlySponsoredCosigned'
  BY DEF Inv, OnlyVerifiedLeaves, OnlySponsoredCosigned, FullySigned
<1> QED
  BY <1>1, <1>2, <1>3, <1>4 DEF Inv

LEMMA TickKeepsInv ==
    ASSUME Inv, Tick
    PROVE  Inv'
<1> USE DEF Tick, CallVars, Effects
<1>1. TypeOK'
  BY DEF Inv, TypeOK, LedgerType
<1>2. ASSUME NEW d \in Call PROVE CallInv(d)'
  BY <1>2, Bystander DEF Inv
<1>3. OneInserter' /\ StoreHasInserter' /\ RefusalIsJust'
  BY DEF Inv, OneInserter, StoreHasInserter, SameMemory, TxOf, RefusalIsJust, HasReceipt
<1>4. OnlyVerifiedLeaves' /\ OnlySponsoredCosigned'
  BY DEF Inv, OnlyVerifiedLeaves, OnlySponsoredCosigned, FullySigned
<1> QED
  BY <1>1, <1>2, <1>3, <1>4 DEF Inv

\* Every running call is lost; an in-memory store loses what it held, and
\* with it the life in which it was put there ends.
LEMMA CrashKeepsInv ==
    ASSUME Inv, Crash
    PROVE  Inv'
<1> USE DEF Crash
<1>1. TypeOK'
  BY DEF Inv, TypeOK, LedgerType, Phase
<1>2. ASSUME NEW d \in Call PROVE CallInv(d)'
  BY ServerAssumption DEF Inv, TypeOK, CallInv, Admitted, TxOf, RequestOf, HasReceipt, ThisLife,
         NoLife, Running
<1>3. OneInserter' /\ StoreHasInserter'
  BY DEF Inv, OneInserter, StoreHasInserter, SameMemory, TxOf
<1>4. RefusalIsJust'
  BY DEF Inv, TypeOK, RefusalIsJust, HasReceipt, TxOf, Running
<1>5. OnlyVerifiedLeaves' /\ OnlySponsoredCosigned'
  BY DEF Inv, OnlyVerifiedLeaves, OnlySponsoredCosigned, FullySigned
<1> QED
  BY <1>1, <1>2, <1>3, <1>4, <1>5 DEF Inv

\* A step of the ledger alone which keeps what is confirmed and lets nothing
\* into the cluster that lacks a signature.
LEMMA LedgerStepKeepsInv ==
    ASSUME Inv, NEW t \in Tx, LedgerType', UNCHANGED Untouched,
           \A u \in Tx : ledger[u] = "confirmed" => ledger'[u] = "confirmed",
           \A u \in Tx \ {t} : ledger'[u] = ledger[u],
           ledger'[t] = "expired" \/ FullySigned(t)
    PROVE  Inv'
<1> USE DEF Untouched, CallVars, Outside
<1>1. TypeOK'
  BY DEF Inv, TypeOK
<1>2. ASSUME NEW d \in Call PROVE CallInv(d)'
  BY <1>2, Bystander DEF Inv
<1>3. OneInserter' /\ StoreHasInserter'
  BY DEF Inv, OneInserter, StoreHasInserter, SameMemory, TxOf
<1>4. OnlyVerifiedLeaves' /\ OnlySponsoredCosigned'
  BY DEF Inv, OnlyVerifiedLeaves, OnlySponsoredCosigned, FullySigned
<1>5. RefusalIsJust'
  <2>1. ASSUME NEW d \in Call, life[d] # NoLife PROVE TxOf(d) \in Tx
    BY <2>1, AdmittedType DEF Inv, Admitted
  <2> QED
    BY <2>1 DEF Inv, RefusalIsJust, HasReceipt, TxOf
<1> QED
  BY <1>1, <1>2, <1>3, <1>4, <1>5 DEF Inv

LEMMA PayerKeepsInv ==
    ASSUME Inv, NEW t \in Tx, PayerSends(t)
    PROVE  Inv'
<1>1. LedgerType /\ Submit(t)
  BY DEF Inv, TypeOK, PayerSends
<1> QED
  BY <1>1, SubmitKeepsConfirmed, LedgerStepKeepsInv DEF PayerSends

LEMMA NetworkKeepsInv ==
    ASSUME Inv, NEW t \in Tx, Network(t)
    PROVE  Inv'
<1>1. /\ LedgerType'
      /\ \A u \in Tx : ledger[u] = "confirmed" => ledger'[u] = "confirmed"
      /\ \A u \in Tx \ {t} : ledger'[u] = ledger[u]
  BY DEF Inv, TypeOK, LedgerType, TxStatus, Network, Resolve, Confirm, Fail, Expire
<1>2. ledger'[t] = "expired" \/ FullySigned(t)
  BY DEF Inv, TypeOK, LedgerType, OnlySponsoredCosigned, Network, Resolve, Confirm, Fail, Expire
<1> QED
  BY <1>1, <1>2, LedgerStepKeepsInv DEF Network

-----------------------------------------------------------------------------
(***************************************************************************)
(* The invariant.                                                          *)
(***************************************************************************)

LEMMA InitInv == Init => Inv
<1> SUFFICES ASSUME Init PROVE Inv
  OBVIOUS
<1> USE DEF Init
<1>1. TypeOK
  BY DEF TypeOK, LedgerInit, LedgerType, TxStatus, Phase, Reply, NoLife
<1>2. ASSUME NEW c \in Call PROVE CallInv(c)
  BY DEF CallInv, Admitted, HasReceipt, Running, ThisLife, NoLife
<1>3. OneInserter /\ StoreHasInserter /\ OnlyVerifiedLeaves /\ RefusalIsJust
  BY DEF OneInserter, StoreHasInserter, OnlyVerifiedLeaves, RefusalIsJust
<1>4. OnlySponsoredCosigned
  BY DEF OnlySponsoredCosigned, LedgerInit
<1> QED
  BY <1>1, <1>2, <1>3, <1>4 DEF Inv

LEMMA BeginKeepsInv ==
    ASSUME Inv, NEW c \in Call, NEW k \in Presentable, Begin(c, k)
    PROVE  Inv'
<1>1. faults \in Nat
  BY DEF Inv, TypeOK
<1>2. CASE Admit(c, k)
  BY <1>2, AdmitKeepsInv
<1>3. ASSUME NEW r \in ErrorCode \ {"signature_consumed"}, Refuse(c, r)
      PROVE  Inv'
  BY <1>1, <1>3, AnswerKeepsInv DEF Refuse
<1>4. CASE RefuseMismatch(c, k)
  BY <1>3, <1>4 DEF RefuseMismatch, ErrorCode
<1>5. CASE RefuseExpiry(c, k)
  BY <1>3, <1>5 DEF RefuseExpiry, ErrorCode
<1>6. CASE RefusePayload(c, k)
  BY <1>3, <1>6 DEF RefusePayload, ErrorCode
<1>7. CASE RefuseTransaction(c, k)
  BY <1>3, <1>7 DEF RefuseTransaction, ErrorCode
<1> QED
  BY <1>2, <1>4, <1>5, <1>6, <1>7 DEF Begin

LEMMA StepKeepsInv ==
    ASSUME Inv, NEW c \in Call, Step(c)
    PROVE  Inv'
<1>1. faults \in Nat
  BY DEF Inv, TypeOK
<1>2. ASSUME NEW r \in ErrorCode \ {"signature_consumed"},
             pc[c] \in Running \ {"respond"},
             Answer(c, r), NoFault, UNCHANGED Effects
      PROVE  Inv'
  BY <1>1, <1>2, AnswerKeepsInv DEF NoFault
<1>3. CASE CosignRefused(c)
  BY <1>2, <1>3 DEF CosignRefused, ErrorCode, Running
<1>4. CASE CosignOutOfRange(c)
  BY <1>1, <1>4, MoveKeepsInv DEF CosignOutOfRange, NoFault, Running
<1>5. CASE Cosign(c)
  BY <1>5, CosignKeepsInv
<1>6. CASE SimulatePass(c)
  BY <1>1, <1>6, MoveKeepsInv DEF SimulatePass, NoFault, Running, Inv, CallInv
<1>7. CASE SimulateFail(c)
  BY <1>2, <1>7 DEF SimulateFail, ErrorCode, Running
<1>8. CASE SendAccepted(c)
  BY <1>1, <1>8, SendKeepsInv DEF SendAccepted, NoFault
<1>9. CASE SendRefused(c)
  BY <1>2, <1>9 DEF SendRefused, ErrorCode, Running
<1>10. CASE Confirmed(c)
  <2>1. <<TxOf(c), RequestOf(c)>> \in ChainMatch
    BY <1>10, ServerAssumption DEF Inv, CallInv, Confirmed
  <2> QED
    BY <2>1, <1>1, <1>10, MoveKeepsInv DEF Confirmed, NoFault, Running
<1>11. CASE NotConfirmed(c)
  BY <1>2, <1>11 DEF NotConfirmed, ErrorCode, Running
<1>12. CASE FetchMiss(c)
  BY <1>2, <1>12 DEF FetchMiss, ErrorCode, Running
<1>13. CASE FetchRefused(c)
  BY <1>2, <1>13 DEF FetchRefused, ErrorCode, Running
<1>14. CASE Fetched(c)
  BY <1>1, <1>14, MoveKeepsInv DEF Fetched, FetchCanFind, NoFault, Running
<1>15. CASE Consume(c)
  BY <1>1, <1>15, InsertKeepsInv DEF Consume, NoFault
<1>16. CASE AlreadyConsumed(c)
  BY <1>16, AlreadyConsumedKeepsInv
<1>17. CASE Respond(c)
  BY <1>17, RespondKeepsInv
<1> QED
  BY <1>3, <1>4, <1>5, <1>6, <1>7, <1>8, <1>9, <1>10, <1>11, <1>12, <1>13,
     <1>14, <1>15, <1>16, <1>17 DEF Step

LEMMA FailureKeepsInv ==
    ASSUME Inv, NEW c \in Call, Failure(c)
    PROVE  Inv'
<1>1. faults' \in Nat
  BY DEF Failure, SignerFault, SendFault, ReadFault, StoreFault, Cancel,
         Fault, Inv, TypeOK
<1>2. ASSUME NEW r \in ErrorCode \ {"signature_consumed"},
             pc[c] \in Running \ {"respond"}, Answer(c, r), UNCHANGED Effects
      PROVE  Inv'
  BY <1>1, <1>2, AnswerKeepsInv
<1>3. CASE SignerFault(c)
  BY <1>2, <1>3 DEF SignerFault, ErrorCode, Running
<1>4. CASE SendFault(c)
  <2>1. CASE UNCHANGED <<ledger, sent>>
    BY <1>2, <1>4, <2>1 DEF SendFault, ErrorCode, Running, Effects
  <2>2. CASE /\ FullySigned(TxOf(c)) /\ Submit(TxOf(c))
             /\ sent' = sent \cup {TxOf(c)}
    BY <1>1, <1>4, <2>2, SendKeepsInv DEF SendFault
  <2> QED
    BY <1>4, <2>1, <2>2 DEF SendFault
<1>5. CASE ReadFault(c)
  BY <1>2, <1>5 DEF ReadFault, ErrorCode, Running
<1>6. CASE StoreFault(c)
  <2>1. CASE UNCHANGED <<store, life>>
    BY <1>2, <1>6, <2>1 DEF StoreFault, ErrorCode, Running, Effects
  <2>2. CASE Insert(c)
    BY <1>1, <1>6, <2>2, InsertKeepsInv DEF StoreFault
  <2> QED
    BY <1>6, <2>1, <2>2 DEF StoreFault
<1>7. CASE Cancel(c)
  BY <1>1, <1>7, MoveKeepsInv DEF Cancel, Running
<1> QED
  BY <1>3, <1>4, <1>5, <1>6, <1>7 DEF Failure

LEMMA StutterKeepsInv == Inv /\ UNCHANGED vars => Inv'
<1> SUFFICES ASSUME Inv, UNCHANGED vars PROVE Inv'
  OBVIOUS
<1> USE DEF vars
<1>1. TypeOK'
  BY DEF Inv, TypeOK, LedgerType
<1>2. ASSUME NEW d \in Call PROVE CallInv(d)'
  BY <1>2, Bystander DEF Inv
<1>3. OneInserter' /\ StoreHasInserter' /\ RefusalIsJust'
  BY DEF Inv, OneInserter, StoreHasInserter, SameMemory, TxOf, RefusalIsJust, HasReceipt
<1>4. OnlyVerifiedLeaves' /\ OnlySponsoredCosigned'
  BY DEF Inv, OnlyVerifiedLeaves, OnlySponsoredCosigned, FullySigned
<1> QED
  BY <1>1, <1>2, <1>3, <1>4 DEF Inv

LEMMA NextKeepsInv == Inv /\ [Next]_vars => Inv'
<1> SUFFICES ASSUME Inv, [Next]_vars PROVE Inv'
  OBVIOUS
<1>1. CASE UNCHANGED vars
  BY <1>1, StutterKeepsInv
<1>2. ASSUME NEW q \in ChargeRequest, NEW l \in Lifetimes, Issue(q, l) PROVE Inv'
  BY <1>2, IssueKeepsInv
<1>3. ASSUME NEW c \in Call, NEW k \in Presentable, Begin(c, k) PROVE Inv'
  BY <1>3, BeginKeepsInv
<1>4. ASSUME NEW c \in Call, Step(c) \/ Failure(c) PROVE Inv'
  BY <1>4, StepKeepsInv, FailureKeepsInv
<1>5. ASSUME NEW t \in Tx, PayerSends(t) \/ Network(t) PROVE Inv'
  BY <1>5, PayerKeepsInv, NetworkKeepsInv
<1>6. CASE Crash \/ Tick
  BY <1>6, CrashKeepsInv, TickKeepsInv
<1> QED
  BY <1>1, <1>2, <1>3, <1>4, <1>5, <1>6 DEF Next

\* The inductive invariant holds in every reachable state, whatever the
\* interleaving of calls, failures, cancellations and crashes.
THEOREM Invariance == Spec => []Inv
<1>1. Init => Inv
  BY InitInv
<1>2. Inv /\ [Next]_vars => Inv'
  BY NextKeepsInv
<1> QED
  BY <1>1, <1>2, PTL DEF Spec

\* The variables keep their types.
THEOREM TypeCorrectness == Spec => []TypeOK
<1>1. Inv => TypeOK
  BY DEF Inv
<1> QED
  BY <1>1, Invariance, PTL

\* A signature buys at most one receipt in what one store remembers: any
\* number of concurrent calls, in pull and push mode, over any number of
\* crashes (verify, step 5, "atomic check-and-consume").
THEOREM ReplayProtection == Spec => []AtMostOneReceipt
<1>1. Inv => AtMostOneReceipt
  BY DEF Inv, CallInv, OneInserter, AtMostOneReceipt
<1> QED
  BY <1>1, Invariance, PTL

\* A receipt stands for an executed transaction that pays an issued challenge,
\* although pull mode does not look at the chain again after confirmation.
THEOREM ReceiptsArePaid == Spec => []ReceiptMeansPaid
<1>1. Inv => ReceiptMeansPaid
  BY DEF Inv, CallInv, Admitted, ReceiptMeansPaid
<1> QED
  BY <1>1, Invariance, PTL

\* No transaction is signed or sent before it is found to pay a challenge
\* (comment in verify_pull: verify BEFORE co-signing or broadcasting).
THEOREM VerifiedBeforeBroadcast == Spec => []OnlyVerifiedLeaves
<1>1. Inv => OnlyVerifiedLeaves
  BY DEF Inv
<1> QED
  BY <1>1, Invariance, PTL

\* The server pays fees only for challenges that offer it, and a transaction
\* that needs its signature does not get into the cluster without it.
THEOREM SponsorshipIsOffered == Spec => []OnlySponsoredCosigned
<1>1. Inv => OnlySponsoredCosigned
  BY DEF Inv
<1> QED
  BY <1>1, Invariance, PTL

\* "signature consumed" is only said of payments another call has inserted.
THEOREM RefusalsAreJust == Spec => []RefusalIsJust
<1>1. Inv => RefusalIsJust
  BY DEF Inv
<1> QED
  BY <1>1, Invariance, PTL

-----------------------------------------------------------------------------
(***************************************************************************)
(* The action property.                                                    *)
(***************************************************************************)

StoreStep ==
    /\ Durable \/ crashes' = crashes => store \subseteq store'
    /\ \A t \in store' \ store : ledger[t] = "confirmed"

LEMMA NextStoreStep == Inv /\ [Next]_vars => StoreStep
<1> SUFFICES ASSUME Inv, [Next]_vars PROVE StoreStep
  OBVIOUS
<1> USE DEF StoreStep, Effects, Outside
<1>1. CASE UNCHANGED vars
  BY <1>1 DEF vars
<1>2. ASSUME NEW q \in ChargeRequest, NEW l \in Lifetimes, Issue(q, l) PROVE StoreStep
  BY <1>2 DEF Issue
<1>3. ASSUME NEW c \in Call, NEW k \in Presentable, Begin(c, k) PROVE StoreStep
  BY <1>3 DEF Begin, RefuseMismatch, RefuseExpiry, RefusePayload,
              RefuseTransaction, Refuse, Admit
<1>4. ASSUME NEW c \in Call, Step(c) PROVE StoreStep
  <2>1. CASE Consume(c)
    BY <2>1 DEF Consume, Insert, Inv, CallInv
  <2>2. CASE \/ CosignRefused(c) \/ CosignOutOfRange(c) \/ Cosign(c)
             \/ SimulatePass(c) \/ SimulateFail(c)
             \/ SendAccepted(c) \/ SendRefused(c)
    BY <2>2 DEF CosignRefused, CosignOutOfRange, Cosign, SimulatePass,
                SimulateFail, SendAccepted, SendRefused
  <2>3. CASE \/ Confirmed(c) \/ NotConfirmed(c)
             \/ FetchMiss(c) \/ FetchRefused(c) \/ Fetched(c)
             \/ AlreadyConsumed(c) \/ Respond(c)
    BY <2>3 DEF Confirmed, NotConfirmed, FetchMiss, FetchRefused, Fetched,
                AlreadyConsumed, Respond
  <2> QED
    BY <1>4, <2>1, <2>2, <2>3 DEF Step
<1>5. ASSUME NEW c \in Call, Failure(c) PROVE StoreStep
  <2>1. CASE StoreFault(c)
    BY <2>1 DEF StoreFault, Insert, Inv, CallInv
  <2>2. CASE SignerFault(c) \/ SendFault(c) \/ ReadFault(c) \/ Cancel(c)
    BY <2>2 DEF SignerFault, SendFault, ReadFault, Cancel
  <2> QED
    BY <1>5, <2>1, <2>2 DEF Failure
<1>6. ASSUME NEW t \in Tx, PayerSends(t) \/ Network(t) PROVE StoreStep
  BY <1>6 DEF PayerSends, Network, Untouched
<1>7. CASE Crash
  BY <1>7, ServerAssumption DEF Crash, Inv, TypeOK
<1>8. CASE Tick
  BY <1>8 DEF Tick
<1> QED
  BY <1>1, <1>2, <1>3, <1>4, <1>5, <1>6, <1>7, <1>8 DEF Next

\* What is consumed stays consumed, unless a process with an in-memory store
\* restarts, and only executed transactions are consumed.
THEOREM ConsumptionIsFinal == Spec => ConsumedIsFinal
<1>1. Inv /\ [Next]_vars => [StoreStep]_vars
  BY NextStoreStep
<1>2. Spec => [][StoreStep]_vars
  BY <1>1, Invariance, PTL DEF Spec
<1> QED
  BY <1>2 DEF ConsumedIsFinal, StoreStep

-----------------------------------------------------------------------------
(***************************************************************************)
(* The server keeps the promise of ChargePromise.                          *)
(***************************************************************************)

AbstractVars == <<Settled, Served, Remembered>>

AbstractStep == [Promise!Next]_AbstractVars

\* A step that answers no call with a receipt and ends no life of the server
\* is invisible, except that a payment may settle.
LEMMA InvisibleStep ==
    ASSUME TypeOK, TypeOK', crashes' = crashes,
           \A d \in Call : HasReceipt(d)' = HasReceipt(d),
           \A d \in Call : HasReceipt(d) =>
                cred'[d] = cred[d] /\ life'[d] = life[d]
    PROVE  Served' = Served /\ Remembered' = Remembered
BY DEF Served, Remembered, TxOf, RequestOf, ThisLife, NoService

LEMMA RefinementStep == Inv /\ Inv' /\ [Next]_vars => AbstractStep
<1> SUFFICES ASSUME Inv, Inv', [Next]_vars PROVE AbstractStep
  OBVIOUS
<1> USE DEF AbstractStep, AbstractVars, Effects, Outside
<1>1. TypeOK /\ TypeOK'
  BY DEF Inv
<1>2. \A c \in Call : pc[c] # "done" => ~HasReceipt(c)
  BY DEF Inv, CallInv, HasReceipt
<1>3. CASE UNCHANGED vars
  <2>1. Served' = Served /\ Remembered' = Remembered
    BY <1>1, <1>3, InvisibleStep DEF vars, HasReceipt
  <2> QED
    BY <1>3, <2>1 DEF vars, Settled
<1>4. ASSUME NEW c \in Call, pc[c] # "done", reply'[c] # "receipt",
             reply' = [reply EXCEPT ![c] = reply'[c]],
             \A d \in Call \ {c} : cred'[d] = cred[d] /\ life'[d] = life[d],
             crashes' = crashes, Settled' = Settled
      PROVE  AbstractStep
  <2>1. \A d \in Call : HasReceipt(d)' = HasReceipt(d)
    BY <1>1, <1>2, <1>4 DEF HasReceipt, TypeOK
  <2> QED
    BY <1>1, <1>2, <1>4, <2>1, InvisibleStep
<1>5. ASSUME NEW c \in Call, NEW k \in Presentable, Begin(c, k) PROVE AbstractStep
  <2>1. UNCHANGED ledger => Settled' = Settled
    BY DEF Settled
  <2>2. CASE Admit(c, k)
    BY <2>1, <2>2, <1>1, <1>2, <1>4 DEF Admit, TypeOK, HasReceipt
  <2>3. ASSUME NEW r \in ErrorCode, Refuse(c, r) PROVE AbstractStep
    BY <2>1, <2>3, <1>1, <1>4 DEF Refuse, Answer, TypeOK, ErrorCode
  <2> QED
    BY <1>5, <2>2, <2>3 DEF Begin, RefuseMismatch, RefuseExpiry,
                            RefusePayload, RefuseTransaction, ErrorCode
<1>6. ASSUME NEW c \in Call, Respond(c) PROVE AbstractStep
  <2>1. /\ TxOf(c) \in Tx /\ RequestOf(c) \in ChargeRequest
        /\ ledger[TxOf(c)] = "confirmed" /\ <<TxOf(c), RequestOf(c)>> \in ChainMatch
        /\ life[c] = ThisLife /\ life[c] # NoLife
    BY <1>1, <1>6, AdmittedType
       DEF Respond, Inv, CallInv, Admitted, Running, ThisLife, NoLife, TypeOK
  <2>2. ~HasReceipt(c)
    BY <1>2, <1>6 DEF Respond
  <2>3. TxOf(c) \notin Remembered
    <3>1. ASSUME NEW d \in Call, HasReceipt(d), TxOf(d) = TxOf(c),
                 Durable \/ life[d] = ThisLife
          PROVE  FALSE
      BY <2>1, <2>2, <3>1, ZenonT(30) DEF Inv, CallInv, OneInserter, SameMemory
    <3> QED
      BY <3>1 DEF Remembered
  <2>4. Served' = [Served EXCEPT ![c] = [tx |-> TxOf(c), request |-> RequestOf(c)]]
    BY <1>1, <1>6 DEF Respond, Answer, Served, HasReceipt, TxOf, RequestOf, TypeOK,
                      NoService
  <2>5. Remembered' = Remembered \cup {TxOf(c)}
    BY <1>1, <1>6, <2>1, <2>2 DEF Respond, Answer, Remembered, HasReceipt, TxOf, TypeOK, ThisLife
  <2>6. Served[c] = NoService /\ TxOf(c) \in Settled /\ Settled' = Settled
    BY <1>6, <2>1, <2>2 DEF Respond, Served, Settled
  <2>7. Promise!Serve(c, TxOf(c), RequestOf(c))
    BY <2>1, <2>3, <2>4, <2>5, <2>6 DEF Promise!Serve
  <2> QED
    BY <2>1, <2>7 DEF Promise!Next
<1>7. ASSUME NEW c \in Call, Step(c), ~Respond(c) PROVE AbstractStep
  <2>1. pc[c] # "done"
    BY <1>7 DEF Step, CosignRefused, CosignOutOfRange, Cosign, SimulatePass,
         SimulateFail, SendAccepted, SendRefused, Confirmed, NotConfirmed,
         FetchMiss, FetchRefused, Fetched, Consume, AlreadyConsumed
  <2>2. reply' = [reply EXCEPT ![c] = reply'[c]] /\ reply'[c] # "receipt"
    <3>1. reply[c] = "none"
      BY <2>1 DEF Inv, CallInv
    <3> QED
      BY <1>1, <1>7, <3>1 DEF Step, CosignRefused, CosignOutOfRange, Cosign,
         SimulatePass, SimulateFail, SendAccepted, SendRefused, Confirmed,
         NotConfirmed, FetchMiss, FetchRefused, Fetched, Consume,
         AlreadyConsumed, Goto, Answer, TypeOK
  <2>3. /\ cred' = cred /\ crashes' = crashes
        /\ \A d \in Call \ {c} : life'[d] = life[d]
    BY <1>1, <1>7 DEF Step, CosignRefused, CosignOutOfRange, Cosign,
         SimulatePass, SimulateFail, SendAccepted, SendRefused, Confirmed,
         NotConfirmed, FetchMiss, FetchRefused, Fetched, Consume, Insert,
         AlreadyConsumed, Goto, Answer, TypeOK
  <2>4. Settled' = Settled
    <3>1. CASE SendAccepted(c)
      <4>1. TxOf(c) \in Tx
        BY <3>1, AdmittedType DEF SendAccepted, Inv, Admitted, Running
      <4> QED
        BY <1>1, <3>1, <4>1 DEF SendAccepted, Submit, Settled, TypeOK, LedgerType
    <3>2. CASE ~SendAccepted(c)
      BY <1>7, <3>2 DEF Step, CosignRefused, CosignOutOfRange, Cosign,
         SimulatePass, SimulateFail, SendRefused, Confirmed, NotConfirmed,
         FetchMiss, FetchRefused, Fetched, Consume, AlreadyConsumed, Settled
    <3> QED
      BY <3>1, <3>2
  <2> QED
    BY <1>4, <2>1, <2>2, <2>3, <2>4
<1>8. ASSUME NEW c \in Call, Failure(c) PROVE AbstractStep
  <2>1. pc[c] # "done" /\ reply[c] = "none"
    BY <1>8 DEF Failure, SignerFault, SendFault, ReadFault, StoreFault, Cancel,
                Inv, CallInv
  <2>2. reply' = [reply EXCEPT ![c] = reply'[c]] /\ reply'[c] # "receipt"
    BY <1>1, <1>8, <2>1 DEF Failure, SignerFault, SendFault, ReadFault,
         StoreFault, Cancel, Goto, Answer, TypeOK
  <2>3. /\ cred' = cred /\ crashes' = crashes
        /\ \A d \in Call \ {c} : life'[d] = life[d]
    BY <1>1, <1>8 DEF Failure, SignerFault, SendFault, ReadFault, StoreFault,
         Cancel, Insert, Goto, Answer, TypeOK
  <2>4. Settled' = Settled
    <3>1. CASE SendFault(c)
      <4>1. TxOf(c) \in Tx
        BY <3>1, AdmittedType DEF SendFault, Inv, Admitted, Running
      <4> QED
        BY <1>1, <3>1, <4>1 DEF SendFault, Submit, Settled, TypeOK, LedgerType
    <3>2. CASE ~SendFault(c)
      BY <1>8, <3>2 DEF Failure, SignerFault, ReadFault, StoreFault, Cancel, Settled
    <3> QED
      BY <3>1, <3>2
  <2> QED
    BY <1>4, <2>1, <2>2, <2>3, <2>4
<1>9. ASSUME NEW t \in Tx, PayerSends(t) \/ Network(t) PROVE AbstractStep
  <2>1. Served' = Served /\ Remembered' = Remembered
    BY <1>1, <1>9, InvisibleStep
       DEF PayerSends, Network, Untouched, CallVars, HasReceipt
  <2>2. Settled' = Settled \/ Settled' = Settled \cup {t}
    BY <1>1, <1>9 DEF PayerSends, Network, Submit, Resolve, Confirm, Fail,
                      Expire, Settled, TypeOK, LedgerType
  <2> QED
    BY <2>1, <2>2 DEF Promise!Next, Promise!Settle
<1>10. CASE Crash
  <2>1. Settled' = Settled /\ Served' = Served
    BY <1>10 DEF Crash, Settled, Served, HasReceipt, TxOf, RequestOf
  <2>2. CASE Durable
    BY <1>10, <2>1, <2>2 DEF Crash, Remembered, HasReceipt, TxOf
  <2>3. CASE ~Durable
    <3>1. ASSUME NEW c \in Call PROVE life'[c] # ThisLife'
      <4>1. life[c] \in Nat /\ crashes \in Nat /\ life[c] <= crashes + 1
        BY DEF Inv, TypeOK, CallInv, ThisLife
      <4> QED
        BY <1>10, <4>1 DEF Crash, ThisLife
    <3>2. Remembered' = {}
      BY <2>3, <3>1 DEF Remembered
    <3> QED
      BY <2>1, <2>3, <3>2 DEF Promise!Next, Promise!Forget
  <2> QED
    BY <2>2, <2>3
<1>11. ASSUME \/ \E q \in ChargeRequest, l \in Lifetimes : Issue(q, l)
              \/ Tick
       PROVE  AbstractStep
  <2>1. Served' = Served /\ Remembered' = Remembered
    BY <1>1, <1>11, InvisibleStep DEF Issue, Tick, CallVars, HasReceipt
  <2> QED
    BY <1>11, <2>1 DEF Issue, Tick, Settled
<1> QED
  BY <1>3, <1>5, <1>6, <1>7, <1>8, <1>9, <1>10, <1>11 DEF Next

LEMMA RefinementInit == Init => Promise!Init
BY DEF Init, LedgerInit, Promise!Init, Settled, Served, Remembered, HasReceipt

\* Every behaviour of the Rust server is one the promise allows: a receipt is
\* given for a settled payment of what was asked, once per memory.
THEOREM Refinement == Spec => ImplementsPromise
<1>1. Init => Promise!Init
  BY RefinementInit
<1>2. Inv /\ Inv' /\ [Next]_vars => [Promise!Next]_Promise!vars
  BY RefinementStep DEF AbstractStep, AbstractVars, Promise!vars
<1> QED
  BY <1>1, <1>2, Invariance, PTL DEF Spec, ImplementsPromise, Promise!Spec

=============================================================================
