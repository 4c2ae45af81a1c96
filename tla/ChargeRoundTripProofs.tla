----------------------- MODULE ChargeRoundTripProofs -----------------------
(***************************************************************************)
(* What an honest client and an honest server do to each other, for every  *)
(* way of setting them up.  The invariant says how the challenge follows   *)
(* from the set-up and the transaction from the challenge, and what is     *)
(* known of the ledger at each stage.                                      *)
(***************************************************************************)
EXTENDS ChargeRoundTrip, TLAPS

Live == stage \notin {"issue", "done"}

\* What the server asks, by its set-up.
AsIssued ==
    /\ challenge \in Challenge
    /\ challenge.currency =
         IF scenario.server = "rust" /\ scenario.asked = Unset
         THEN [scenario.configured EXCEPT !.lower = TRUE] ELSE Meant
    /\ challenge.program =
         IF scenario.server = "rust"
         THEN IF scenario.asked = Unset THEN Unset ELSE scenario.hint
         ELSE IF scenario.configured \in {Unset, Sol} THEN Unset
         ELSE IF scenario.hint # Unset THEN scenario.hint ELSE "token"
    /\ challenge.sponsored <=>
         (IF scenario.server = "rust" THEN scenario.feePayer ELSE scenario.signer)
    /\ challenge.key <=> Sponsors

Building == {"send", "confirm", "present", "simulate", "submit", "wait", "check"}

\* What the client has built of it.
AsBuilt ==
    /\ tx \in Transaction
    /\ PaidWith # "nothing"
    /\ tx.asset = PaidWith
    /\ tx.program = IF PaidWith = "sol" THEN Unset ELSE TokenProgram
    /\ tx.payer = IF ServerPaysFee THEN "server" ELSE "client"
    /\ tx.version = IF scenario.client = "ts" THEN "v0" ELSE "legacy"

\* Which stages belong to which mode, and what was checked before them.
ModeInv ==
    /\ stage \in {"send", "confirm"} => scenario.broadcast
    /\ stage \in {"simulate", "submit", "wait"} => ~scenario.broadcast /\ Takes
    /\ stage = "check" =>
         /\ scenario.server = "ts"
         /\ IF scenario.broadcast THEN ~challenge.sponsored ELSE Takes
    /\ stage \in {"confirm", "submit", "wait", "check"} => Executable
    /\ stage = "present" /\ scenario.broadcast => Executable

\* Whether the payment can have left.
LedgerInv ==
    /\ stage \in {"build", "send", "simulate", "submit"} =>
         ledger[payment] \in {"unsent", "expired"}
    /\ stage = "present" /\ ~scenario.broadcast =>
         ledger[payment] \in {"unsent", "expired"}
    /\ stage = "present" /\ scenario.broadcast => ledger[payment] = "confirmed"
    /\ stage = "check" => ledger[payment] = "confirmed"

Inv ==
    /\ TypeOK
    /\ stage = "issue" => ledger[payment] \in {"unsent", "expired"}
    /\ Live => AsIssued
    /\ stage \in Building => AsBuilt
    /\ ModeInv /\ LedgerInv
    /\ stage = "done" <=> outcome # "none"

-----------------------------------------------------------------------------

LEMMA Setups ==
    ASSUME TypeOK
    PROVE  /\ payment \in Tx /\ Unset \notin Currency \cup Program
           /\ scenario.server \in Party /\ scenario.client \in Party
           /\ scenario.broadcast \in BOOLEAN /\ scenario.feePayer \in BOOLEAN
           /\ scenario.signer \in BOOLEAN /\ scenario.funded \in BOOLEAN
           /\ scenario.configured \in Currency \cup {Unset}
           /\ scenario.asked \in Currency \cup {Unset}
           /\ scenario.hint \in Program \cup {Unset} /\ scenario.owner \in Program
           /\ scenario.server = "rust" => scenario.configured # Unset
           /\ scenario.client = "rust" => ~scenario.broadcast
BY RoundTripAssumption DEF TypeOK

\* A route means a currency.
LEMMA RouteIsCurrency ==
    ASSUME TypeOK
    PROVE  Meant \in Currency
BY Setups DEF Meant, Route, Sol, Currency

\* Submission puts an executable payment on its way, and nothing else moves.
LEMMA SubmitMoves ==
    ASSUME TypeOK, Submit(payment)
    PROVE  /\ ledger' \in [Tx -> TxStatus]
           /\ ledger'[payment] \in {"pending", "confirmed"}
           /\ ledger[payment] \in {"unsent", "pending", "confirmed"}
           /\ ledger[payment] = "confirmed" => ledger'[payment] = "confirmed"
BY RoundTripAssumption DEF TypeOK, LedgerType, Submit, TxStatus

LEMMA ResolveMoves ==
    ASSUME TypeOK, Resolve(payment)
    PROVE  /\ ledger' \in [Tx -> TxStatus]
           /\ ledger[payment] \in {"unsent", "pending"}
           /\ ledger'[payment] \in {"confirmed", "failed", "expired"}
           /\ ledger[payment] = "unsent" => ledger'[payment] = "expired"
BY RoundTripAssumption DEF TypeOK, LedgerType, Resolve, Confirm, Fail, Expire, TxStatus

-----------------------------------------------------------------------------

LEMMA InitInv == Init => Inv
BY RoundTripAssumption DEF Init, Inv, TypeOK, LedgerInit, LedgerType, TxStatus, Live, Building,
   ModeInv, LedgerInv, Stage, Outcome

\* A charge that ends: what ended it does not matter to the invariant.
LEMMA EndKeeps ==
    ASSUME Inv, NEW o \in Outcome \ {"none"}, End(o), LedgerType', faults' \in Nat
    PROVE  Inv'
BY DEF Inv, TypeOK, End, Live, Building, ModeInv, LedgerInv, Stage

\* A challenge is issued as the set-up says.
LEMMA IssueKeeps ==
    ASSUME Inv, NEW b \in BOOLEAN, IssueRust(b) \/ IssueTs(b) \/ IssueRustRequest
    PROVE  Inv'
<1>1. /\ stage = "issue" /\ stage' = "build" /\ UNCHANGED <<ledger, scenario, tx, outcome, faults>>
      /\ Live' /\ stage' \notin Building
  BY DEF IssueRust, IssueTs, IssueRustRequest, Challenged, Live, Building
<1>2. AsIssued'
  <2>1. CASE IssueRust(b)
    BY <1>1, <2>1, Setups DEF Inv, IssueRust, Challenged, AsIssued, Challenge, Currency, Sponsors,
       Meant, Route
  <2>2. CASE IssueRustRequest
    BY <1>1, <2>2, Setups DEF Inv, IssueRustRequest, Challenged, AsIssued, Challenge, Sponsors,
       Meant, Route
  <2>3. CASE IssueTs(b)
    <3>1. scenario.server = "ts" /\ scenario' = scenario /\ Sponsors' = Sponsors
      BY <1>1, <2>3 DEF IssueTs, Sponsors
    <3>2. challenge'.currency = Meant
      BY <2>3 DEF IssueTs, Challenged, Meant, Route
    <3>3. /\ challenge'.sponsored = scenario.signer /\ challenge'.key = scenario.signer
          /\ Sponsors = scenario.signer
      BY <2>3, <3>1, Setups DEF Inv, IssueTs, Challenged, Sponsors, Party
    <3>4. challenge'.program =
            IF scenario.configured \in {Unset, Sol} THEN Unset
            ELSE IF scenario.hint # Unset THEN scenario.hint ELSE "token"
      BY <2>3 DEF IssueTs, Challenged
    <3>5. challenge' \in Challenge
      <4>1. challenge'.program \in Program \cup {Unset}
        BY <3>4, Setups DEF Inv, Program
      <4>2. challenge' = [currency |-> challenge'.currency, program |-> challenge'.program,
                          sponsored |-> scenario.signer, key |-> scenario.signer,
                          blockhash |-> b]
        BY <2>3 DEF IssueTs, Challenged
      <4> QED
        BY <3>2, <4>1, <4>2, Setups, RouteIsCurrency DEF Inv, Challenge
    <3>6. Meant' = Meant
      BY <3>1 DEF Meant
    <3> QED
      BY <3>1, <3>2, <3>3, <3>4, <3>5, <3>6 DEF AsIssued
  <2> QED
    BY <2>1, <2>2, <2>3
<1> QED
  BY <1>1, <1>2 DEF Inv, TypeOK, LedgerType, ModeInv, LedgerInv, AsIssued, Stage

\* Whom the client pays and what it pays with is one of the few.
LEMMA BuildKeeps ==
    ASSUME Inv, Build
    PROVE  Inv'
<1>1. /\ stage = "build" /\ Live /\ stage' = IF scenario.broadcast THEN "send" ELSE "present"
      /\ UNCHANGED <<ledger, scenario, challenge, outcome, faults>>
      /\ PaidWith # "nothing" /\ AsIssued /\ TypeOK
  BY DEF Build, Inv, Live
<1>2. PaidWith' = PaidWith /\ TokenProgram' = TokenProgram /\ ServerPaysFee' = ServerPaysFee
  BY <1>1 DEF PaidWith, TokenProgram, ServerPaysFee
<1>3. /\ PaidWith \in {"sol", "token"} /\ TokenProgram \in Program
      /\ challenge.program \in Program \cup {Unset}
  BY <1>1, Setups DEF PaidWith, Paid, TokenProgram, AsIssued, Challenge
<1>4. AsBuilt'
  BY <1>1, <1>2, <1>3 DEF Build, AsBuilt, Transaction
<1>5. Live' /\ AsIssued' /\ stage' \in Stage /\ stage' # "issue"
  BY <1>1 DEF Live, AsIssued, Sponsors, Meant, Stage
<1>6. ModeInv' /\ LedgerInv'
  BY <1>1, Setups DEF Inv, ModeInv, LedgerInv
<1> QED
  BY <1>1, <1>4, <1>5, <1>6 DEF Inv, TypeOK, LedgerType, AsBuilt, Live

\* From one stage to the next, only what the stages stand for is to be shown.
LEMMA GotoKeeps ==
    ASSUME Inv, stage \in Building, NEW s \in Building, Goto(s),
           ledger' \in [Tx -> TxStatus], faults' = faults, ModeInv', LedgerInv'
    PROVE  Inv'
<1>1. /\ Live /\ Live' /\ stage' = s /\ s \in Stage
      /\ UNCHANGED <<scenario, challenge, tx, outcome>>
  BY DEF Building, Live, Goto, Stage
<1>2. AsIssued' /\ AsBuilt'
  BY <1>1 DEF Inv, AsIssued, AsBuilt, Sponsors, Meant, PaidWith, TokenProgram, ServerPaysFee
<1> QED
  BY <1>1, <1>2 DEF Inv, TypeOK, LedgerType, Building

\* Neither does a stage change what was checked of the set-up.
LEMMA GotoKnows ==
    ASSUME NEW s, Goto(s)
    PROVE  /\ stage' = s /\ (Executable' <=> Executable) /\ (Takes' <=> Takes)
           /\ UNCHANGED <<scenario, challenge, tx>>
BY DEF Goto, Executable, Takes, RustTakes, TsTakes

LEMMA StepKeeps == ASSUME Inv, Step PROVE Inv'
<1> USE DEF Building
<1>1. TypeOK /\ ledger \in [Tx -> TxStatus] /\ faults \in Nat
  BY DEF Inv, TypeOK, LedgerType
<1>2. ASSUME NEW o \in Outcome \ {"none"}, End(o), Quiet PROVE Inv'
  BY <1>1, <1>2, EndKeeps DEF Quiet, LedgerType
<1>3. ASSUME NEW s \in Building, stage \in Building, Goto(s), Quiet, ModeInv', LedgerInv'
      PROVE  Inv'
  BY <1>1, <1>3, GotoKeeps DEF Quiet
<1>4. {"served", "refused", "unbuilt", "gaveUp"} \subseteq Outcome \ {"none"}
  BY DEF Outcome
<1>5. ASSUME NEW b \in BOOLEAN, IssueRust(b) \/ IssueTs(b) PROVE Inv'
  BY <1>5, IssueKeeps
<1>6. CASE IssueRustRequest
  BY <1>6, IssueKeeps
<1>7. CASE Build
  BY <1>7, BuildKeeps
<1>8. CASE BuildRefused \/ ClientSendRefused \/ ClientGivesUp \/ ServerSendRefused \/ ServerGivesUp
  BY <1>2, <1>4, <1>8
     DEF BuildRefused, ClientSendRefused, ClientGivesUp, ServerSendRefused, ServerGivesUp
<1>9. CASE ClientSend
  <2>1. stage = "send" /\ Executable /\ Submit(payment) /\ Goto("confirm") /\ faults' = faults
    BY <1>9 DEF ClientSend
  <2>2. ModeInv' /\ LedgerInv'
    BY <2>1, GotoKnows DEF Inv, ModeInv, LedgerInv
  <2> QED
    BY <1>1, <2>1, <2>2, GotoKeeps, SubmitMoves
<1>10. CASE ClientConfirmed
  <2>1. /\ stage = "confirm" /\ ledger[payment] = "confirmed" /\ Goto("present") /\ Quiet
        /\ ledger' = ledger
    BY <1>10 DEF ClientConfirmed, Quiet
  <2>2. ModeInv' /\ LedgerInv'
    BY <2>1, GotoKnows DEF Inv, ModeInv, LedgerInv
  <2> QED
    BY <1>3, <2>1, <2>2
<1>11. CASE PresentTransaction
  <2>1. stage = "present" /\ ~scenario.broadcast /\ Quiet /\ ledger' = ledger
    BY <1>11 DEF PresentTransaction, Quiet
  <2>2. CASE Takes /\ Goto("simulate")
    <3>1. ModeInv' /\ LedgerInv'
      BY <2>1, <2>2, GotoKnows DEF Inv, ModeInv, LedgerInv
    <3> QED
      BY <1>3, <2>1, <2>2, <3>1
  <2>3. CASE End("refused")
    BY <1>2, <1>4, <2>1, <2>3
  <2> QED
    BY <1>11, <2>2, <2>3 DEF PresentTransaction
<1>12. CASE PresentSignature
  <2>1. stage = "present" /\ scenario.broadcast /\ Quiet /\ ledger' = ledger
    BY <1>12 DEF PresentSignature, Quiet
  <2>2. CASE /\ ~(scenario.server = "ts" /\ challenge.sponsored)
             /\ ~(scenario.server = "rust" /\ tx.version = "v0") /\ Goto("check")
    <3>1. tx.version = "v0"
      BY <1>1, <2>1, Setups DEF Inv, AsBuilt, Party
    <3>2. scenario.server = "ts" /\ ~challenge.sponsored
      BY <1>1, <2>2, <3>1, Setups DEF Party
    <3>3. ModeInv' /\ LedgerInv'
      BY <2>1, <2>2, <3>2, GotoKnows DEF Inv, ModeInv, LedgerInv
    <3> QED
      BY <1>3, <2>1, <2>2, <3>3
  <2>3. CASE End("refused")
    BY <1>2, <1>4, <2>1, <2>3
  <2> QED
    BY <1>12, <2>2, <2>3 DEF PresentSignature
<1>13. CASE Simulate
  <2>1. stage = "simulate" /\ Quiet /\ ledger' = ledger
    BY <1>13 DEF Simulate, Quiet
  <2>2. CASE Executable /\ Goto("submit")
    <3>1. ModeInv' /\ LedgerInv'
      BY <2>1, <2>2, GotoKnows DEF Inv, ModeInv, LedgerInv
    <3> QED
      BY <1>3, <2>1, <2>2, <3>1
  <2>3. CASE End("refused")
    BY <1>2, <1>4, <2>1, <2>3
  <2> QED
    BY <1>13, <2>2, <2>3 DEF Simulate
<1>14. CASE ServerSend
  <2>1. stage = "submit" /\ Submit(payment) /\ Goto("wait") /\ faults' = faults
    BY <1>14 DEF ServerSend
  <2>2. ModeInv' /\ LedgerInv'
    BY <2>1, GotoKnows DEF Inv, ModeInv, LedgerInv
  <2> QED
    BY <1>1, <2>1, <2>2, GotoKeeps, SubmitMoves
<1>15. CASE ServerConfirmed
  <2>1. stage = "wait" /\ ledger[payment] = "confirmed" /\ Quiet /\ ledger' = ledger
    BY <1>15 DEF ServerConfirmed, Quiet
  <2>2. CASE scenario.server = "ts" /\ Goto("check")
    <3>1. ModeInv' /\ LedgerInv'
      BY <2>1, <2>2, GotoKnows DEF Inv, ModeInv, LedgerInv
    <3> QED
      BY <1>3, <2>1, <2>2, <3>1
  <2>3. CASE End("served")
    BY <1>2, <1>4, <2>1, <2>3
  <2> QED
    BY <1>15, <2>2, <2>3 DEF ServerConfirmed
<1>16. CASE Check
  BY <1>2, <1>4, <1>16 DEF Check
<1> QED
  BY <1>5, <1>6, <1>7, <1>8, <1>9, <1>10, <1>11, <1>12, <1>13, <1>14, <1>15, <1>16 DEF Step

LEMMA NextInv == Inv /\ [Next]_vars => Inv'
<1> SUFFICES ASSUME Inv, [Next]_vars PROVE Inv'
  OBVIOUS
<1>1. TypeOK /\ ledger \in [Tx -> TxStatus] /\ faults \in Nat
  BY DEF Inv, TypeOK, LedgerType
<1>2. {"unbuilt", "gaveUp"} \subseteq Outcome \ {"none"}
  BY DEF Outcome
<1>3. CASE Step
  BY <1>3, StepKeeps
<1>4. CASE BuildFault
  BY <1>1, <1>2, <1>4, EndKeeps DEF BuildFault, Fault, LedgerType
<1>5. CASE ClientSendFault
  BY <1>1, <1>2, <1>5, EndKeeps, SubmitMoves DEF ClientSendFault, Fault, LedgerType
<1>6. CASE ServerFault
  BY <1>1, <1>2, <1>6, EndKeeps, SubmitMoves DEF ServerFault, Fault, LedgerType
<1>7. CASE Network
  <2>1. UNCHANGED <<scenario, challenge, tx, stage, outcome, faults>> /\ Resolve(payment)
    BY <1>7 DEF Network
  <2>2. LedgerInv'
    BY <1>1, <2>1, ResolveMoves DEF Inv, LedgerInv
  <2>3. ModeInv'
    BY <2>1 DEF Inv, ModeInv, Executable, Takes, RustTakes, TsTakes
  <2>4. /\ Live => AsIssued'
        /\ stage \in Building => AsBuilt'
    BY <2>1 DEF Inv, AsIssued, AsBuilt, Sponsors, Meant, PaidWith, TokenProgram, ServerPaysFee
  <2>5. TypeOK'
    BY <1>1, <2>1, ResolveMoves DEF TypeOK, LedgerType
  <2>6. stage = "issue" => ledger'[payment] \in {"unsent", "expired"}
    BY <1>1, <2>1, ResolveMoves DEF Inv
  <2>7. (Live' <=> Live) /\ (stage' \in Building' <=> stage \in Building) /\ Building' = Building
    BY <2>1 DEF Live, Building
  <2> HIDE DEF Building
  <2> QED
    BY <2>1, <2>2, <2>3, <2>4, <2>5, <2>6, <2>7 DEF Inv
<1>8. CASE UNCHANGED vars
  BY <1>8 DEF vars, Inv, TypeOK, LedgerType, Live, AsIssued, AsBuilt, ModeInv, LedgerInv,
     Sponsors, Meant, PaidWith, TokenProgram, ServerPaysFee, Executable, Takes, RustTakes, TsTakes
<1> QED
  BY <1>3, <1>4, <1>5, <1>6, <1>7, <1>8 DEF Next

\* The invariant of a charge, for every set of set-ups.
THEOREM Invariance == Spec => []Inv
BY InitInv, NextInv, PTL DEF Spec

\* TypeOK for every set of set-ups.
THEOREM TypeCorrectness == Spec => []TypeOK
<1>1. Inv => TypeOK
  BY DEF Inv
<1> QED
  BY <1>1, Invariance, PTL

-----------------------------------------------------------------------------

\* What has ended stays as it is, but for the ledger.
LEMMA DoneIsDone ==
    ASSUME Inv, [Next]_vars, stage = "done"
    PROVE  /\ UNCHANGED <<scenario, challenge, tx, stage, outcome, faults>>
           /\ ledger' = ledger \/ Resolve(payment)
BY DEF Next, Step, IssueRust, IssueTs, IssueRustRequest, Challenged, Build, BuildRefused,
   ClientSend, ClientSendRefused, ClientConfirmed, ClientGivesUp, PresentTransaction,
   PresentSignature, Simulate, ServerSend, ServerSendRefused, ServerConfirmed, ServerGivesUp,
   Check, BuildFault, ClientSendFault, ServerFault, Network, vars

\* The two places where a receipt is given.
LEMMA Serving ==
    ASSUME Inv, [Next]_vars, stage # "done", outcome' = "served"
    PROVE  /\ ledger[payment] = "confirmed"
           /\ UNCHANGED <<ledger, scenario, challenge, tx>>
           /\ stage = "wait" \/ stage = "check"
<1>1. outcome = "none"
  BY DEF Inv
<1>2. ServerConfirmed \/ Check
  BY <1>1 DEF Next, Step, IssueRust, IssueTs, IssueRustRequest, Challenged, Build, BuildRefused,
     ClientSend, ClientSendRefused, ClientConfirmed, ClientGivesUp, PresentTransaction,
     PresentSignature, Simulate, ServerSend, ServerSendRefused, ServerGivesUp,
     BuildFault, ClientSendFault, ServerFault, Network, vars, Goto, End
<1> QED
  BY <1>1, <1>2 DEF ServerConfirmed, Check, Goto, End, Quiet, Inv, LedgerInv

\* What is built is paid with the asset that is meant, by the side that offered.
LEMMA BuiltAsMeant ==
    ASSUME TypeOK, AsIssued, AsBuilt
    PROVE  /\ tx.asset = IF Meant.name = "sol" THEN "sol" ELSE "token"
           /\ ~scenario.broadcast => ((tx.payer = "server") <=> Sponsors)
           /\ scenario.broadcast => tx.payer = "client"
<1>1. challenge.currency.name = Meant.name
  BY Setups, RouteIsCurrency DEF AsIssued, Meant, Route, Currency
<1>2. PaidWith = IF challenge.currency.name = "sol" THEN "sol" ELSE "token"
  BY DEF AsBuilt, PaidWith, Paid, Sol, Mint
<1>3. challenge.sponsored /\ challenge.key <=> Sponsors
  BY Setups DEF AsIssued, Sponsors, Party
<1> QED
  BY <1>1, <1>2, <1>3 DEF AsBuilt, ServerPaysFee

LEMMA ServedStep == Inv /\ ServedIsMeant /\ [Next]_vars => ServedIsMeant'
<1> SUFFICES ASSUME Inv, ServedIsMeant, [Next]_vars, outcome' = "served"
             PROVE  ServedIsMeant'
  BY DEF ServedIsMeant
<1>1. CASE stage = "done"
  <2>1. UNCHANGED <<scenario, challenge, tx, outcome>> /\ (ledger' = ledger \/ Resolve(payment))
    BY <1>1, DoneIsDone
  <2>2. ledger' = ledger
    BY <2>1, ResolveMoves DEF Inv, ServedIsMeant
  <2> QED
    BY <2>1, <2>2 DEF ServedIsMeant, Meant, Sponsors
<1>2. CASE stage # "done"
  <2>1. /\ ledger'[payment] = "confirmed" /\ UNCHANGED <<scenario, tx>>
        /\ stage = "wait" \/ stage = "check"
    BY <1>2, Serving
  <2>2. TypeOK /\ AsIssued /\ AsBuilt
    BY <2>1 DEF Inv, Live, Building
  <2>3. (tx.payer = "server") <=> Sponsors
    <3>1. CASE scenario.broadcast
      <4>1. stage = "check" /\ scenario.server = "ts" /\ ~challenge.sponsored
        BY <2>1, <3>1 DEF Inv, ModeInv
      <4>2. ~Sponsors
        BY <2>2, <4>1 DEF AsIssued, Sponsors
      <4> QED
        BY <2>2, <3>1, <4>2, BuiltAsMeant
    <3> QED
      BY <2>2, <3>1, BuiltAsMeant
  <2> QED
    BY <2>1, <2>2, <2>3, BuiltAsMeant DEF ServedIsMeant, Meant, Sponsors
<1> QED
  BY <1>1, <1>2

\* ServedIsMeant for every set of set-ups, those included in which the two sides
\* do not understand each other: they may fail, but not be served amiss.
THEOREM ServiceIsMeant == Spec => []ServedIsMeant
<1>1. Init => ServedIsMeant
  BY DEF Init, ServedIsMeant
<1> QED
  BY <1>1, InitInv, NextInv, ServedStep, PTL DEF Spec

-----------------------------------------------------------------------------

\* A payment in the currency of the route and under the program of the mint is
\* what the TypeScript server looks for.
LEMMA HonestMatches ==
    ASSUME TypeOK, AsIssued, AsBuilt, Executable, scenario.server = "ts", ~Astray(scenario)
    PROVE  TsMatches
<1>1. challenge.currency = Meant /\ challenge.program \in Program \cup {Unset}
  BY DEF AsIssued, Challenge
<1>2. CASE Meant = Sol
  <2>1. PaidWith = "sol"
    BY <1>1, <1>2 DEF PaidWith, Paid, Sol, Mint
  <2> QED
    BY <1>1, <1>2, <2>1 DEF AsBuilt, TsMatches
<1>3. CASE Meant = Mint
  <2>1. PaidWith = "token" /\ tx.asset = "token"
    BY <1>1, <1>3 DEF AsBuilt, PaidWith, Paid, Sol, Mint
  <2>2. tx.program = TokenProgram /\ tx.program = scenario.owner
    BY <2>1 DEF AsBuilt, Executable
  <2>3. challenge.program = Unset => scenario.owner = "token"
    <3>1. CASE scenario.configured \in {Unset, Sol}
      BY <1>3, <3>1, Setups DEF Astray, UnhintedMint, Meant, Program
    <3>2. CASE scenario.configured \notin {Unset, Sol}
      BY <3>2, Setups DEF AsIssued, Program
    <3> QED
      BY <3>1, <3>2
  <2> QED
    BY <1>1, <1>3, <2>1, <2>2, <2>3 DEF TsMatches, TokenProgram
<1>4. Meant \in {Sol, Mint}
  BY <1>1, Setups DEF Astray, SpelledByRoute, Meant, AsBuilt, PaidWith, Paid, Party
<1> QED
  BY <1>2, <1>3, <1>4

\* When a charge ends with an error that is a verdict, its payment is not out.
LEMMA RefusedStep ==
    ASSUME \A s \in Scenario : ~Astray(s)
    PROVE  Inv /\ RefusedIsFree /\ [Next]_vars => RefusedIsFree'
<1> SUFFICES ASSUME Inv, RefusedIsFree, [Next]_vars, outcome' \in {"unbuilt", "refused"}
             PROVE  ledger'[payment] \notin {"pending", "confirmed"}
  BY DEF RefusedIsFree
<1>2. TypeOK /\ ~Astray(scenario)
  BY DEF Inv, TypeOK
<1>3. CASE stage = "done"
  <2>1. outcome' = outcome /\ (ledger' = ledger \/ Resolve(payment))
    BY <1>3, DoneIsDone
  <2> QED
    BY <1>2, <2>1, ResolveMoves DEF RefusedIsFree
<1>4. CASE stage # "done"
  <2>1. outcome = "none"
    BY <1>4 DEF Inv
  <2>2. CASE BuildRefused \/ BuildFault
    BY <2>2 DEF BuildRefused, BuildFault, Quiet, Inv, LedgerInv
  <2>3. CASE ClientSendRefused
    BY <2>3 DEF ClientSendRefused, Quiet, Inv, LedgerInv
  <2>4. CASE PresentTransaction
    BY <2>4 DEF PresentTransaction, Quiet, Inv, LedgerInv
  <2>5. CASE PresentSignature
    <3>1. stage = "present" /\ scenario.broadcast /\ AsIssued
      BY <2>5 DEF PresentSignature, Inv, Live
    <3>2. scenario.server = "ts" /\ ~challenge.sponsored
      BY <1>2, <3>1, Setups DEF Astray, SponsoredPush, VersionedPush, AsIssued, Party
    <3> QED
      BY <2>1, <2>5, <3>2 DEF PresentSignature, Goto
  <2>6. CASE Simulate
    BY <2>6 DEF Simulate, Quiet, Inv, LedgerInv
  <2>7. CASE ServerSendRefused
    BY <2>7 DEF ServerSendRefused, Quiet
  <2>8. CASE Check
    <3>1. AsIssued /\ AsBuilt /\ Executable /\ scenario.server = "ts" /\ TsMatches
      BY <1>2, <2>8, HonestMatches DEF Check, Inv, Live, Building, ModeInv
    <3> QED
      BY <2>1, <2>8, <3>1 DEF Check, End
  <2>9. ASSUME ~(BuildRefused \/ BuildFault), ~ClientSendRefused, ~PresentTransaction,
               ~PresentSignature, ~Simulate, ~ServerSendRefused, ~Check
        PROVE  FALSE
    BY <2>1, <2>9 DEF Next, Step, IssueRust, IssueTs, IssueRustRequest, Challenged, Build,
       ClientSend, ClientConfirmed, ClientGivesUp, ServerSend, ServerConfirmed, ServerGivesUp,
       ClientSendFault, ServerFault, Network, vars, Goto, End
  <2> QED
    BY <2>2, <2>3, <2>4, <2>5, <2>6, <2>7, <2>8, <2>9
<1> QED
  BY <1>3, <1>4

\* RefusedIsFree for every set of set-ups that keeps clear of the four families:
\* there is no fifth.
THEOREM RefusalIsFree ==
    ASSUME \A s \in Scenario : ~Astray(s)
    PROVE  Spec => []RefusedIsFree
<1>1. Init => RefusedIsFree
  BY DEF Init, RefusedIsFree
<1>2. Inv /\ RefusedIsFree /\ [Next]_vars => RefusedIsFree'
  BY RefusedStep
<1> QED
  BY <1>1, <1>2, InitInv, NextInv, PTL DEF Spec

-----------------------------------------------------------------------------

\* Where the set-ups agree, nothing is astray.
LEMMA AgreedIsNotAstray ==
    ASSUME TypeOK, Compatible
    PROVE  ~Astray(scenario)
<1>1. ~SponsoredPush(scenario) /\ ~VersionedPush(scenario)
  BY Setups DEF Compatible, FeeIsShared, VersionIsShared, Sponsors, SponsoredPush, VersionedPush,
     Party
<1>2. ~SpelledByRoute(scenario)
  BY DEF Compatible, CurrencyIsShared, SpelledByRoute, Meant
<1>3. ~UnhintedMint(scenario)
  BY DEF Compatible, ProgramIsShared, UnhintedMint, Meant, Mint
<1> QED
  BY <1>1, <1>2, <1>3 DEF Astray

\* There is something to build, it can be executed, and both servers take it.
LEMMA AgreedIsUnderstood ==
    ASSUME Inv, Compatible
    PROVE  /\ Live => PaidWith # "nothing"
           /\ stage \in Building => Executable /\ (~scenario.broadcast => Takes)
           /\ stage = "present" /\ scenario.broadcast =>
                scenario.server = "ts" /\ ~challenge.sponsored
<1>1. TypeOK
  BY DEF Inv
<1>2. ASSUME Live PROVE PaidWith # "nothing"
  <2>1. AsIssued
    BY <1>2 DEF Inv
  <2>2. CASE scenario.server = "ts"
    <3>1. challenge.currency \in {Sol, Mint}
      BY <2>1, <2>2 DEF AsIssued, Compatible, CurrencyIsShared
    <3> QED
      BY <3>1 DEF PaidWith, Paid, Sol, Mint
  <2>3. CASE scenario.server = "rust" /\ scenario.asked = Unset
    <3>1. scenario.client = "rust"
      BY <1>1, <2>3, Setups DEF Compatible, VersionIsShared, Party
    <3>2. challenge.currency.name \in {"sol", "symbol"}
      BY <1>1, <2>1, <2>3, Setups, RouteIsCurrency
         DEF AsIssued, Compatible, CurrencyIsShared, Meant, Route, Currency
    <3> QED
      BY <3>1, <3>2 DEF PaidWith, Paid, Mint, Sol
  <2>4. CASE scenario.server = "rust" /\ scenario.asked # Unset
    <3>1. scenario.client = "rust"
      BY <1>1, <2>4, Setups DEF Compatible, VersionIsShared, Party
    <3>2. challenge.currency = Meant /\ (Meant.name = "mint" => Meant = Mint)
      BY <2>1, <2>4 DEF AsIssued, Compatible, CurrencyIsShared
    <3>3. Meant.name \in {"sol", "symbol", "mint"}
      BY <1>1, RouteIsCurrency DEF Currency
    <3> QED
      BY <3>1, <3>2, <3>3 DEF PaidWith, Paid, Mint, Sol
  <2> QED
    BY <1>1, <2>2, <2>3, <2>4, Setups DEF Party
<1>3. ASSUME stage \in Building PROVE Executable /\ (~scenario.broadcast => Takes)
  <2>1. AsIssued /\ AsBuilt
    BY <1>3 DEF Inv, Live, Building
  <2>2. tx.asset = "token" => tx.program = scenario.owner
    <3> SUFFICES ASSUME tx.asset = "token" PROVE tx.program = scenario.owner
      OBVIOUS
    <3>1. Meant.name # "sol" /\ tx.program = TokenProgram
      BY <1>1, <2>1, BuiltAsMeant DEF AsBuilt
    <3>2. challenge.program \in {Unset, scenario.owner}
      <4>1. CASE scenario.server = "rust"
        BY <2>1, <3>1, <4>1 DEF AsIssued, Compatible, ProgramIsShared
      <4>2. CASE scenario.server = "ts"
        BY <2>1, <3>1, <4>2 DEF AsIssued, Compatible, ProgramIsShared
      <4> QED
        BY <1>1, <4>1, <4>2, Setups DEF Party
    <3> QED
      BY <3>1, <3>2 DEF TokenProgram
  <2>3. ASSUME ~scenario.broadcast PROVE Takes
    <3>1. (tx.payer = "server") <=> Sponsors
      BY <1>1, <2>1, <2>3, BuiltAsMeant
    <3>2. CASE scenario.server = "rust"
      <4>1. scenario.client = "rust"
        BY <1>1, <3>2, Setups DEF Compatible, VersionIsShared, Party
      <4> QED
        BY <2>1, <3>1, <3>2, <4>1
           DEF AsBuilt, AsIssued, Takes, RustTakes, Compatible, FeeIsShared, Sponsors
    <3>3. CASE scenario.server = "ts"
      BY <3>1, <3>3 DEF Takes, TsTakes, Sponsors
    <3> QED
      BY <1>1, <3>2, <3>3, Setups DEF Party
  <2> QED
    BY <2>2, <2>3 DEF Executable, Compatible
<1>4. ASSUME stage = "present", scenario.broadcast
      PROVE  scenario.server = "ts" /\ ~challenge.sponsored
  <2>1. AsIssued /\ scenario.server = "ts" /\ ~Sponsors
    BY <1>1, <1>4, Setups
       DEF Inv, Live, Compatible, FeeIsShared, VersionIsShared, Party
  <2> QED
    BY <2>1 DEF AsIssued, Sponsors
<1> QED
  BY <1>2, <1>3, <1>4

\* Time, the cluster, or failures.
Excused ==
    \/ faults > 0
    \/ ledger[payment] \in {"expired", "failed"}
    \/ outcome = "gaveUp" /\ "ts" \in {scenario.client, scenario.server}

LEMMA AgreedStep ==
    Inv /\ AgreementIsEnough /\ [Next]_vars => AgreementIsEnough'
<1> SUFFICES ASSUME Inv, AgreementIsEnough, [Next]_vars, Compatible', stage' = "done",
                    outcome' # "served"
             PROVE  Excused'
  BY DEF AgreementIsEnough, Excused
<1>1. scenario' = scenario
  BY DEF Next, Step, IssueRust, IssueTs, IssueRustRequest, Challenged, Build, BuildRefused,
     ClientSend, ClientSendRefused, ClientConfirmed, ClientGivesUp, PresentTransaction,
     PresentSignature, Simulate, ServerSend, ServerSendRefused, ServerConfirmed, ServerGivesUp,
     Check, BuildFault, ClientSendFault, ServerFault, Network, vars, Goto, End
<1>2. Compatible /\ TypeOK /\ faults \in Nat
  BY <1>1 DEF Inv, TypeOK, Compatible, CurrencyIsShared, ProgramIsShared, FeeIsShared,
     VersionIsShared, Meant, Sponsors
<1>3. CASE stage = "done"
  <2>1. /\ UNCHANGED <<scenario, stage, outcome, faults>>
        /\ ledger' = ledger \/ Resolve(payment)
    BY <1>3, DoneIsDone
  <2>2. Excused
    BY <1>2, <1>3, <2>1 DEF AgreementIsEnough, Excused
  <2> QED
    BY <1>2, <2>1, <2>2, ResolveMoves DEF Excused
<1>4. CASE stage # "done"
  <2>1. CASE BuildRefused
    BY <1>2, <2>1, AgreedIsUnderstood DEF BuildRefused, Live
  <2>2. CASE ClientSendRefused
    BY <1>2, <2>2, AgreedIsUnderstood DEF ClientSendRefused, Quiet, Building, Excused
  <2>3. CASE PresentTransaction
    BY <1>2, <2>3, AgreedIsUnderstood DEF PresentTransaction, Building, Goto
  <2>4. CASE PresentSignature
    BY <1>2, <2>4, AgreedIsUnderstood DEF PresentSignature, Goto
  <2>5. CASE Simulate
    BY <1>2, <2>5, AgreedIsUnderstood
       DEF Simulate, Building, Goto, Quiet, SimulationCanPass, Inv, LedgerInv, Excused
  <2>6. CASE ServerSendRefused
    BY <2>6 DEF ServerSendRefused, Quiet, Excused
  <2>7. CASE ServerConfirmed
    BY <2>7 DEF ServerConfirmed, Goto, End
  <2>8. CASE Check
    <3>1. TsMatches
      BY <1>2, <2>8, AgreedIsNotAstray, HonestMatches DEF Check, Inv, Live, Building, ModeInv
    <3> QED
      BY <2>8, <3>1 DEF Check, End
  <2>9. CASE ClientGivesUp
    <3>1. scenario.client = "ts"
      BY <1>2, <2>9, Setups DEF ClientGivesUp, Inv, ModeInv, Party
    <3> QED
      BY <2>9, <3>1 DEF ClientGivesUp, End, Excused
  <2>10. CASE ServerGivesUp
    BY <2>10 DEF ServerGivesUp, End, Quiet, Excused
  <2>11. CASE BuildFault \/ ClientSendFault \/ ServerFault
    BY <1>2, <2>11 DEF BuildFault, ClientSendFault, ServerFault, Fault, Excused
  <2>12. ASSUME ~BuildRefused, ~ClientSendRefused, ~PresentTransaction, ~PresentSignature,
                ~Simulate, ~ServerSendRefused, ~ServerConfirmed, ~Check, ~ClientGivesUp,
                ~ServerGivesUp, ~(BuildFault \/ ClientSendFault \/ ServerFault)
         PROVE  FALSE
    BY <1>4, <2>12 DEF Next, Step, IssueRust, IssueTs, IssueRustRequest, Challenged, Build,
       ClientSend, ClientConfirmed, ServerSend, Network, vars, Goto
  <2> QED
    BY <2>1, <2>2, <2>3, <2>4, <2>5, <2>6, <2>7, <2>8, <2>9, <2>10, <2>11, <2>12
<1> QED
  BY <1>3, <1>4

\* AgreementIsEnough for every set of set-ups and any number of failures.
THEOREM AgreementSuffices == Spec => []AgreementIsEnough
<1>1. Init => AgreementIsEnough
  BY DEF Init, AgreementIsEnough
<1> QED
  BY <1>1, InitInv, NextInv, AgreedStep, PTL DEF Spec
=============================================================================
