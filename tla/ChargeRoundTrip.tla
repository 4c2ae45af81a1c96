-------------------------- MODULE ChargeRoundTrip --------------------------
(***************************************************************************)
(* One charge from its challenge to its receipt, between either client and *)
(* either server of the repository, both honest.  What is followed is what *)
(* the two sides have to agree on without having talked about it: how the  *)
(* currency is spelled, which token program the mint belongs to, who pays  *)
(* the fee, who broadcasts, and the version of the transaction.  That the  *)
(* transfers of an honest client match is shown in TransferMatching, what  *)
(* concurrent calls do in RustServer and TsServer.                         *)
(***************************************************************************)
EXTENDS SolanaNetwork

CONSTANTS
    payment,    \* the transaction of this charge
    Scenario,   \* how server and client are set up
    Unset,      \* an option that is not given
    MaxFaults   \* bound of the model: failures of RPC

Party == {"rust", "ts"}

\* "mint" in lower case is a text that names no mint any more.
Currency == [name : {"sol", "symbol", "mint"}, lower : BOOLEAN]

Sol == [name |-> "sol", lower |-> TRUE]
Mint == [name |-> "mint", lower |-> FALSE]

Program == {"token", "token2022"}

ASSUME RoundTripAssumption ==
    /\ payment \in Tx
    /\ Unset \notin Currency \cup Program
    /\ Scenario \subseteq
         [server : Party, client : Party,
          broadcast : BOOLEAN,                  \* parameter of the TS client
          configured : Currency \cup {Unset},   \* currency of the server
          asked : Currency \cup {Unset},        \* currency of the route
          hint : Program \cup {Unset},          \* tokenProgram of the server
          owner : Program,                      \* program that owns the mint
          feePayer : BOOLEAN,                   \* Config.fee_payer (Rust)
          signer : BOOLEAN,                     \* the server has a fee payer key
          funded : BOOLEAN]                     \* the client can pay
    /\ \A s \in Scenario :
          /\ s.server = "rust" => s.configured # Unset
          /\ s.client = "rust" => ~s.broadcast
    /\ MaxFaults \in Nat

VARIABLES
    scenario,   \* the set-up of this charge
    challenge,  \* what the server asked
    tx,         \* what the client built
    stage,      \* where the charge is
    outcome,    \* how it ended
    faults      \* failures so far

vars == <<ledger, scenario, challenge, tx, stage, outcome, faults>>

Challenge == [currency : Currency, program : Program \cup {Unset},
              sponsored : BOOLEAN, key : BOOLEAN, blockhash : BOOLEAN]

Transaction == [asset : {"sol", "token"}, program : Program \cup {Unset},
                payer : {"client", "server"}, version : {"legacy", "v0"}]

Stage == {"issue", "build", "send", "confirm", "present", "simulate",
          "submit", "wait", "check", "done"}

\* "refused": the server's verdict; "unbuilt": the client threw before anything
\* was sent; "gaveUp": a failure or a time limit, which is no verdict.
Outcome == {"none", "served", "refused", "unbuilt", "gaveUp"}

Init ==
    /\ LedgerInit
    /\ scenario \in Scenario
    /\ challenge = Unset
    /\ tx = Unset
    /\ stage = "issue"
    /\ outcome = "none"
    /\ faults = 0

Goto(s) ==
    /\ stage' = s
    /\ UNCHANGED <<scenario, challenge, tx, outcome>>

End(o) ==
    /\ stage' = "done" /\ outcome' = o
    /\ UNCHANGED <<scenario, challenge, tx>>

Fault == faults < MaxFaults /\ faults' = faults + 1
Quiet == UNCHANGED <<ledger, faults>>

-----------------------------------------------------------------------------
(***************************************************************************)
(* Issuing.  The blockhash is left out when the server's RPC fails.        *)
(***************************************************************************)
Challenged(c) ==
    /\ stage = "issue"
    /\ challenge' = c /\ stage' = "build"
    /\ UNCHANGED <<ledger, scenario, tx, outcome, faults>>

\* charge(): the currency was lower-cased when the server was configured.
IssueRust(blockhash) ==
    /\ scenario.server = "rust" /\ scenario.asked = Unset
    /\ Challenged([currency |-> [scenario.configured EXCEPT !.lower = TRUE],
                   program |-> Unset,
                   sponsored |-> scenario.feePayer,
                   key |-> scenario.feePayer /\ scenario.signer,
                   blockhash |-> blockhash])

\* charge_challenge(): the route writes the request, as it is.
IssueRustRequest ==
    /\ scenario.server = "rust" /\ scenario.asked # Unset
    /\ Challenged([currency |-> scenario.asked,
                   program |-> scenario.hint,
                   sponsored |-> scenario.feePayer,
                   key |-> scenario.feePayer /\ scenario.signer,
                   blockhash |-> FALSE])

\* Mutant: the currency of the method wins over that of the route.
IssueTsConfigured(blockhash) ==
    /\ scenario.server = "ts"
    /\ Challenged([currency |-> IF scenario.configured # Unset
                                THEN scenario.configured ELSE Sol,
                   program |-> Unset,
                   sponsored |-> scenario.signer,
                   key |-> scenario.signer,
                   blockhash |-> blockhash])

\* Mutant: the token program is not announced.
IssueTsUnhinted(blockhash) ==
    /\ scenario.server = "ts"
    /\ Challenged([currency |-> CASE scenario.asked # Unset -> scenario.asked
                                  [] scenario.asked = Unset
                                     /\ scenario.configured # Unset
                                       -> scenario.configured
                                  [] OTHER -> Sol,
                   program |-> Unset,
                   sponsored |-> scenario.signer,
                   key |-> scenario.signer,
                   blockhash |-> blockhash])

IssueTs(blockhash) ==
    /\ scenario.server = "ts"
    /\ Challenged([currency |-> CASE scenario.asked # Unset -> scenario.asked
                                  [] scenario.asked = Unset
                                     /\ scenario.configured # Unset
                                       -> scenario.configured
                                  [] OTHER -> Sol,
                   program |-> IF scenario.configured \in {Unset, Sol} THEN Unset
                               ELSE IF scenario.hint # Unset THEN scenario.hint
                               ELSE "token",
                   sponsored |-> scenario.signer,
                   key |-> scenario.signer,
                   blockhash |-> blockhash])

-----------------------------------------------------------------------------
(***************************************************************************)
(* The client builds and signs.                                            *)
(***************************************************************************)

\* What is paid with: the Rust client knows symbols in any case, the
\* TypeScript client "sol" and addresses.
\* Mutant: the symbol is compared as it is.
PaidExactly(client, c) ==
    CASE c = Sol -> "sol"
      [] c = Mint \/ (client = "rust" /\ c.name = "symbol" /\ ~c.lower) -> "token"
      [] OTHER -> "nothing"

Paid(client, c) ==
    CASE c = Sol \/ (client = "rust" /\ c.name = "sol") -> "sol"
      [] c = Mint \/ (client = "rust" /\ c.name = "symbol") -> "token"
      [] OTHER -> "nothing"

PaidWith == Paid(scenario.client, challenge.currency)

ServerPaysFee == challenge.sponsored /\ challenge.key /\ ~scenario.broadcast

\* resolve_token_program: the announced one, else the owner of the mint's
\* account, which is one of the two.
TokenProgram ==
    IF challenge.program # Unset THEN challenge.program ELSE scenario.owner

\* Mutant: the fee payer of the message is the key of the challenge, even if
\* there is none.
BuildKeyless ==
    /\ stage = "build" /\ PaidWith # "nothing"
    /\ tx' = [asset |-> PaidWith, program |-> scenario.owner,
              payer |-> IF challenge.key THEN "server" ELSE Unset,
              version |-> "legacy"]
    /\ stage' = IF scenario.broadcast THEN "send" ELSE "present"
    /\ UNCHANGED <<ledger, scenario, challenge, outcome, faults>>

Build ==
    /\ stage = "build" /\ PaidWith # "nothing"
    /\ tx' = [asset |-> PaidWith,
              program |-> IF PaidWith = "sol" THEN Unset ELSE TokenProgram,
              payer |-> IF ServerPaysFee THEN "server" ELSE "client",
              version |-> IF scenario.client = "ts" THEN "v0" ELSE "legacy"]
    /\ stage' = IF scenario.broadcast THEN "send" ELSE "present"
    /\ UNCHANGED <<ledger, scenario, challenge, outcome, faults>>

\* What is left of the currency is not the address of a mint.
BuildRefused ==
    /\ stage = "build" /\ PaidWith = "nothing"
    /\ End("unbuilt")
    /\ Quiet

\* The owner of the mint or the blockhash could not be fetched.
BuildFault ==
    /\ stage = "build" /\ PaidWith # "nothing"
    /\ ~challenge.blockhash \/ (PaidWith = "token" /\ challenge.program = Unset)
    /\ Fault
    /\ End("unbuilt")
    /\ UNCHANGED ledger

-----------------------------------------------------------------------------
(***************************************************************************)
(* Push mode, at the TypeScript client: send and wait 30 seconds.          *)
(***************************************************************************)

\* The cluster executes it, unless it is late.
Executable ==
    /\ scenario.funded
    /\ tx.asset = "token" => tx.program = scenario.owner

ClientSend ==
    /\ stage = "send" /\ Executable
    /\ Submit(payment)
    /\ Goto("confirm")
    /\ UNCHANGED faults

\* The preflight fails.
ClientSendRefused ==
    /\ stage = "send"
    /\ ~Executable \/ ledger[payment] = "expired"
    /\ End("unbuilt")
    /\ Quiet

\* The answer to sendTransaction is lost.
ClientSendFault ==
    /\ stage = "send"
    /\ Fault
    /\ (Executable /\ Submit(payment)) \/ UNCHANGED ledger
    /\ End("gaveUp")

ClientConfirmed ==
    /\ stage = "confirm" /\ ledger[payment] = "confirmed"
    /\ Goto("present")
    /\ Quiet

\* confirmTransaction throws: the error of the transaction, or the time limit.
ClientGivesUp ==
    /\ stage = "confirm"
    /\ End("gaveUp")
    /\ Quiet

-----------------------------------------------------------------------------
(***************************************************************************)
(* The servers.                                                            *)
(***************************************************************************)

\* The Rust server reads legacy transactions only, and wants its key among
\* the accounts when the request is sponsored.
RustTakes ==
    /\ tx.version = "legacy"
    /\ challenge.sponsored => scenario.signer /\ tx.payer = "server"

\* The TypeScript server co-signs whenever it has a signer.
TsTakes == scenario.signer => tx.payer = "server"

Takes == IF scenario.server = "rust" THEN RustTakes ELSE TsTakes

\* Pull mode, before the simulation.
PresentTransaction ==
    /\ stage = "present" /\ ~scenario.broadcast
    /\ IF Takes THEN Goto("simulate") ELSE End("refused")
    /\ Quiet

\* Push mode: sponsored is refused by the TypeScript server, and the node does
\* not hand a versioned transaction to the Rust server, which does not ask for
\* versions.
PresentSignature ==
    /\ stage = "present" /\ scenario.broadcast
    /\ IF \/ scenario.server = "ts" /\ challenge.sponsored
          \/ scenario.server = "rust" /\ tx.version = "v0"
       THEN End("refused") ELSE Goto("check")
    /\ Quiet

Simulate ==
    /\ stage = "simulate"
    /\ IF Executable /\ SimulationCanPass(payment)
       THEN Goto("submit") ELSE End("refused")
    /\ Quiet

ServerSend ==
    /\ stage = "submit"
    /\ Submit(payment)
    /\ Goto("wait")
    /\ UNCHANGED faults

ServerSendRefused ==
    /\ stage = "submit" /\ ledger[payment] = "expired"
    /\ End("refused")
    /\ Quiet

ServerConfirmed ==
    /\ stage = "wait" /\ ledger[payment] = "confirmed"
    /\ IF scenario.server = "ts" THEN Goto("check") ELSE End("served")
    /\ Quiet

\* Mutant: a Rust server that waits for a status only.
ServerWaits ==
    /\ stage = "wait"
    /\ \/ scenario.server = "ts"
       \/ ledger[payment] = "failed"
    /\ End("gaveUp")
    /\ Quiet

\* The Rust server waits for as long as the blockhash lives, the TypeScript
\* server 30 seconds.
ServerGivesUp ==
    /\ stage = "wait"
    /\ \/ scenario.server = "ts"
       \/ ledger[payment] \in {"failed", "expired"}
    /\ End("gaveUp")
    /\ Quiet

\* An RPC of the server fails, or its answer is lost.
ServerFault ==
    /\ stage \in {"simulate", "submit", "wait", "check"}
    /\ Fault
    /\ UNCHANGED ledger \/ (stage = "submit" /\ Submit(payment))
    /\ End("gaveUp")

\* verifyInstructions: the token account is derived for the announced program,
\* or the original one, and everything that is not "sol" is an address.
TsMatches ==
    \/ challenge.currency = Sol /\ tx.asset = "sol"
    \/ /\ challenge.currency = Mint /\ tx.asset = "token"
       /\ tx.program = IF challenge.program # Unset THEN challenge.program
                       ELSE "token"

Check ==
    /\ stage = "check" /\ scenario.server = "ts"
    /\ IF TsMatches THEN End("served") ELSE End("refused")
    /\ Quiet

Network ==
    /\ Resolve(payment)
    /\ UNCHANGED <<scenario, challenge, tx, stage, outcome, faults>>

-----------------------------------------------------------------------------
Step ==
    \/ \E b \in BOOLEAN : IssueRust(b) \/ IssueTs(b)
    \/ IssueRustRequest
    \/ Build \/ BuildRefused
    \/ ClientSend \/ ClientSendRefused \/ ClientConfirmed \/ ClientGivesUp
    \/ PresentTransaction \/ PresentSignature
    \/ Simulate \/ ServerSend \/ ServerSendRefused
    \/ ServerConfirmed \/ ServerGivesUp \/ Check

Next ==
    \/ Step
    \/ BuildFault \/ ClientSendFault \/ ServerFault
    \/ Network

Spec == Init /\ [][Next]_vars

\* Both programs run, and the cluster decides.
FairSpec == Spec /\ WF_vars(Step) /\ WF_vars(Network)

-----------------------------------------------------------------------------
(***************************************************************************)
(* Types.                                                                  *)
(***************************************************************************)
TypeOK ==
    /\ LedgerType
    /\ scenario \in Scenario
    /\ challenge \in Challenge \cup {Unset}
    /\ tx \in Transaction \cup {Unset}
    /\ stage \in Stage
    /\ outcome \in Outcome
    /\ faults \in Nat

(***************************************************************************)
(* What the parties were set up for.                                       *)
(***************************************************************************)
Sponsors ==
    scenario.signer /\ (scenario.server = "rust" => scenario.feePayer)

Route(s) ==
    CASE s.asked # Unset -> s.asked
      [] s.asked = Unset /\ s.configured # Unset -> s.configured
      [] OTHER -> Sol

Meant == Route(scenario)

\* The set-ups in which the two sides understand each other.
CurrencyIsShared ==
    CASE scenario.server = "ts" -> Meant \in {Sol, Mint}
      [] scenario.server = "rust" /\ scenario.asked = Unset -> Meant.name # "mint"
      [] OTHER -> Meant.name = "mint" => Meant = Mint

ProgramIsShared ==
    Meant.name = "sol" \/
    CASE scenario.server = "rust" ->
            scenario.asked # Unset => scenario.hint \in {Unset, scenario.owner}
      [] scenario.server = "ts" /\ scenario.configured \notin {Unset, Sol}
                                 /\ scenario.hint # Unset ->
            scenario.hint = scenario.owner
      [] OTHER -> scenario.owner = "token"

FeeIsShared ==
    /\ scenario.server = "rust" /\ scenario.feePayer => scenario.signer
    /\ scenario.broadcast => ~Sponsors

VersionIsShared == scenario.client = "ts" => scenario.server = "ts"

Compatible ==
    /\ CurrencyIsShared /\ ProgramIsShared /\ FeeIsShared /\ VersionIsShared
    /\ scenario.funded

(***************************************************************************)
(* Set-ups in which an honest client may pay and be refused.               *)
(***************************************************************************)

\* A client that broadcasts a sponsored charge.
SponsoredPush(s) == s.broadcast /\ s.server = "ts" /\ s.signer

\* The Rust server is shown the signature of a versioned transaction.
VersionedPush(s) == s.broadcast /\ s.server = "rust"

\* The Rust client pays what the TypeScript server cannot look for.
SpelledByRoute(s) ==
    s.server = "ts" /\ s.client = "rust" /\ Route(s) \notin {Sol, Mint}

\* The TypeScript server announces no program for the mint of the route.
UnhintedMint(s) ==
    /\ s.server = "ts" /\ s.configured \in {Unset, Sol}
    /\ Route(s) = Mint /\ s.owner = "token2022"

Astray(s) ==
    SponsoredPush(s) \/ VersionedPush(s) \/ SpelledByRoute(s) \/ UnhintedMint(s)

(***************************************************************************)
(* Safety.                                                                 *)
(***************************************************************************)

\* A refusal is free: when the client throws, or the server refuses what an
\* honest client presents, nothing has been paid and nothing is on its way.  A
\* lost answer and a time limit ("gaveUp") are no refusals, and may cost.
RefusedIsFree ==
    outcome \in {"unbuilt", "refused"} =>
        ledger[payment] \notin {"pending", "confirmed"}

\* A receipt is for what the operator meant to be paid with, however client
\* and server spell it, and the fee is on the side that offered to pay it.
ServedIsMeant ==
    outcome = "served" =>
        /\ ledger[payment] = "confirmed"
        /\ tx.asset = IF Meant.name = "sol" THEN "sol" ELSE "token"
        /\ (tx.payer = "server") <=> Sponsors

\* Where the set-ups agree nothing but time, the cluster and failures keeps an
\* honest client from its receipt: no check of either side is in the way.
AgreementIsEnough ==
    Compatible /\ stage = "done" /\ outcome # "served" =>
        \/ faults > 0
        \/ ledger[payment] \in {"expired", "failed"}
        \/ outcome = "gaveUp" /\ "ts" \in {scenario.client, scenario.server}

(***************************************************************************)
(* Liveness: a charge comes to an end, with a receipt or with an error.    *)
(***************************************************************************)
EveryChargeEnds == <>(stage = "done")
=============================================================================
