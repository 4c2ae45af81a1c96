-------------------------- MODULE TransferMatching --------------------------
(***************************************************************************)
(* Which transactions pay a charge request.  A request asks for shares:    *)
(* the primary one (the total less all splits) and one per split.  A       *)
(* client builds a transaction with one transfer per share.  Three         *)
(* searches look for the shares, each with code of its own:                *)
(*  - the Rust server in the raw transaction, before the broadcast;        *)
(*  - the Rust server in what the node says of the executed transaction;   *)
(*  - the TypeScript server in what the node says of it, share by share    *)
(*    (it awaits an address per share), removing what it has matched.      *)
(***************************************************************************)
EXTENDS Integers, Sequences

CONSTANTS
    Owner,        \* wallets that can receive a transfer
    Asset,        \* native SOL and the SPL mints
    Native,       \* the asset SOL
    Dangling,     \* an account index beyond the transaction's accounts
    Request,      \* the requests
    Composable,   \* bound of the model: the instructions of a payer who is
                  \* asked for an asset and uses software of its own
    SplitLimit,   \* 8 in the code
    U64,          \* 2^64 in the code
    MaxSafe,      \* 2^53 - 1 in JavaScript
    AsNumber,     \* what a JavaScript number makes of a u64
    MaxTransfers  \* bound of the model: instructions of a composed transaction

TokenProgram == {"token", "token2022"}

Program == TokenProgram \cup {"system", "other"}

\* An amount in a request is text.  "plain": as a number prints; "padded": a
\* numeral that prints otherwise ("0100", "+7"); "blank": only BigInt reads it
\* (" 7", "0x7", the empty text).
Numeral == [value : Nat, text : {"plain", "padded", "blank"}]

Plain(n) == [value |-> n, text |-> "plain"]

\* str::parse::<u64>
ByU64(numeral) == numeral.text # "blank" /\ numeral.value < U64

Share == [owner : Owner, amount : Numeral]

\* The associated token account: derived from all three, different for any two.
Ata(o, p, m) == [owner |-> o, program |-> p, mint |-> m]

Address == Owner \cup [owner : Owner, program : TokenProgram, mint : Asset]

\* What an instruction does; "other" is also a transfer with too little data
\* or too few accounts.  inner: made by a program (CPI).
Instruction ==
    [program : Program \cup {Dangling}, tag : {"transfer", "transferChecked", "other"},
     dest : Address \cup {Dangling}, mint : Asset \cup {Dangling}, amount : 0 .. U64 - 1,
     inner : BOOLEAN]

ASSUME MatchingAssumption ==
    /\ Native \in Asset
    /\ Dangling \notin Address \cup Asset \cup Program
    /\ Request \subseteq [recipient : Owner, asset : Asset, program : TokenProgram,
                          total : Numeral, splits : Seq(Share)]
    /\ \A asset \in Asset : Composable[asset] \subseteq Instruction
    /\ {SplitLimit, MaxTransfers, MaxSafe} \subseteq Nat
    /\ U64 \in Nat \ {0}
    /\ AsNumber \in [0 .. U64 - 1 -> Nat]
    /\ \A n \in 0 .. U64 - 1 : IF n <= MaxSafe THEN AsNumber[n] = n
                                               ELSE AsNumber[n] > MaxSafe

VARIABLES
    request,  \* the request
    tx,       \* instructions of the transaction, in order
    version,  \* of the transaction's message
    builder,  \* who built the transaction
    stage,    \* how far the TypeScript server is
    used      \* used[i]: position of the transfer it matched with share i

vars == <<request, tx, version, builder, stage, used>>

-----------------------------------------------------------------------------
(***************************************************************************)
(* The shares of a request.  BigInt sums are exact, a sum of u64 wraps     *)
(* around (in a build with overflow checks it panics instead, and the call *)
(* is not answered).  An amount that is no u64 is left out of the sum and  *)
(* refused later.                                                          *)
(***************************************************************************)
SplitsTotal(q) ==
    LET sum[n \in 0 .. Len(q.splits)] ==
          IF n = 0 THEN 0 ELSE sum[n - 1] + q.splits[n].amount.value
    IN  sum[Len(q.splits)]

RustSplitsTotal(q) == SplitsTotal(q) % U64

RustParses(q) ==
    /\ ByU64(q.total)
    /\ \A i \in DOMAIN q.splits : ByU64(q.splits[i].amount)
    /\ RustSplitsTotal(q) < q.total.value

Shares(q, primary) ==
    <<[owner |-> q.recipient, amount |-> Plain(primary)]>> \o q.splits

RustShares(q) == Shares(q, q.total.value - RustSplitsTotal(q))

(***************************************************************************)
(* A client pays every share with a transfer of its own, in order.         *)
(* (Compute budget and the creation of accounts are no transfers.)         *)
(***************************************************************************)
Transfer(q, s) ==
    IF q.asset = Native
    THEN [program |-> "system", tag |-> "transfer", dest |-> s.owner, mint |-> Native,
          amount |-> s.amount.value, inner |-> FALSE]
    ELSE [program |-> q.program, tag |-> "transferChecked",
          dest |-> Ata(s.owner, q.program, q.asset), mint |-> q.asset,
          amount |-> s.amount.value, inner |-> FALSE]

\* Mutant: the primary recipient gets the total.
BillOfTotal(q, primary) ==
    [i \in DOMAIN Shares(q, q.total.value) |->
        Transfer(q, Shares(q, q.total.value)[i])]

Bill(q, primary) ==
    [i \in DOMAIN Shares(q, primary) |-> Transfer(q, Shares(q, primary)[i])]

-----------------------------------------------------------------------------
(***************************************************************************)
(* The search of the Rust server in the raw transaction: it ends at the    *)
(* first match, or at an index without an account before one.              *)
(***************************************************************************)
TopLevel(t) == {j \in DOMAIN t : ~t[j].inner}

RawSolMatches(ix, s) ==
    /\ ix.program = "system" /\ ix.tag = "transfer"
    /\ ix.dest = s.owner /\ ix.amount = s.amount.value

RawSolBroken(ix) ==
    \/ ix.program = Dangling
    \/ ix.program = "system" /\ ix.tag = "transfer" /\ ix.dest = Dangling

verify_sol_transfer_instructions(t, s) ==
    \E j \in TopLevel(t) :
        /\ RawSolMatches(t[j], s)
        /\ \A k \in TopLevel(t) : k < j => ~RawSolBroken(t[k])

RawSplOf(ix, s) ==
    /\ ix.program \in TokenProgram /\ ix.tag = "transferChecked"
    /\ ix.amount = s.amount.value

RawSplMatches(ix, s) ==
    RawSplOf(ix, s) /\ ix.dest = Ata(s.owner, ix.program, ix.mint)

RawSplBroken(ix, s) ==
    \/ ix.program = Dangling
    \/ RawSplOf(ix, s) /\ Dangling \in {ix.dest, ix.mint}

\* Mutant: the program of the instruction is not looked at.
verify_any_transfer_instructions(t, s) ==
    \E j \in TopLevel(t) :
        /\ t[j].amount = s.amount.value
        /\ \E p \in TokenProgram : t[j].dest = Ata(s.owner, p, t[j].mint)
        /\ \A k \in TopLevel(t) : k < j => ~RawSplBroken(t[k], s)

verify_spl_transfer_instructions(t, s) ==
    \E j \in TopLevel(t) :
        /\ RawSplMatches(t[j], s)
        /\ \A k \in TopLevel(t) : k < j => ~RawSplBroken(t[k], s)

\* verify_pull reads a transaction without a version only (bincode).
RawAccepts(t, v, q) ==
    /\ v = "legacy"
    /\ Len(q.splits) <= SplitLimit
    /\ RustParses(q)
    /\ \A i \in DOMAIN RustShares(q) :
          IF q.asset = Native
          THEN verify_sol_transfer_instructions(t, RustShares(q)[i])
          ELSE verify_spl_transfer_instructions(t, RustShares(q)[i])

(***************************************************************************)
(* What the node says of an executed transaction: instructions by name,    *)
(* those made by programs too.  A transfer of the system program has       *)
(* lamports, one of a token program an amount under another name.          *)
(***************************************************************************)
\* It executes only if every index has an account, and a token account belongs
\* to the mint and the program it was derived for.
Executable(t) ==
    \A j \in DOMAIN t :
        /\ Dangling \notin {t[j].program, t[j].dest, t[j].mint}
        /\ t[j].program \in TokenProgram /\ t[j].tag = "transferChecked" =>
              \A o \in Owner, p \in TokenProgram, m \in Asset :
                  t[j].dest = Ata(o, p, m) => p = t[j].program /\ m = t[j].mint

Lamports(ix) == IF ix.program = "system" THEN ix.amount ELSE 0

IsParsed(ix) == ix.program # "other"

(***************************************************************************)
(* The search of the Rust server in that: a transfer of SOL is known by    *)
(* its name, whatever its program; what is missing counts as 0.            *)
(***************************************************************************)
\* Mutant: the amount is not compared.
find_sol_transfer_to(t, s) ==
    \E j \in DOMAIN t :
        IsParsed(t[j]) /\ t[j].tag = "transfer" /\ t[j].dest = s.owner

find_sol_transfer(t, s) ==
    \E j \in DOMAIN t :
        /\ IsParsed(t[j]) /\ t[j].tag = "transfer"
        /\ t[j].dest = s.owner
        /\ Lamports(t[j]) = s.amount.value

verify_ata_owner(dest, o, m, p) == dest = Ata(o, p, m)

find_spl_transfer(t, s) ==
    \E j \in DOMAIN t :
        /\ t[j].program \in TokenProgram /\ t[j].tag = "transferChecked"
        /\ t[j].amount = s.amount.value
        /\ verify_ata_owner(t[j].dest, s.owner, t[j].mint, t[j].program)

\* verify_on_chain: get_transaction asks for no version and gets none but the
\* legacy one.  The number of splits does not count.
ChainAccepts(t, v, q) ==
    /\ v = "legacy" /\ Executable(t)
    /\ RustParses(q)
    /\ \A i \in DOMAIN RustShares(q) :
          IF q.asset = Native THEN find_sol_transfer(t, RustShares(q)[i])
                              ELSE find_spl_transfer(t, RustShares(q)[i])

-----------------------------------------------------------------------------
Init ==
    /\ request \in Request
    /\ tx = <<>>
    /\ version = "none"
    /\ builder = "none"
    /\ stage = "build"
    /\ used = <<>>

(***************************************************************************)
(* Building the transaction.                                               *)
(***************************************************************************)
RustCanBuild(q) == Len(q.splits) <= SplitLimit /\ RustParses(q)

\* BigInt goes negative, the u64 encoding of the instruction then throws.
TsCanBuild(q) ==
    /\ SplitsTotal(q) <= q.total.value
    /\ q.total.value - SplitsTotal(q) < U64
    /\ \A i \in DOMAIN q.splits : q.splits[i].amount.value < U64

Built(by, t, v) ==
    /\ stage = "build" /\ builder = "none"
    /\ tx' = t /\ version' = v /\ builder' = by /\ stage' = "match"
    /\ UNCHANGED <<request, used>>

RustBuild ==
    /\ RustCanBuild(request)
    /\ Built("rust", Bill(request, request.total.value - RustSplitsTotal(request)), "legacy")

TsBuild ==
    /\ TsCanBuild(request)
    /\ Built("ts", Bill(request, request.total.value - SplitsTotal(request)), "v0")

BuildRefused(by) ==
    /\ stage = "build" /\ builder = "none"
    /\ \/ by = "rust" /\ ~RustCanBuild(request)
       \/ by = "ts" /\ ~TsCanBuild(request)
    /\ builder' = by /\ stage' = "unbuilt"
    /\ UNCHANGED <<request, tx, version, used>>

\* A payer with software of its own.
Compose(ix) ==
    /\ stage = "build" /\ builder \in {"none", "payer"}
    /\ Len(tx) < MaxTransfers
    /\ tx' = Append(tx, ix)
    /\ builder' = "payer"
    /\ UNCHANGED <<request, version, stage, used>>

\* The TypeScript server looks at executed transactions only.
Present(v) ==
    /\ stage = "build" /\ builder = "payer"
    /\ version' = v
    /\ stage' = IF Executable(tx) THEN "match" ELSE "unexecuted"
    /\ UNCHANGED <<request, tx, builder, used>>

(***************************************************************************)
(* The search of the TypeScript server (verifyInstructions).               *)
(***************************************************************************)
PrimaryIsPositive == SplitsTotal(request) < request.total.value

TsShares == Shares(request, request.total.value - SplitsTotal(request))

NextShare == TsShares[Len(used) + 1]

TsTransfer(ix) ==
    IF request.asset = Native
    THEN ix.tag = "transfer" /\ ix.program = "system"
    ELSE ix.tag = "transferChecked" /\ ix.program \in TokenProgram

Left == {j \in TopLevel(tx) : TsTransfer(tx[j])} \ {used[i] : i \in DOMAIN used}

IsForNext(ix) ==
    IF request.asset = Native
    THEN ix.dest = NextShare.owner
    ELSE /\ ix.dest = Ata(NextShare.owner, request.program, request.asset)
         /\ ix.mint = request.asset

Candidates(positions) == {j \in positions : IsForNext(tx[j])}

\* findIndex
IsFirst(j, S) == j \in S /\ \A k \in S : j <= k

\* The texts are compared.  The node prints an amount of tokens; lamports pass
\* through a JavaScript number.
Shown(ix) == IF request.asset = Native THEN Plain(AsNumber[ix.amount]) ELSE Plain(ix.amount)

HasNextAmount(ix) == Shown(ix) = NextShare.amount

Searching == stage = "match" /\ PrimaryIsPositive /\ Len(used) < Len(TsShares)

\* Mutant: the matched transfer stays in the list.
MatchShareAgain ==
    /\ Searching
    /\ \E j \in DOMAIN tx :
          /\ IsFirst(j, Candidates({k \in TopLevel(tx) : TsTransfer(tx[k])}))
          /\ HasNextAmount(tx[j])
          /\ used' = Append(used, j)
    /\ UNCHANGED <<request, tx, version, builder, stage>>

\* Mutant: any amount will do.
MatchShareOwner ==
    /\ Searching
    /\ \E j \in DOMAIN tx :
          /\ IsFirst(j, Candidates(Left))
          /\ used' = Append(used, j)
    /\ UNCHANGED <<request, tx, version, builder, stage>>

\* Mutant: the position counts from zero.
MatchShareBefore ==
    /\ Searching
    /\ \E j \in DOMAIN tx :
          /\ IsFirst(j, Candidates(Left))
          /\ HasNextAmount(tx[j])
          /\ used' = Append(used, j - 1)
    /\ UNCHANGED <<request, tx, version, builder, stage>>

\* The first transfer to the right account has to have the right amount.
MatchShare ==
    /\ Searching
    /\ \E j \in DOMAIN tx :
          /\ IsFirst(j, Candidates(Left))
          /\ HasNextAmount(tx[j])
          /\ used' = Append(used, j)
    /\ UNCHANGED <<request, tx, version, builder, stage>>

Refuse ==
    /\ stage = "match"
    /\ \/ ~PrimaryIsPositive
       \/ /\ Searching
          /\ \A j \in DOMAIN tx : IsFirst(j, Candidates(Left)) => ~HasNextAmount(tx[j])
    /\ stage' = "refused"
    /\ UNCHANGED <<request, tx, version, builder, used>>

Accept ==
    /\ stage = "match" /\ PrimaryIsPositive
    /\ Len(used) = Len(TsShares)
    /\ stage' = "accepted"
    /\ UNCHANGED <<request, tx, version, builder, used>>

Next ==
    \/ RustBuild \/ TsBuild
    \/ \E by \in {"rust", "ts"} : BuildRefused(by)
    \/ \E ix \in Composable[request.asset] : Compose(ix)
    \/ \E v \in {"legacy", "v0"} : Present(v)
    \/ MatchShare \/ Refuse \/ Accept

Spec == Init /\ [][Next]_vars

-----------------------------------------------------------------------------
(***************************************************************************)
(* Types.                                                                  *)
(***************************************************************************)
TypeOK ==
    /\ request \in Request
    /\ tx \in Seq(Instruction)
    /\ version \in {"none", "legacy", "v0"}
    /\ builder \in {"none", "rust", "ts", "payer"}
    /\ stage \in {"build", "unbuilt", "unexecuted", "match", "accepted", "refused"}
    /\ used \in Seq(DOMAIN tx)

(***************************************************************************)
(* The reference: every share is paid by a transfer of its own, of its     *)
(* amount, to its owner and in the asset that is asked.                    *)
(***************************************************************************)
ExactShares(q) == Shares(q, q.total.value - SplitsTotal(q))

Positive(q) == SplitsTotal(q) < q.total.value

\* A request every part of the system can read and pay.
WellFormed(q) ==
    /\ Len(q.splits) <= SplitLimit
    /\ Positive(q)
    /\ ByU64(q.total)

\* Its lamports are numbers in JavaScript.
SafeInJs(q) ==
    q.asset = Native => \A i \in DOMAIN ExactShares(q) :
                            ExactShares(q)[i].amount.value <= MaxSafe

PlainSplits(q) == \A i \in DOMAIN q.splits : q.splits[i].amount.text = "plain"

PaysOne(ix, s, q) ==
    /\ ix.amount = s.amount.value
    /\ IF q.asset = Native
       THEN ix.program = "system" /\ ix.tag = "transfer" /\ ix.dest = s.owner
       ELSE /\ ix.program \in TokenProgram /\ ix.tag = "transferChecked"
            /\ ix.dest = Ata(s.owner, q.program, q.asset) /\ ix.mint = q.asset

Pays(t, q) ==
    /\ Positive(q)
    /\ \E by \in [DOMAIN ExactShares(q) -> DOMAIN t] :
          /\ \A i, j \in DOMAIN by : by[i] = by[j] => i = j
          /\ \A i \in DOMAIN by : PaysOne(t[by[i]], ExactShares(q)[i], q)

\* What the TypeScript server accepts pays the request: two shares of one
\* recipient need two transfers (verifyInstructions splices what it matched).
\* Beyond 2^53 lamports it compares rounded amounts.
TsAcceptsOnlyPayment ==
    stage = "accepted" /\ SafeInJs(request) => Pays(tx, request)

\* So does what the Rust server accepts, if the shares are positive and differ
\* from each other, their sum does not wrap, and no other token is moved.
RustAcceptsDistinct ==
    LET shares == ExactShares(request)
    IN  /\ stage # "build"
        /\ ChainAccepts(tx, version, request) /\ Positive(request)
        /\ \A i \in DOMAIN shares : shares[i].amount.value > 0
        /\ \A i, j \in DOMAIN shares : /\ shares[i].owner = shares[j].owner
                                       /\ shares[i].amount.value = shares[j].amount.value
                                       => i = j
        /\ \A j \in DOMAIN tx : tx[j].tag = "transferChecked" =>
              tx[j].mint = request.asset /\ tx[j].program = request.program
        => Pays(tx, request)

\* What an honest client built is accepted: by the TypeScript server, whoever
\* built it, if the request is well-formed, its split amounts are written as
\* numbers print and its lamports are exact; by both checks of the Rust server,
\* if the Rust client built it, whatever the request.
HonestIsAccepted ==
    /\ /\ builder \in {"rust", "ts"} /\ WellFormed(request)
       /\ PlainSplits(request) /\ SafeInJs(request)
       => stage \notin {"unbuilt", "refused"}
    /\ builder = "rust" /\ stage # "unbuilt" =>
          /\ RawAccepts(tx, version, request)
          /\ ChainAccepts(tx, version, request)

\* Pull mode checks the raw transaction and never looks at the chain again:
\* once executed, it passes the other check too, although that one reads other
\* data by other rules (verify_spl_transfer_instructions, find_spl_transfer).
RawImpliesChain ==
    stage # "build" /\ RawAccepts(tx, version, request) /\ Executable(tx) =>
        ChainAccepts(tx, version, request)

\* A payment the TypeScript server accepts is one the Rust server accepts,
\* if it has no version, for every total a u64 can hold.
TsImpliesRust ==
    /\ stage = "accepted" /\ version = "legacy"
    /\ ByU64(request.total) /\ SafeInJs(request)
    => ChainAccepts(tx, version, request)

\* An instruction moves the amount of a share to an account of its owner.
Arrives(ix, s) ==
    /\ ix.amount = s.amount.value
    /\ ix.dest = s.owner \/ \E p \in TokenProgram, m \in Asset : ix.dest = Ata(s.owner, p, m)

\* Each split recipient receives its own amount (README, "Splits").
RustSharesArePaid ==
    stage # "build" /\ RawAccepts(tx, version, request) /\ WellFormed(request) =>
        \E by \in [DOMAIN RustShares(request) -> DOMAIN tx] :
            /\ \A i, j \in DOMAIN by : by[i] = by[j] => i = j
            /\ \A i \in DOMAIN by : Arrives(tx[by[i]], RustShares(request)[i])

\* What the chain check accepts "matches the expected charge parameters" (the
\* comment of verify_on_chain): the shares arrive in the currency asked.
RustAssetIsAsked ==
    stage # "build" /\ ChainAccepts(tx, version, request) =>
        \A i \in DOMAIN RustShares(request) :
            \E j \in DOMAIN tx : /\ Arrives(tx[j], RustShares(request)[i])
                                 /\ tx[j].mint = request.asset
=============================================================================
