# A verification project for the Solana payment method of MPP

The repository implements the `charge` intent of the Machine Payments Protocol
for Solana: a server answers a request with a *challenge* (402), a client pays
with a Solana transaction and presents a *credential*, the server checks that
the payment happened, uses it up and answers with a *receipt*. There are two
implementations, a Rust SDK (`src/rust`) and a TypeScript SDK
(`src/typescript/packages/mpp`), and a demo built on the latter (`src/demo`).

This directory holds TLA+ models of that code, TLC configurations that check
them on small instances, and theorems about them whose proofs `tlapm` checks.

## 1. Inventory

| Component | Where | State it keeps | Operations | Hard behaviour | What makes it correct |
|---|---|---|---|---|---|
| Rust charge server | `rust/src/server/mod.rs` | configuration only; the replay store behind `Arc<dyn Store>` | `charge*` (issue), `verify_credential[_with_expected]` (pull: check, co-sign, simulate, send and confirm; push: fetch and check; both: consume) | concurrent calls; blocking RPCs that fail or lose an answer; dropped futures; restarts; a panic in the middle of a call | one receipt per payment; receipts only for executed, matching payments of issued challenges; nothing unverified is signed or sent; calls end; paid is served |
| Rust replay store | `rust/src/store.rs` | a map behind a mutex | `get`, `put`, `delete`, `put_if_absent` | atomicity of check and insertion; loss at restart | what is consumed stays consumed |
| TypeScript charge server | `.../server/Charge.ts` | configuration, `Store` of mppx | `request` (issue), `verify` (push: look up, fetch, check, mark; pull: co-sign, simulate, broadcast, wait, fetch, check, mark) | other calls run at every `await`; 30 s limit; look-up and marking are separate | the same promise |
| TypeScript co-signing | `.../utils/transactions.ts` | none | `coSignBase64Transaction` | the key has to be a signer's | signatures are merged only into a slot that exists |
| Rust client | `rust/src/client/charge.rs` | none | `build_charge_transaction`, `build_credential_header` | u64 arithmetic, limits | what it builds is accepted |
| TypeScript client | `.../client/Charge.ts` | none | `createCredential` in pull and broadcast mode | BigInt arithmetic; confirmation loop; sponsorship with broadcast | what it builds is accepted |
| Challenge identity | `rust/src/protocol/core/challenge.rs` | none: a challenge is recognised by its HMAC | `with_secret_key[_full]`, `compute_challenge_id`, `verify`, `is_expired`, `to_echo` | what the joined parameters determine when a client chooses them; absent and empty texts; the expiry checked in two places | one identity, one challenge; nothing but issued challenges is served, and in their time |
| Header formats | `rust/src/protocol/core/headers.rs`, `types.rs` | the scanner's position and parameters | parse and format the three headers | quoting, escapes, case, several schemes in one response, headers an intermediary has joined, headers of other makes, the length limit | what is formatted parses back; the scanner ends on every header |
| Amounts | `rust/src/protocol/intents` | none | `parse_units`, `parse_amount`, `validate_max_amount` | overflow, fractions, texts that are no numbers | the base units are those of the decimal |
| Expiry helpers | `rust/src/expires.rs` | none | `minutes`, `offset` | the clock moves between issue and check | a deadline lies the duration after the issue |
| Demo wallet | `demo/app/src/wallet.ts` | module-level key, signer and client singletons; one progress callback | generate, import, pay and fetch | singletons that outlive the key; overlapping payments | who pays is who is shown |
| Demo server | `demo/server` | a payment method per module, or per request | priced routes | fee arithmetic; a store per request | the parts add up to the price |
| Solana cluster, mppx | external | ledger; challenges | JSON-RPC; HMAC check and dispatch | lag, lost answers, forks, expiring blockhashes | - |

Interactions: the client and the server share nothing but the challenge and the
credential, which the client carries; the server keeps no memory of what it has
issued (the identity of a challenge is an HMAC over its content). What ties a
payment to a service is the signature of its transaction, the key
`solana-charge:consumed:<signature>` of the replay store. Concurrent calls of
one server meet in that store and on the ledger, and nowhere else.

`PROJECT.json` lists the hazards of this code line by line, each with the
properties that watch it, or the reason why none does yet.

## 2. The modules

```
SolanaNetwork ------+-- RustServer ----- RustServerProofs
   (ledger, RPC)    |      |  \--------- MCRustServer (4 cfg)
                    |      +-- INSTANCE ChargePromise
                    +-- TsServer ------- TsServerProofs
                    |         \--------- MCTsServer (2 cfg)
                    +-- ChargeRoundTrip ---- ChargeRoundTripProofs
                              \--------- MCChargeRoundTrip (2 cfg)
TransferMatching --- TransferMatchingProofs --- Induction
        \----------- MCTransferMatching (3 cfg)
Texts --+-- Amounts ------------+--- Exchange --- MCExchange (1 cfg)
        +-- AuthHeader ---------+        |
        +-- ChallengeIdentity --+        |
            Amounts ------ AmountsProofs ------- ExchangeProofs
            AuthHeader --- AuthHeaderProofs ---/
                            (both with Induction)
```

**SolanaNetwork** is external: for each transaction (identified with its
signature) `unsent`, `pending`, `confirmed`, `failed` or `expired`, and the
answers of the RPC methods the servers call, as far as the servers branch on
them. With `Lagging` a node may answer from an older bank: a fetch misses what
is executed, a simulation passes although the transaction has been executed.

**RustServer** has one action per step of a call of
`verify_credential[_with_expected]`. A call is atomic between its awaits and
blocking RPCs: `pc[c]` names the one it is at (`cosign`, `simulate`, `send`,
`confirm`, `fetch`, `consume`), `respond` is the time between the insertion and
the delivery of the receipt. The checks before the first of these read the clock and
the configuration only, so that they are one action per outcome: the
comparison with the endpoint's request and the HMAC (`RefuseMismatch`), the
expiry (`RefuseExpiry`), the payload (`RefusePayload`), the check of the raw
transaction (`RefuseTransaction`), and else `Admit`. The HMAC is a predicate:
`issued` is the set of challenges that carry this server's identity. Failures are actions of their own:
an RPC error, an answer that is lost after `sendTransaction` was taken, a
signer error, a store error before or after the insertion, a future dropped at
an await, a crash that empties an in-memory store. Which transaction pays which
request is a pair of relations, `RawMatch` (before the broadcast) and
`ChainMatch` (after it); `TransferMatching` models the code that computes
them, and its property `RawImpliesChain` is the assumption `RawMatch \subseteq
ChainMatch` made here.

**ChargePromise** is what a charge server promises, whatever its mode: payments
settle; a call is served with a settled payment that pays what was asked and
that the server does not remember; a server without durable memory may forget.
`ImplementsPromise` says that RustServer, under the mapping at its end
(settled: confirmed on the ledger; served: the receipts given out; remembered:
receipts of this life or of a durable store), is one of its implementations.

**TsServer** models `verify` of the TypeScript server in the same way, one
action per await. mppx has checked the challenge before. Pull mode co-signs whenever
the method that is asked has a signer (several can share a store), broadcasts, waits at most 30 seconds, and only then
compares and marks; push mode looks the signature up first. `get` and `put` are
two operations: the TypeScript store interface has no conditional insertion.
`prior[c]` is a history variable: the payments with a receipt when `c` began.

**TransferMatching** models what the relations abstract: the shares of a request (primary
and splits), what both clients build for them, any transaction of a payer with
software of its own, and the three searches for the shares, each translated by itself:

* `RawAccepts`, of the Rust server before the broadcast, reads the instructions of the message:
  program ids and account indices, of which one may have no account
  (`Dangling`, an error if it comes before the match), and only a message
  without a version, since `bincode` reads no other;
* `ChainAccepts`, of the Rust server after the execution, reads what the node has parsed,
  inner instructions too: a transfer of SOL by its name, with lamports that
  count as 0 when they are missing, a token transfer by its program and the account
  derived from the mint it names;
* that of the TypeScript server, which awaits a derivation per share and removes what it has matched
  (`used`), so that it is a step per share (`MatchShare`), over what the node
  has parsed at the top level.

An amount of a request is a text (`Numeral`): as a number prints, padded or
signed, or such that only `BigInt` reads it. The Rust side parses it; the TypeScript
server compares it as it is with the amount the node prints, and in SOL with what a
JavaScript number makes of the lamports (`AsNumber`, exact up to `MaxSafe`).
Sums of u64 wrap at `U64`, as in a release build (a build with overflow checks
panics instead: no receipt). An associated token account is named by its
owner, program and mint. Negative amounts, which only `BigInt` reads, are left
out; a challenge without a token program is in ChargeRoundTrip.

**ChargeRoundTrip** follows one charge from the challenge to the receipt,
between either client and either server, both honest. `Scenario` is the set of
set-ups: which SDK each side uses, push mode at the TypeScript client, the
currency configured at the server and the one its route asks for (`sol`, a
symbol or a mint, with its letters as they are or lower-cased), the token
program configured and the one that owns the mint, sponsorship, and whether the
client has the money. The actions are the stages of the charge: `IssueRust`
(`charge_with_options`), `IssueRustRequest` (a route that writes its request and
calls `charge_challenge`), `IssueTs` (`request`), `Build*` (both clients),
`ClientSend*` and `ClientConfirmed` (push mode and its confirmation loop),
`Present*` (what a server refuses before it does anything), and the pull and
push paths of the servers as far as the set-up decides them. Replay protection and
the transfers are left to the other modules. Three facts in it are external:
the preflight of a node refuses what cannot execute; a node does not hand a
versioned transaction to a caller that names no version; `bincode` does not
read a versioned transaction as a legacy one.

The ways in which such a charge is known to go wrong although both sides are
honest are families of set-ups, predicates at the end of the module; `Astray`
is their union (section 4).

**Exchange** follows one exchange over HTTP, as texts: a route's price becomes
base units and a challenge with an identity (`Charge`, or `ChargeByHand` for an
application that draws it up itself), the challenge becomes a header among
others (`Send`; `SendCombined` for two that an intermediary has put into one),
the client selects the headers that are for it (`SelectPayment`), scans one
(`Receive`, then `SkipWord` or `TakeParam` for each turn of the loop of
`parse_auth_params`), makes a challenge of what it found (`Understand`,
`Reject`), signs a transfer of the amount unless that is above its maximum
(`Answer`), and the server recognises its challenge by computing its identity
anew (`Refuse`, `Admit`). What is admitted has its payment settled, which takes time, and
ends with a receipt (`Serve`) or without (`Unsettled`, for the reasons RustServer has). Nobody remembers a challenge but `issued`, a
history variable. `AnswerRespelled` is a client of another make, which echoes
fields of other challenges, leaves some out, writes an empty text for an absent
one, exchanges two of them, or sends the credential to another server with the
same key. `Tick` is the clock, which expiries are computed from and compared
with. `due` in `issued` is what the price comes to, computed without any width.

It is built of four modules of operators. **Texts**: a text is a sequence of
characters, a character a number; the characters the code treats specially have
names, a word that it never takes apart (a method, the name of a parameter, a
time stamp) is one character, and so are upper and lower case of it.
**Amounts**: `parse_units` and the numbers read by `str::parse`, with the base
of the digits and the widths of the integers as constants, and as the
reference `BaseUnits`, which is arithmetic on the digits. **AuthHeader**:
formatting and quoting, and the pieces of the scanner. **ChallengeIdentity**:
the fields of a challenge, the text its code is computed of, and the two
places that verify it. The HMAC is external: `Hmac(key, text)` is
one-to-one, and nobody without the key makes one.

What those texts leave out: of a charge request only the amount and what makes it
longer is kept, as JSON's "amount, then the rest"; of the spellings of
base64url that decode to one value only padding is there; the tokens of
`Authorization` and `Payment-Receipt` are the records they decode to, with
the length limit of the first. The clock moves while a challenge can be issued,
while an answer is on its way and while a payment settles; what passes in between, when nobody
reads the clock, is in the second of these.

The names of the source are kept where TLA+ allows it; `PROJECT.json`, "map",
gives the lines of every definition.

## 3. The runs

| Run | Instance | What it shows |
|---|---|---|
| `rust_race` | 3 calls, 1 payment, all modes, lagging nodes, 1 fault, 1 crash, durable store | one receipt (`AtMostOneReceipt`), nobody is told "consumed" without cause (`RefusalIsJust`), the store loses nothing (`ConsumedIsFinal`), refinement of the promise |
| `rust_sponsor` | 2 calls, 2 requests (1 sponsored), 3 transactions (1 names the server's key without its signature), in-memory store, 1 crash | `OnlyVerifiedLeaves`, `OnlySponsoredCosigned`, `ReceiptMeansPaid`; a forgotten receipt only after a restart |
| `rust_live` | 3 calls, 1 payment, 2 requests (1 sponsored) of which one is issued, no signer, unreadable expiry, 1 fault, 1 crash, durable store | `EveryCallEnds`, `PaidIsServed` under fairness |
| `rust_expected` | 2 requests that differ in splits only | **violated**: `ExpectedIsPaid` |
| `ts_server` | 3 calls, 2 requests (1 sponsored, of a method with a signer), 2 transactions, 1 fault, 1 crash, durable store, exact nodes | `ReceiptMeansPaid` and `ReplayRefused`; `EveryCallEnds`, `PaidIsServed` under fairness |
| `ts_race` | 2 calls, 1 payment, no failure | **violated**: `AtMostOneReceipt` |
| `matching` | all requests with up to 2 splits (SOL: up to 1), amounts of every spelling, u64 of width 4, numbers exact up to 1, transactions of up to 3 instructions, two versions | accepted is paid (`TsAcceptsOnlyPayment`, `RustAcceptsDistinct`), honest is accepted (`HonestIsAccepted`), what passes the first Rust search passes the second (`RawImpliesChain`), what the TypeScript search takes the Rust one takes (`TsImpliesRust`) |
| `matching_duplicate` | the same, with room for 2 splits | **violated**: `RustSharesArePaid` |
| `matching_asset` | the same | **violated**: `RustAssetIsAsked` |
| `round_trip` | every set-up but four families (section 4), 1 failure | `RefusedIsFree`, `ServedIsMeant`, `AgreementIsEnough` (where the set-ups agree nothing but time, the cluster and failures keeps an honest client from its receipt), `EveryChargeEnds` under fairness |
| `round_trip_push` | sponsored charges of a TypeScript server, paid in push mode | **violated**: `RefusedIsFree` |
| `exchange` | 2 servers of one key with realms of which one is the beginning of the other, 10 offers of routes, 3 challenges drawn up by hand, 2 headers of others, 2 challenges at a time, 3 points in time | what the client understands is what was issued (`ChallengeArrives`), what is served is bound by its identity (`IdentityBinds`), issued (`OnlyIssuedIsServed`) and admitted to settlement in time (`NoLateAdmission`), the price is signed to the unit (`PriceIsPaid`), an honest exchange fails for visible reasons only (`HonestIsServed`), the two checks of a challenge agree (`ChecksAgree`), and every exchange ends (`ExchangeEnds`) under fairness |

`CHECK_DEADLOCK FALSE` is everywhere because every model comes to an end: calls
are finitely many, and once all have been answered and all transactions are
decided nothing is left to do.

**Bounds.** `MaxFaults`, `MaxCrashes`, `MaxIssued`, `MaxTime`, `MaxTransfers`
are named in the guards. A race for a receipt needs two calls and, for a call
that is refused while the winner is lost, a third; a replay needs one payment;
a cross-request use needs two requests; one crash separates two lives. `PaidIsServed` is about what happens when the failures are
spent, and every failure ends a call: of three calls one is lost and two are left, which race for the
payment, or one of them ran into a time limit and the other presents the signature. In `ts_server`
the constant `Presented` bounds what a call may bring: one call anything, one a payment with its
request, one the signature of a payment that another call may have begun. The same safety properties of RustServer and
TsServer are proved without bounds (below). In `matching` the amounts reach `U64 - 1` and the total
`U64`, so that texts are no `u64`, sums wrap, totals are too large, the primary share vanishes, and
the split limit (1, in the code 8) is exceeded. Three instructions are one per share
of the largest request; a payer composes them of transfers to the right and the wrong
account, mint and program, by the token program's other transfer, inside another program, and with an index out of range. In
`round_trip` every combination of the options of `Scenario` is an initial
state; one charge is one transaction, and one failure is enough to reach each of the failure
actions, none of which can be survived. In `exchange` digits are of base 3, a `u64` has 16
values and a `u128` 256, so that prices of four characters overflow both (the
code's 10, 2^64 and 2^128 need forty); the prices have a fraction, no whole part, nothing but
a dot, too many decimals, more than the client's maximum and a product beyond
`u128`. `MaxTokenLen` is 14, in the code 16 KiB, so that one description is too
long. The texts hold every character the scanner treats specially, a quote and an escape next to each other and a
parameter's name after a comma among them. Two challenges are enough for one field to be
taken from another challenge, and three points in time for a deadline to be ahead,
reached and passed. All invariants of `exchange` are proved for texts of every
length as well (section 5), and so is `NoLateAdmission`; these bounds only carry
`ExchangeEnds` and, for well-formed headers of other makes, `ChallengeArrives`. Calls are symmetric in `rust_race` and
`rust_sponsor`, which check no liveness.

**Fairness.** `RustServer`, `TsServer` and `ChargeRoundTrip` assume weak fairness of each call's
steps, or of the charge's (an executor polls a task that is ready, an event loop runs the
continuation of a settled promise, and RPC clients have time limits, so that a
callee answers or fails) and of each transaction's `Network` step (the cluster
executes a transaction or its blockhash expires, after some 150 blocks).
Nothing is assumed of callers, payers, failures or of an RPC that could succeed
again and again: a simulation may always fail. `Exchange` assumes weak fairness of reading a
header, answering what was understood, deciding on an answer and taking the
receipt, each a synchronous function that is running; that an application
issues or sends anything is not assumed. `ExchangeEnds` therefore
says that the scanner makes progress on every header it is given, well-formed or not.

## 4. Findings

The five violations are disagreements between the code and what the
repository says of it; `PROJECT.json`, "findings", quotes both sides.

1. `ExpectedIsPaid`: `verify_credential_with_expected` compares amount,
   currency and recipient, and not the splits (or anything else in the method
   details) of the endpoint's request.
2. `AtMostOneReceipt` of TsServer: the signature is looked up and marked in two
   steps with awaits between them, so that concurrent calls both get a receipt.
   What does hold is `ReplayRefused`: no call that *begins* after a receipt
   gets another. So the overlap is the only cause: calls about one payment that take
   turns buy one receipt (`TurnsAreEnough`). For pull mode, which never looks the signature up, that
   rests on simulations that see the executed transaction (`Lagging = FALSE`).
3. `RustSharesArePaid`: equal shares are all found in one transfer.
4. `RustAssetIsAsked`: the mint of a token transfer is not compared with the currency asked.
5. `RefusedIsFree`: for a sponsored charge the TypeScript client with `broadcast`
   pays the fee itself and sends the transaction, and the server refuses push
   mode for sponsored charges afterwards: the charge is paid and answered with an error.

Three more disagreements with what the repository says were met on the way. Their
set-ups are in the models and, being excluded by the preconditions, break no
property that is checked:

* The sum of splits: the Rust server (`mod.rs:529`, `578`) and the Rust client
  (`client/charge.rs:39`) sum them in u64 without a check. In a release build the sum
  wraps, so that splits which exceed the total are built and accepted if their
  sum modulo 2^64 does not, although `splits_exceeding_total_rejected`
  (`mod.rs:2413`) says they are refused; in a debug build it panics. `RustSplitsTotal`
  has the wrap; `RustAcceptsDistinct` excludes it.
* A mint as the currency of a Rust server: `mod.rs:66` documents "mint address or
  symbol", and `Mpp::new` lower-cases it (`mod.rs:152`), which makes another address of
  it or none; no client builds such a payment (`IssueRust`; `CurrencyIsShared`).
* The token program of a TypeScript server: `Charge.ts:541` and `README.md:33` say that clients
  look the owner of the mint up when the hint is omitted. Omitted, it
  defaults to the original program (`Charge.ts:48`), which is announced like a hint; for a mint
  of Token-2022 the client builds a transaction that fails (`IssueTs`; `ProgramIsShared`).

In the last two nothing is paid, so that `RefusedIsFree` and `ServedIsMeant` hold, and
`Compatible`, the precondition of `AgreementIsEnough`, leaves them out. A
fourth hazard without a property is the panic at `mod.rs:459`
(`CosignOutOfRange`): the call ends without an answer and nothing is signed or
sent, which breaks nothing the repository promises.

`RefusedIsFree` fails in three more families of set-ups, about which the
repository says nothing that is as definite, so that they are no findings; `ChargeRoundTrip`
defines them (`Astray`), `round_trip` leaves them out, and the theorem `RefusalIsFree` says that
there are no others:

* `VersionedPush`: a TypeScript client in push mode pays a Rust server, which
  cannot fetch a version 0 transaction (`mod.rs:505`).
* `SpelledByRoute`: a route of a TypeScript server spells the currency as a
  symbol, as the quick start does (`currency: 'USDC'`); the Rust client
  resolves it and pays, the server looks for an address. (The TypeScript client
  does not know the symbol either, and throws before it pays.)
* `UnhintedMint`: a TypeScript server configured for SOL has a route that asks for a mint of
  Token-2022; no program is announced, the client looks it up, the server
  derives the accounts of the original program.

`RefusedIsFree` is about refusals. A charge that ends because the client or the server gives up
waiting, or because a call fails, may have been paid; that such a payment can
be recovered, where push mode is open to it, is `PaidIsServed` of the servers.

`RustAcceptsDistinct` is what is left of the promise of the Rust search: for
positive and distinct shares, sums that do not wrap and transactions that move only the
token asked, what it accepts pays.

Four observations about the searches are in the preconditions of the properties of
`TransferMatching`, because nothing in the repository promises otherwise:

* The TypeScript server compares the text of a split's amount with the amount the
  node prints (`Charge.ts:319`, `339`), and the schema takes any text. Both clients read it as
  a number: a split of `"0100"` or `"+7"` is paid, broadcast and then refused. `HonestIsAccepted` is about split amounts
  written as numbers print (`PlainSplits`). The total is not concerned: both sides compute with it.
* Lamports reach that comparison through a JavaScript number, which rounds beyond 2^53: the right
  amount is refused, or a neighbouring one accepted. `SafeInJs` excludes it.
* What the TypeScript client builds is a version 0 transaction, which the Rust server reads
  neither before the broadcast nor on chain. `HonestIsAccepted` therefore says of
  the Rust server only that it accepts what the Rust client built, and
  `TsImpliesRust` is about transactions without a version.
* `find_sol_transfer` asks for the name of an instruction, not for its program, and
  takes missing lamports as 0 (`mod.rs:768`): a share of zero is found in a token transfer.

Three more observations about the texts are in the preconditions of properties
rather than among the findings, because nothing in the repository promises
otherwise:

* `parse_units` does not look at what is around a dot: `"abc.5"` is padded and
  passed on as an amount, which the client then cannot read. Without a dot the product
  with the power of ten wraps in a release build. `PriceIsPaid` and
  `PricesAreExact` are about prices, and about those within `u128`.
* The identity separates its fields with a bar, and fields may hold bars.
  `IdentityBinds` asks for none in the challenge that was issued; what a
  client writes into the echo is unrestricted.
* An absent expiry and an empty one have one identity. Without an expiry a
  challenge has no deadline, with an empty one it has passed at once; so a challenge that
  was drawn up with an empty expiry is served when the client leaves it out
  (`Deadline`).

## 5. What is proved

`RustServerProofs` proves, for every set of calls, transactions and requests,
every pair of matching relations allowed by `ServerAssumption`, every bound, durable and
in-memory stores, lagging and exact nodes:

* `TypeCorrectness`, `ReplayProtection`, `ReceiptsArePaid`,
  `VerifiedBeforeBroadcast`, `SponsorshipIsOffered`, `RefusalsAreJust`: the
  invariants that `rust_race` and `rust_sponsor` check;
* `ConsumptionIsFinal`: the action property `ConsumedIsFinal`;
* `Refinement`: `Spec => ImplementsPromise`.

None of the invariants is inductive by itself. `Inv` strengthens them with what
each phase knows: a running call has an issued challenge and, up to the
broadcast, a transaction that passed the raw check (`CallInv`); a call at or
past `consume` has seen its transaction confirmed, which no step undoes; a call
that inserted a signature in a memory that still stands finds it in the
store; two calls that inserted the same signature did so in different memories
(`OneInserter`); whatever is in the store has an inserter
(`StoreHasInserter`). `OneInserter` is the heart of it: it follows from
`put_if_absent` being one step. The proof has a lemma for a call that only moves on, one for
a call that only answers, and one per step that does more; `Bystander` says
that the other calls keep what is known of them. Refinement adds that a step
without a new receipt and without a new confirmation is a stutter, that
`Respond` is `Serve`, and that a crash of an in-memory server is `Forget`.

`TsServerProofs` proves, just as generally, `TypeCorrectness`,
`ReceiptsArePaid`, and `LateReplayIsRefused`: `ReplayRefused` for a durable store
and exact nodes (`Durable`, `~Lagging`), without which it is false. Its
`CallInv` says that a call past the comparison has an executed and matching
transaction, that what is answered with a receipt is marked, and that the
payments in `prior[c]` are executed and marked. From the last of these follows what the two
guards are worth: a push call that passes the look-up, or a pull call that passes the
simulation, is not about a payment in `prior[c]` (`PastGuard`), and nothing
after the guard changes that.

`TurnsAreEnough` is the other side of finding 2: `Spec /\ []TakeTurns =>
[]AtMostOneReceipt`, where `TakeTurns` says that no two running calls are about
one payment. The invariant is `OrderInv`: of two calls that have or may still get a
receipt for one payment, one has the payment in its `prior`; and a call with
a receipt has not. With the hypotheses of `LateReplayIsRefused` and whatever
fails, a lock per signature around `verify` would therefore be a sufficient repair.

`TransferMatchingProofs` proves all invariants of `matching`, for requests and
transactions of every size and every width. `AcceptedIsPaid`: what the
TypeScript search accepts has a transfer of its own for every share; `MatchInv`
says that the transfers matched so far pay the shares they are matched with and
are distinct. `HonestPayersAreServed`: what the clients build is accepted where `HonestIsAccepted` says so;
`BillInv` says that the transaction is the bill for the exact amounts and that the
TypeScript search takes its transfers one after another, also when shares are equal,
and `RustBillInv` that the Rust client's transaction is the bill both Rust searches look for, wrapped sums included.
`CheckedStaysChecked`, `DistinctSharesArePaid` and `TsSearchIsStricter` compare the searches; the first goes
through the two pairs of Rust searches one by one. That a sum of shares which passed the check of its
width is what its parts add up to needs an induction over the splits:
`Induction` has it in the form the provers can use, about *sets* of numbers
(`UpTo`: a set that holds 0 and goes on up to a bound holds everything up to
it), from the well-foundedness of the numbers (`LessIsWellFounded`). `Recursion` there gives
the values of a function that is defined by recursion up to a bound.

`ChargeRoundTripProofs` proves the invariants of `round_trip` for every set of
set-ups and any number of failures: `TypeCorrectness`, `ServiceIsMeant`,
`AgreementSuffices`, and `RefusalIsFree` for set-ups of which none is
`Astray`. Its `Inv` has four parts: the challenge is a function of the set-up
(`AsIssued`), the transaction one of the challenge (`AsBuilt`), each stage
belongs to a mode and comes after certain checks (`ModeInv`), and the ledger is
in step with the stage (`LedgerInv`). The properties follow from it by going
through the ways in which a charge can end.

`ExchangeProofs` proves all invariants of `exchange`, for texts of every
length, every set of servers, routes and headers, and any number of
challenges. It has three parts.

*Identities.* `IdentityDetermines`: two lists of seven fields that join to one text are the
same list if the fields of *one* of them hold no bar. The argument goes from
the end: if what is left of both lists is one text, the last fields are suffixes of
it, and of two different ones the longer would hold the bar before the
shorter (`Solid`). From it and from the invariant (a challenge carries the
identity of the server that issued it, what is served was recognised) follow
`IdentityIsBinding` and `AdmissionIsInTime`.

*Prices.* `PriceIsExact`: the client signs the price to the unit. It rests on `AmountsProofs`, where
`PricesAreExact` shows `parse_units` to be exact for every base, width and number
of decimals, by induction over the digits (the value of a text that is put together,
padded with zeros or stripped of them, and of the numeral of a
number); on `RequestIsRead`, that the amount is read back from the encoded
request; and on `PriceInv`, that an issued challenge asks for what is due.

*Headers.* `AuthHeaderProofs` has the scanner's side of it. `QuotationIsRead`: what
`escape_quoted_value` wrote is read back, whatever is in it and wherever it
stands; by induction over its characters, from the end, because the scanner's
function recurs towards the end. `FieldIsTaken`: from the end of one field
(`Stop(c, k)`) the scanner takes the next one that is there, and nothing else, also
when more text follows. In `ExchangeProofs` these become an invariant of the steps
(`ReadInv`), of which `ChallengeArrives` is a consequence and which it needs,
since by itself it says nothing while the scanner is on its way:

* `SentInv`: a header is the one of the challenge that was sent, one joined of
  it and another, or a foreign one;
* `ScanInv`: between two turns the scanner stands at `Stop(sent.challenge, m)` for
  some `m` and has found the fields up to the `m`-th and no others; in a
  joined header it may also stand before the second identity. There it finds a name
  that it knows already and rejects the header, which is why nothing that an
  intermediary joins is ever read;
* `IdInv`: the identity in an answer stands somewhere in the header that was read;
* `EndInv`: why an exchange ended as it did;
* `TypeInv`: the types, with what is needed of a challenge to make them so
  (`Shaped`), also for what the scanner cuts out of foreign headers;
* `PriceInv`, as above.

What is said of foreign headers is a hypothesis where it has to be. The scanner
reads a well-formed header of the scheme `Payment` whoever wrote it, so
`ChallengesArrive` is about headers that are not foreign, and
`OthersAreIgnored` gives all of `ChallengeArrives` if the foreign ones
are of other schemes. `OnlyIssuedServed` and `HonestyIsServed` assume
`Unforged`: no foreign header bears a code made with a server's key. That is
what a key is for, and it is satisfiable: a code has at least seven characters
in the model, so headers with shorter identities, such as those of
`MCExchange`, are unforged (`ShortIsUnforged`). `TypeCorrectness` and
`JudgementsAgree` need no hypothesis. `ScannerAdvances` is the part of
`ExchangeEnds` that is not about fairness: each turn moves the scanner
forward and never past the end, on every header.

Assumptions of the proofs: `NetworkAssumption`, `ServerAssumption`,
`MatchingAssumption`, `RoundTripAssumption`, `AmountsAssumption` and
`ExchangeAssumption` only, which TLC evaluates in every run of their modules.

**Model-checked only**: liveness, that is `EveryCallEnds` and `PaidIsServed` of both
servers, `EveryChargeEnds` and `ExchangeEnds`, since temporal properties under fairness and
`ENABLED` are beyond the prover; and what a well-formed foreign header of the scheme is
read as (the second half of `ChallengeArrives`), which is a statement about the
particular headers of the instance. `AtMostOneReceipt` of TsServer and the
other violated properties are false, and proved only under the conditions named above.

## 6. What is not modelled

Balances, rent and fees as amounts; what the two token programs do apart
from having accounts of their own, decimals, and the creation of token accounts; cryptography (HMAC and
signatures are predicates, or one-to-one functions); the syntax of JSON and of
RFC 3339; `extract_payment_scheme`, which finds one scheme among several in one
`Authorization` header, since the token after it is a record here; the builders
`with_expires` and `with_description` of a challenge, which nothing in the
repository calls after its identity was computed; `get`, `put` and `delete` of
the Rust store, which nothing calls; mppx, which authenticates challenges for the
TypeScript server; wording of errors; documents about sessions, whose
code is not in the tree; rendering of the demo; release workflows.
The demo's wallet and marketplace are examples of how the SDK is used, with
hazards of their own (`PROJECT.json`) that no promise of the SDK depends on;
they are the last item of the plan.

## 7. Plan

Ordered by how much of the system's promise depends on it.

1. *Done.* The Rust server and its promise: `SolanaNetwork`, `ChargePromise`, `RustServer`.
2. *Done.* The TypeScript server: `TsServer`.
3. *Done.* The searches for transfers and the clients' bills: `TransferMatching`.
4. *Done.* Proofs: RustServer and its refinement, TsServer, the searches, the
   round trip for every set of set-ups.
5. *Done.* The round trip of a charge: `ChargeRoundTrip`.
6. *Done.* The texts: prices, headers and identities, `Exchange` and its parts;
   the identity and the exactness of prices proved.
7. *Done.* What the scanner makes of every header that `format_www_authenticate`
   writes, as a theorem, and with it the other invariants of `Exchange`.
8. The demo: the wallet's singletons and progress queue, and the marketplace's
   fee arithmetic and store per request.
