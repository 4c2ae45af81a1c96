----------------------- MODULE TransferMatchingProofs -----------------------
(***************************************************************************)
(* What the searches promise, for requests and transactions of every size  *)
(* and every width of the integers.  That the TypeScript server accepts    *)
(* payments only needs no more of the sum of the splits than that search   *)
(* and reference subtract the same; the rest needs that the sum is at      *)
(* least each of its parts, so that none of them exceeds a u64 when the    *)
(* total does not.                                                         *)
(***************************************************************************)
EXTENDS TransferMatching, Induction, SequenceTheorems, TLAPS

\* A transfer is the one the TypeScript server looks for, for a share.
IsFoundFor(ix, s) ==
    /\ TsTransfer(ix)
    /\ IF request.asset = Native
       THEN ix.dest = s.owner
       ELSE /\ ix.dest = Ata(s.owner, request.program, request.asset)
            /\ ix.mint = request.asset
    /\ Shown(ix) = s.amount

\* Share i is matched with such a transfer.
PaysShare(i) ==
    used[i] \in DOMAIN tx /\ IsFoundFor(tx[used[i]], TsShares[i])

\* The shares matched so far have a transfer of their own each, of an executed
\* transaction.
MatchInv ==
    /\ request \in Request
    /\ used \in Seq(DOMAIN tx)
    /\ stage = "build" => used = <<>>
    /\ stage \in {"match", "accepted"} => Executable(tx)
    /\ Len(used) <= Len(TsShares)
    /\ \A i \in 1 .. Len(used) : PaysShare(i)
    /\ \A i, j \in 1 .. Len(used) : used[i] = used[j] => i = j
    /\ stage = "accepted" => PrimaryIsPositive /\ Len(used) = Len(TsShares)

\* The shares of a request are a sequence, one longer than its splits.
LEMMA SharesAreSequence ==
    ASSUME NEW q \in Request, NEW primary
    PROVE  /\ Len(Shares(q, primary)) = Len(q.splits) + 1
           /\ Len(q.splits) \in Nat /\ DOMAIN q.splits = 1 .. Len(q.splits)
           /\ DOMAIN Shares(q, primary) = 1 .. Len(Shares(q, primary))
           /\ Shares(q, primary)[1] = [owner |-> q.recipient, amount |-> Plain(primary)]
           /\ \A i \in DOMAIN q.splits : Shares(q, primary)[i + 1] = q.splits[i]
<1> DEFINE first == [owner |-> q.recipient, amount |-> Plain(primary)]
           S == Share \cup {first}
<1>1. q.splits \in Seq(Share)
  BY MatchingAssumption
<1>2. /\ q.splits \in Seq(S) /\ <<first>> \in Seq(S)
      /\ Len(<<first>>) = 1 /\ <<first>>[1] = first
  BY <1>1
<1> HIDE DEF S, first
<1>3. /\ <<first>> \o q.splits \in Seq(S)
      /\ Len(<<first>> \o q.splits) = Len(q.splits) + 1
      /\ \A i \in 1 .. Len(q.splits) + 1 : (<<first>> \o q.splits)[i] =
            IF i <= 1 THEN <<first>>[i] ELSE q.splits[i - 1]
  BY <1>2, ConcatProperties
<1>4. Len(q.splits) \in Nat /\ DOMAIN q.splits = 1 .. Len(q.splits)
  BY <1>1, LenProperties
<1>5. Shares(q, primary) = <<first>> \o q.splits
  BY DEF Shares, first
<1>6. (<<first>> \o q.splits)[1] = first
  BY <1>2, <1>3, <1>4
<1>7. ASSUME NEW i \in DOMAIN q.splits PROVE (<<first>> \o q.splits)[i + 1] = q.splits[i]
  <2>1. i + 1 \in 1 .. Len(q.splits) + 1 /\ ~(i + 1 <= 1) /\ i + 1 - 1 = i
    BY <1>4
  <2> QED
    BY <1>3, <2>1
<1> QED
  BY <1>3, <1>4, <1>5, <1>6, <1>7, LenProperties DEF first

\* The sum of the splits is a number, and at least each of them.
LEMMA TotalIsSum ==
    ASSUME NEW q \in Request
    PROVE  /\ SplitsTotal(q) \in Nat
           /\ \A i \in 1 .. Len(q.splits) : /\ q.splits[i].amount.value \in Nat
                                            /\ q.splits[i].amount.value <= SplitsTotal(q)
<1> DEFINE n == Len(q.splits)
           Sums(f) == [k \in 0 .. n |->
                        IF k = 0 THEN 0 ELSE f[k - 1] + q.splits[k].amount.value]
           Begun(f, m) == \A k \in 0 .. m :
                             f[k] = IF k = 0 THEN 0 ELSE f[k - 1] + q.splits[k].amount.value
<1>1. n \in Nat /\ \A i \in 1 .. n : q.splits[i].amount.value \in Nat
  <2>1. q.splits \in Seq(Share)
    BY MatchingAssumption
  <2>2. n \in Nat /\ \A i \in 1 .. n : q.splits[i] \in Share
    BY <2>1, ElementOfSeq, LenProperties
  <2> QED
    BY <2>2 DEF Share, Numeral
<1>2. \E f \in [0 .. n -> Nat] : Begun(f, n)
  <2> DEFINE T == {m \in 0 .. n : \E f \in [0 .. m -> Nat] : Begun(f, m)}
  <2>1. 0 \in T
    <3> DEFINE g == [k \in 0 .. 0 |-> 0]
    <3>1. g \in [0 .. 0 -> Nat] /\ Begun(g, 0)
      OBVIOUS
    <3> HIDE DEF g, Begun
    <3> QED
      BY <1>1, <3>1
  <2>2. ASSUME NEW m \in 0 .. n - 1, m \in T PROVE m + 1 \in T
    <3>1. PICK f \in [0 .. m -> Nat] : Begun(f, m)
      BY <2>2
    <3> DEFINE g == [k \in 0 .. m + 1 |->
                        IF k = m + 1 THEN f[m] + q.splits[k].amount.value ELSE f[k]]
    <3>2. g \in [0 .. m + 1 -> Nat]
      BY <1>1
    <3>3. Begun(g, m + 1)
      BY <1>1, <3>1, SMTT(30)
    <3>4. m + 1 \in 0 .. n
      BY <1>1
    <3> HIDE DEF g, Begun
    <3> QED
      BY <3>2, <3>3, <3>4, Zenon
  <2> HIDE DEF T
  <2>3. \A m \in 0 .. n : m \in T
    BY <1>1, <2>1, <2>2, UpTo
  <2>4. n \in T
    BY <1>1, <2>3
  <2> HIDE DEF Begun
  <2> QED
    BY <2>4 DEF T
<1>3. PICK f \in [0 .. n -> Nat] : Begun(f, n)
  BY <1>2
<1>4. f = Sums(f)
  BY <1>3
<1> DEFINE sum == CHOOSE g : g = Sums(g)
<1>5. sum = Sums(sum)
  <2> HIDE DEF Sums
  <2> QED
    BY <1>4, Zenon
<1>6. SplitsTotal(q) = sum[n]
  BY DEF SplitsTotal
<1> HIDE DEF sum
<1>7. \A m \in 0 .. n : sum[m] \in Nat /\ \A i \in 1 .. m : q.splits[i].amount.value <= sum[m]
  <2> DEFINE T == {m \in 0 .. n : /\ sum[m] \in Nat
                                  /\ \A i \in 1 .. m : q.splits[i].amount.value <= sum[m]}
  <2>1. 0 \in T
    BY <1>1, <1>5
  <2>2. ASSUME NEW m \in 0 .. n - 1, m \in T PROVE m + 1 \in T
    <3>1. sum[m + 1] = sum[m] + q.splits[m + 1].amount.value
      BY <1>1, <1>5
    <3>2. /\ q.splits[m + 1].amount.value \in Nat /\ sum[m] \in Nat /\ m + 1 \in 0 .. n
          /\ \A i \in 1 .. m + 1 : i = m + 1 \/ i \in 1 .. m
      BY <1>1, <2>2
    <3>3. sum[m] <= sum[m + 1] /\ q.splits[m + 1].amount.value <= sum[m + 1]
      BY <3>1, <3>2
    <3>4. \A i \in 1 .. m + 1 : q.splits[i].amount.value <= sum[m + 1]
      <4> TAKE i \in 1 .. m + 1
      <4>1. CASE i = m + 1
        BY <3>3, <4>1
      <4>2. CASE i \in 1 .. m
        <5>1. q.splits[i].amount.value <= sum[m] /\ q.splits[i].amount.value \in Nat
          BY <1>1, <2>2, <4>2
        <5> QED
          BY <3>1, <3>2, <3>3, <5>1
      <4> QED
        BY <3>2, <4>1, <4>2
    <3>5. sum[m + 1] \in Nat
      BY <3>1, <3>2
    <3> QED
      BY <3>2, <3>4, <3>5
  <2> HIDE DEF T
  <2>3. \A m \in 0 .. n : m \in T
    BY <1>1, <2>1, <2>2, UpTo
  <2> QED
    BY <2>3 DEF T
<1> QED
  BY <1>1, <1>6, <1>7


-----------------------------------------------------------------------------

\* The transfer of a share is an instruction, and nothing is wrong with it.
LEMMA TransferIsGood ==
    ASSUME NEW q \in Request, NEW s \in Share, s.amount.value < U64
    PROVE  /\ Transfer(q, s) \in Instruction
           /\ Dangling \notin {Transfer(q, s).program, Transfer(q, s).dest, Transfer(q, s).mint}
           /\ ~Transfer(q, s).inner
           /\ Transfer(q, s).amount = s.amount.value
           /\ \A o \in Owner, p \in TokenProgram, m \in Asset :
                 Transfer(q, s).tag = "transferChecked" /\ Transfer(q, s).dest = Ata(o, p, m) =>
                    p = Transfer(q, s).program /\ m = Transfer(q, s).mint
<1>1. /\ q.asset \in Asset /\ Native \in Asset /\ q.program \in TokenProgram
      /\ Dangling \notin Address \cup Asset \cup Program
  BY MatchingAssumption
<1>2. s.owner \in Owner /\ s.amount.value \in 0 .. U64 - 1
  BY MatchingAssumption DEF Share, Numeral
<1>3. CASE q.asset = Native
  <2> DEFINE ix == [program |-> "system", tag |-> "transfer", dest |-> s.owner,
                    mint |-> Native, amount |-> s.amount.value, inner |-> FALSE]
  <2>1. Transfer(q, s) = ix
    BY <1>3 DEF Transfer
  <2>2. ix \in Instruction
    BY <1>1, <1>2 DEF Instruction, Address, Program
  <2>3. Dangling \notin {ix.program, ix.dest, ix.mint}
    BY <1>1, <1>2 DEF Address, Program
  <2> QED
    BY <2>1, <2>2, <2>3
<1>4. CASE q.asset # Native
  <2> DEFINE d == Ata(s.owner, q.program, q.asset)
             ix == [program |-> q.program, tag |-> "transferChecked", dest |-> d,
                    mint |-> q.asset, amount |-> s.amount.value, inner |-> FALSE]
  <2>1. Transfer(q, s) = ix
    BY <1>4 DEF Transfer
  <2>2. d \in Address
    BY <1>1, <1>2 DEF Ata, Address
  <2>3. \A o \in Owner, p \in TokenProgram, m \in Asset :
           d = Ata(o, p, m) => p = q.program /\ m = q.asset
    BY DEF Ata
  <2> HIDE DEF d
  <2>4. ix \in Instruction
    BY <1>1, <1>2, <2>2 DEF Instruction, Program
  <2>5. Dangling \notin {ix.program, ix.dest, ix.mint}
    BY <1>1, <2>2 DEF Program
  <2> QED
    BY <2>1, <2>3, <2>4, <2>5
<1> QED
  BY <1>3, <1>4

\* A client's bill has a transfer for every share, in order, and executes.
LEMMA BillIsGood ==
    ASSUME NEW q \in Request, NEW primary \in Nat, primary < U64,
           \A i \in DOMAIN q.splits : q.splits[i].amount.value < U64
    PROVE  /\ Shares(q, primary) \in Seq(Share)
           /\ Bill(q, primary) \in Seq(Instruction)
           /\ DOMAIN Bill(q, primary) = DOMAIN Shares(q, primary)
           /\ \A i \in DOMAIN Shares(q, primary) :
                 /\ Bill(q, primary)[i] = Transfer(q, Shares(q, primary)[i])
                 /\ Shares(q, primary)[i] \in Share
                 /\ Shares(q, primary)[i].amount.value < U64
           /\ Executable(Bill(q, primary))
<1> DEFINE first == [owner |-> q.recipient, amount |-> Plain(primary)]
           S == Shares(q, primary)
           B == Bill(q, primary)
<1>1. q.splits \in Seq(Share) /\ q.recipient \in Owner
  BY MatchingAssumption
<1>2. first \in Share /\ first.amount.value = primary
  BY <1>1 DEF Share, Plain, Numeral
<1>3. <<first>> \in Seq(Share) /\ Len(<<first>>) = 1
  BY <1>2
<1>4. S \in Seq(Share) /\ Len(S) \in Nat
  <2> HIDE DEF first
  <2> QED
    BY <1>1, <1>3, ConcatProperties, LenProperties DEF Shares, first
<1>5. DOMAIN S = 1 .. Len(S) /\ \A i \in DOMAIN S : S[i] \in Share
  BY <1>4, LenProperties, ElementOfSeq
<1>6. /\ Len(S) = Len(q.splits) + 1 /\ Len(q.splits) \in Nat
       /\ DOMAIN q.splits = 1 .. Len(q.splits)
       /\ S[1] = first /\ \A i \in DOMAIN q.splits : S[i + 1] = q.splits[i]
  BY SharesAreSequence
<1> HIDE DEF S
<1>7. \A i \in DOMAIN S : S[i].amount.value < U64
  <2> SUFFICES ASSUME NEW i \in DOMAIN S PROVE S[i].amount.value < U64
    OBVIOUS
  <2>1. CASE i = 1
    BY <1>2, <1>6, <2>1
  <2>2. CASE i # 1
    <3>1. i - 1 \in DOMAIN q.splits /\ i - 1 + 1 = i
      BY <1>5, <1>6, <2>2
    <3>2. S[i] = q.splits[i - 1]
      BY <1>6, <3>1
    <3> QED
      BY <3>1, <3>2
  <2> QED
    BY <2>1, <2>2
<1>8. B = [i \in DOMAIN S |-> Transfer(q, S[i])]
  BY DEF Bill, S
<1>9. \A i \in DOMAIN S : B[i] = Transfer(q, S[i]) /\ B[i] \in Instruction
  BY <1>5, <1>7, <1>8, TransferIsGood
<1>10. B \in [1 .. Len(S) -> Instruction] /\ DOMAIN B = DOMAIN S
  BY <1>5, <1>8, <1>9
<1>11. B \in Seq(Instruction)
  <2>1. Len(S) \in Nat
    BY <1>4
  <2> HIDE DEF B
  <2> QED
    BY <1>10, <2>1
<1>12. Executable(B)
  BY <1>5, <1>7, <1>9, <1>10, TransferIsGood DEF Executable
<1> QED
  BY <1>4, <1>5, <1>7, <1>9, <1>10, <1>11, <1>12 DEF S

\* The sum does not wrap when the total is a u64, and no split exceeds it.
LEMMA WithinWidth ==
    ASSUME NEW q \in Request, Positive(q), q.total.value < U64
    PROVE  /\ RustSplitsTotal(q) = SplitsTotal(q)
           /\ q.total.value \in Nat
           /\ q.total.value - SplitsTotal(q) \in Nat
           /\ q.total.value - SplitsTotal(q) < U64
           /\ \A i \in DOMAIN q.splits : q.splits[i].amount.value < U64
<1>1. /\ q.total.value \in Nat /\ U64 \in Nat /\ q.splits \in Seq(Share)
      /\ DOMAIN q.splits = 1 .. Len(q.splits)
  BY MatchingAssumption, LenProperties DEF Numeral
<1>2. SplitsTotal(q) \in Nat /\ SplitsTotal(q) < U64 /\ SplitsTotal(q) < q.total.value
  BY <1>1, TotalIsSum DEF Positive
<1>3. RustSplitsTotal(q) = SplitsTotal(q)
  BY <1>1, <1>2 DEF RustSplitsTotal
<1>4. \A i \in DOMAIN q.splits : q.splits[i].amount.value < U64
  BY <1>1, <1>2, TotalIsSum
<1> QED
  BY <1>1, <1>2, <1>3, <1>4

\* What a client builds, if it can.
LEMMA RustBillIsGood ==
    ASSUME NEW q \in Request, RustCanBuild(q)
    PROVE  LET primary == q.total.value - RustSplitsTotal(q)
           IN  /\ primary \in Nat /\ primary < U64
               /\ \A i \in DOMAIN q.splits : q.splits[i].amount.value < U64
<1>1. q.total.value \in Nat /\ U64 \in Nat \ {0} /\ SplitsTotal(q) \in Nat
  BY MatchingAssumption, TotalIsSum DEF Numeral
<1>2. RustSplitsTotal(q) \in Nat
  BY <1>1 DEF RustSplitsTotal
<1>3. /\ RustSplitsTotal(q) < q.total.value /\ q.total.value < U64
      /\ \A i \in DOMAIN q.splits : q.splits[i].amount.value < U64
  BY DEF RustCanBuild, RustParses, ByU64
<1> QED
  BY <1>1, <1>2, <1>3

LEMMA TsBillIsGood ==
    ASSUME NEW q \in Request, TsCanBuild(q)
    PROVE  LET primary == q.total.value - SplitsTotal(q)
           IN  /\ primary \in Nat /\ primary < U64
               /\ \A i \in DOMAIN q.splits : q.splits[i].amount.value < U64
<1>1. q.total.value \in Nat /\ U64 \in Nat /\ SplitsTotal(q) \in Nat
  BY MatchingAssumption, TotalIsSum DEF Numeral
<1> QED
  BY <1>1 DEF TsCanBuild

-----------------------------------------------------------------------------
LEMMA MatchInit == Init => MatchInv
<1> SUFFICES ASSUME Init PROVE MatchInv
  OBVIOUS
<1>1. Len(TsShares) \in Nat
  BY SharesAreSequence DEF Init, TsShares
<1> QED
  BY <1>1 DEF Init, MatchInv

LEMMA MatchStep == MatchInv /\ [Next]_vars => MatchInv'
<1> SUFFICES ASSUME MatchInv, [Next]_vars PROVE MatchInv'
  OBVIOUS
<1>1. Len(TsShares) \in Nat /\ Len(used) \in Nat
  BY SharesAreSequence DEF MatchInv, TsShares
<1>2. ASSUME request' = request, UNCHANGED <<used, tx>>,
             stage' \notin {"build", "match", "accepted"}
      PROVE  MatchInv'
  BY <1>2 DEF MatchInv, PaysShare, IsFoundFor, TsTransfer, Shown, TsShares, PrimaryIsPositive
<1>3. ASSUME request' = request, stage = "build", used' = used, stage' # "accepted",
             stage' = "match" => Executable(tx')
      PROVE  MatchInv'
  <2>1. used' = <<>> /\ Len(used') = 0 /\ TsShares' = TsShares
    BY <1>3 DEF MatchInv, TsShares
  <2> QED
    BY <1>1, <1>3, <2>1 DEF MatchInv
<1>4. CASE RustBuild
  BY <1>3, <1>4, RustBillIsGood, BillIsGood DEF RustBuild, Built, MatchInv
<1>5. CASE TsBuild
  BY <1>3, <1>5, TsBillIsGood, BillIsGood DEF TsBuild, Built, MatchInv
<1>6. ASSUME NEW by \in {"rust", "ts"}, BuildRefused(by) PROVE MatchInv'
  BY <1>3, <1>6 DEF BuildRefused
<1>7. ASSUME NEW ix, Compose(ix) PROVE MatchInv'
  BY <1>3, <1>7 DEF Compose
<1>8. ASSUME NEW v, Present(v) PROVE MatchInv'
  BY <1>3, <1>8 DEF Present
<1>9. CASE MatchShare
  <2>1. PICK j \in DOMAIN tx : /\ IsFirst(j, Candidates(Left))
                               /\ HasNextAmount(tx[j])
                               /\ used' = Append(used, j)
    BY <1>9 DEF MatchShare
  <2>2. UNCHANGED <<request, tx, stage>> /\ TsShares' = TsShares
    BY <1>9 DEF MatchShare, TsShares
  <2>3. /\ IsFoundFor(tx[j], NextShare)
        /\ \A i \in 1 .. Len(used) : used[i] # j
    <3>1. j \in Left /\ IsForNext(tx[j])
      BY <2>1 DEF IsFirst, Candidates
    <3>2. IsFoundFor(tx[j], NextShare)
      BY <2>1, <3>1 DEF Left, IsForNext, IsFoundFor, HasNextAmount
    <3>3. \A i \in 1 .. Len(used) : used[i] # j
      BY <1>1, <3>1 DEF Left, MatchInv
    <3> QED
      BY <3>2, <3>3
  <2>4. /\ used' \in Seq(DOMAIN tx) /\ Len(used') = Len(used) + 1
        /\ \A i \in 1 .. Len(used) : used'[i] = used[i]
        /\ used'[Len(used) + 1] = j
    BY <1>1, <2>1 DEF MatchInv
  <2>5. Len(used') <= Len(TsShares') /\ stage' = "match"
    BY <1>1, <1>9, <2>2, <2>4 DEF MatchShare, Searching
  <2>6. ASSUME NEW i \in 1 .. Len(used') PROVE PaysShare(i)'
    <3>1. CASE i = Len(used) + 1
      BY <2>1, <2>2, <2>3, <2>4, <3>1
         DEF PaysShare, NextShare, IsFoundFor, TsTransfer, Shown
    <3>2. CASE i \in 1 .. Len(used)
      BY <2>2, <2>4, <3>2 DEF PaysShare, MatchInv, IsFoundFor, TsTransfer, Shown
    <3> QED
      BY <1>1, <2>4, <3>1, <3>2
  <2>7. ASSUME NEW i \in 1 .. Len(used'), NEW k \in 1 .. Len(used'),
               used'[i] = used'[k]
        PROVE  i = k
    <3>1. \A n \in 1 .. Len(used') : n \in 1 .. Len(used) \/ n = Len(used) + 1
      BY <1>1, <2>4
    <3> QED
      BY <2>3, <2>4, <2>7, <3>1 DEF MatchInv
  <2> QED
    BY <2>2, <2>4, <2>5, <2>6, <2>7 DEF MatchInv
<1>10. CASE Refuse
  BY <1>2, <1>10 DEF Refuse
<1>11. CASE Accept
  BY <1>11 DEF Accept, MatchInv, PaysShare, IsFoundFor, TsTransfer, Shown, TsShares,
               PrimaryIsPositive
<1>12. CASE UNCHANGED vars
  BY <1>12 DEF vars, MatchInv, PaysShare, IsFoundFor, TsTransfer, Shown, TsShares,
               PrimaryIsPositive
<1> QED
  BY <1>4, <1>5, <1>6, <1>7, <1>8, <1>9, <1>10, <1>11, <1>12 DEF Next

\* Types.  The transaction is a client's bill, or composed.
LEMMA TypesHold == MatchInv /\ TypeOK /\ [Next]_vars => TypeOK'
<1> SUFFICES ASSUME MatchInv, TypeOK, [Next]_vars PROVE TypeOK'
  OBVIOUS
<1>1. ASSUME NEW by \in {"rust", "ts"}, NEW v \in {"legacy", "v0"}, NEW t \in Seq(Instruction),
             Built(by, t, v)
      PROVE  TypeOK'
  <2>1. used' = <<>> /\ request' = request /\ request \in Request
    BY <1>1 DEF Built, MatchInv
  <2>2. used' \in Seq(DOMAIN tx')
    BY <2>1
  <2> QED
    BY <1>1, <2>1, <2>2 DEF Built, TypeOK
<1>2. CASE RustBuild
  BY <1>1, <1>2, RustBillIsGood, BillIsGood DEF RustBuild, TypeOK
<1>3. CASE TsBuild
  BY <1>1, <1>3, TsBillIsGood, BillIsGood DEF TsBuild, TypeOK
<1>4. ASSUME NEW by \in {"rust", "ts"}, BuildRefused(by) PROVE TypeOK'
  BY <1>4 DEF BuildRefused, TypeOK
<1>5. ASSUME NEW ix \in Composable[request.asset], Compose(ix) PROVE TypeOK'
  <2>1. ix \in Instruction
    BY MatchingAssumption DEF TypeOK
  <2>2. tx' \in Seq(Instruction)
    BY <1>5, <2>1, AppendProperties DEF Compose, TypeOK
  <2>3. used' = <<>> /\ used' \in Seq(DOMAIN tx')
    BY <1>5 DEF Compose, MatchInv
  <2> QED
    BY <1>5, <2>2, <2>3 DEF Compose, TypeOK
<1>6. ASSUME NEW v \in {"legacy", "v0"}, Present(v) PROVE TypeOK'
  BY <1>6 DEF Present, TypeOK
<1>7. CASE MatchShare
  BY <1>7, AppendProperties DEF MatchShare, TypeOK
<1>8. CASE Refuse
  BY <1>8 DEF Refuse, TypeOK
<1>9. CASE Accept
  BY <1>9 DEF Accept, TypeOK
<1>10. CASE UNCHANGED vars
  BY <1>10 DEF vars, TypeOK
<1> QED
  BY <1>2, <1>3, <1>4, <1>5, <1>6, <1>7, <1>8, <1>9, <1>10 DEF Next

\* TypeOK holds for every set of requests and transfers.
THEOREM TypeCorrectness == Spec => []TypeOK
<1>1. Init => TypeOK
  <2> SUFFICES ASSUME Init PROVE TypeOK
    OBVIOUS
  <2>1. \A S : <<>> \in Seq(S)
    BY EmptySeq
  <2> QED
    BY <2>1 DEF Init, TypeOK
<1> QED
  BY <1>1, MatchInit, MatchStep, TypesHold, PTL DEF Spec


-----------------------------------------------------------------------------

\* What matches a share has its amount, unless JavaScript rounds it.
LEMMA FoundIsExact ==
    ASSUME TypeOK, MatchInv, SafeInJs(request), NEW i \in 1 .. Len(used)
    PROVE  /\ used[i] \in DOMAIN tx /\ i \in DOMAIN TsShares
           /\ PaysOne(tx[used[i]], TsShares[i], request)
           /\ TsShares[i].amount.text = "plain"
<1> DEFINE ix == tx[used[i]]
           s == TsShares[i]
<1>1. /\ used[i] \in DOMAIN tx /\ IsFoundFor(ix, s)
      /\ i \in DOMAIN TsShares
  <2>1. /\ DOMAIN TsShares = 1 .. Len(TsShares) /\ Len(TsShares) \in Nat
        /\ Len(used) \in Nat /\ Len(used) <= Len(TsShares) /\ PaysShare(i)
    BY SharesAreSequence DEF MatchInv, TsShares
  <2> QED
    BY <2>1 DEF PaysShare
<1>2. ix.amount \in 0 .. U64 - 1
  <2>1. ix \in Instruction
    BY <1>1, ElementOfSeq, LenProperties DEF TypeOK
  <2> QED
    BY <2>1 DEF Instruction
<1> HIDE DEF ix, s
<1>3. s.amount.text = "plain"
  BY <1>1 DEF IsFoundFor, Shown, Plain
<1>4. ix.amount = s.amount.value
  <2>1. CASE request.asset # Native
    BY <1>1, <2>1 DEF IsFoundFor, Shown, Plain
  <2>2. CASE request.asset = Native
    <3>1. AsNumber[ix.amount] = s.amount.value
      BY <1>1, <2>2 DEF IsFoundFor, Shown, Plain
    <3>2. s.amount.value <= MaxSafe
      BY <1>1, <2>2 DEF SafeInJs, ExactShares, TsShares, s
    <3> QED
      BY <1>2, <3>1, <3>2, MatchingAssumption
  <2> QED
    BY <2>1, <2>2
<1>5. PaysOne(ix, s, request)
  BY <1>1, <1>4 DEF IsFoundFor, TsTransfer, PaysOne
<1> QED
  BY <1>1, <1>3, <1>5 DEF ix, s

\* What verifyInstructions accepts pays the request: distinct transfers of the
\* right amount and asset for every share, however many there are.
THEOREM AcceptedIsPaid == Spec => []TsAcceptsOnlyPayment
<1>1. TypeOK /\ MatchInv => TsAcceptsOnlyPayment
  <2> SUFFICES ASSUME TypeOK, MatchInv, stage = "accepted", SafeInJs(request)
               PROVE  Pays(tx, request)
    BY DEF TsAcceptsOnlyPayment
  <2>1. PrimaryIsPositive /\ Len(used) = Len(TsShares)
    BY DEF MatchInv
  <2>2. DOMAIN TsShares = 1 .. Len(used) /\ used \in [1 .. Len(used) -> DOMAIN tx]
    BY <2>1, SharesAreSequence DEF MatchInv, TsShares
  <2>3. /\ \A i, j \in DOMAIN used : used[i] = used[j] => i = j
        /\ \A i \in DOMAIN used : PaysOne(tx[used[i]], TsShares[i], request)
    BY <2>2, FoundIsExact DEF MatchInv
  <2>4. TsShares = ExactShares(request) /\ Positive(request)
    BY <2>1 DEF TsShares, ExactShares, PrimaryIsPositive, Positive
  <2> QED
    BY <2>2, <2>3, <2>4 DEF Pays
<1>2. Spec => []TypeOK
  BY TypeCorrectness
<1> QED
  BY <1>1, <1>2, MatchInit, MatchStep, PTL DEF Spec

-----------------------------------------------------------------------------
\* What the Rust client built is the bill it can build.
RustBillInv ==
    builder = "rust" /\ stage # "unbuilt" =>
        /\ RustCanBuild(request) /\ version = "legacy" /\ stage # "build"
        /\ tx = Bill(request, request.total.value - RustSplitsTotal(request))

LEMMA RustBillStep == MatchInv /\ RustBillInv /\ [Next]_vars => RustBillInv'
<1> USE DEF RustBillInv
<1> SUFFICES ASSUME RustBillInv, [Next]_vars PROVE RustBillInv'
  OBVIOUS
<1>1. CASE RustBuild
  BY <1>1 DEF RustBuild, Built
<1>2. CASE TsBuild
  BY <1>2 DEF TsBuild, Built
<1>3. ASSUME NEW by \in {"rust", "ts"}, BuildRefused(by) PROVE RustBillInv'
  BY <1>3 DEF BuildRefused
<1>4. ASSUME NEW ix, Compose(ix) PROVE RustBillInv'
  BY <1>4 DEF Compose
<1>5. ASSUME NEW v, Present(v) PROVE RustBillInv'
  BY <1>5 DEF Present
<1>6. CASE MatchShare \/ Refuse \/ Accept
  BY <1>6 DEF MatchShare, Refuse, Accept, Searching
<1>7. CASE UNCHANGED vars
  BY <1>7 DEF vars
<1> QED
  BY <1>1, <1>2, <1>3, <1>4, <1>5, <1>6, <1>7 DEF Next

\* Both checks of the Rust server find the transfers of that bill.
LEMMA RustBillIsFound ==
    ASSUME NEW q \in Request, RustCanBuild(q)
    PROVE  LET t == Bill(q, q.total.value - RustSplitsTotal(q))
           IN  RawAccepts(t, "legacy", q) /\ ChainAccepts(t, "legacy", q)
<1> DEFINE t == Bill(q, q.total.value - RustSplitsTotal(q))
           shares == RustShares(q)
<1>1. /\ DOMAIN t = DOMAIN shares /\ Executable(t)
      /\ \A i \in DOMAIN shares : /\ t[i] = Transfer(q, shares[i])
                                  /\ shares[i] \in Share
                                  /\ shares[i].amount.value < U64
  BY RustBillIsGood, BillIsGood DEF RustShares
<1> HIDE DEF t, shares
<1>2. TopLevel(t) = DOMAIN t
  BY <1>1, TransferIsGood DEF TopLevel
<1>3. \A k \in DOMAIN t : Dangling \notin {t[k].program, t[k].dest, t[k].mint}
  BY <1>1 DEF Executable
<1>4. q.program \in TokenProgram
  BY MatchingAssumption
<1>5. ASSUME NEW i \in DOMAIN shares, q.asset = Native
      PROVE  /\ verify_sol_transfer_instructions(t, shares[i])
             /\ find_sol_transfer(t, shares[i])
  <2>1. /\ t[i].program = "system" /\ t[i].tag = "transfer"
        /\ t[i].dest = shares[i].owner /\ t[i].amount = shares[i].amount.value
    BY <1>1, <1>5 DEF Transfer
  <2>2. \A k \in TopLevel(t) : ~RawSolBroken(t[k])
    BY <1>2, <1>3 DEF RawSolBroken
  <2>3. verify_sol_transfer_instructions(t, shares[i])
    BY <1>1, <1>2, <2>1, <2>2 DEF verify_sol_transfer_instructions, RawSolMatches
  <2>4. find_sol_transfer(t, shares[i])
    BY <1>1, <2>1 DEF find_sol_transfer, IsParsed, Lamports
  <2> QED
    BY <2>3, <2>4
<1>6. ASSUME NEW i \in DOMAIN shares, q.asset # Native
      PROVE  /\ verify_spl_transfer_instructions(t, shares[i])
             /\ find_spl_transfer(t, shares[i])
  <2>1. /\ t[i].program = q.program /\ t[i].tag = "transferChecked" /\ t[i].mint = q.asset
        /\ t[i].dest = Ata(shares[i].owner, q.program, q.asset)
        /\ t[i].amount = shares[i].amount.value
    BY <1>1, <1>6 DEF Transfer
  <2>2. \A k \in TopLevel(t) : ~RawSplBroken(t[k], shares[i])
    BY <1>2, <1>3 DEF RawSplBroken
  <2>3. verify_spl_transfer_instructions(t, shares[i])
    BY <1>1, <1>2, <1>4, <2>1, <2>2
       DEF verify_spl_transfer_instructions, RawSplMatches, RawSplOf
  <2>4. find_spl_transfer(t, shares[i])
    BY <1>1, <1>4, <2>1 DEF find_spl_transfer, verify_ata_owner
  <2> QED
    BY <2>3, <2>4
<1>7. RustParses(q) /\ Len(q.splits) <= SplitLimit
  BY DEF RustCanBuild
<1>8. RawAccepts(t, "legacy", q) /\ ChainAccepts(t, "legacy", q)
  BY <1>1, <1>5, <1>6, <1>7 DEF RawAccepts, ChainAccepts, shares
<1> QED
  BY <1>8 DEF t

-----------------------------------------------------------------------------
\* A request without the things that part the servers from the clients.
Agreed == WellFormed(request) /\ PlainSplits(request) /\ SafeInJs(request)

\* What a client built of such a request is its bill for the exact amounts, and
\* the TypeScript search matches its transfers one after another.
BillInv ==
    builder \in {"rust", "ts"} /\ Agreed =>
      /\ stage \in {"match", "accepted"}
      /\ tx = Bill(request, request.total.value - SplitsTotal(request))
      /\ \A i \in 1 .. Len(used) : used[i] = i

\* Both clients can build for such a request, and build the same.
LEMMA BothCanBuild ==
    ASSUME NEW q \in Request, WellFormed(q), PlainSplits(q)
    PROVE  RustCanBuild(q) /\ TsCanBuild(q) /\ RustSplitsTotal(q) = SplitsTotal(q)
<1>1. /\ RustSplitsTotal(q) = SplitsTotal(q) /\ q.total.value \in Nat
      /\ q.total.value - SplitsTotal(q) < U64
      /\ \A i \in DOMAIN q.splits : q.splits[i].amount.value < U64
  BY WithinWidth DEF WellFormed, ByU64
<1>2. SplitsTotal(q) < q.total.value /\ SplitsTotal(q) \in Nat
  BY TotalIsSum DEF WellFormed, Positive
<1>3. \A i \in DOMAIN q.splits : ByU64(q.splits[i].amount)
  BY <1>1 DEF PlainSplits, ByU64
<1> QED
  BY <1>1, <1>2, <1>3 DEF WellFormed, RustCanBuild, RustParses, TsCanBuild

\* As long as the transfers were matched one after another, the next share is
\* matched with the next transfer.
LEMMA NextIsFirst ==
    ASSUME MatchInv, TypeOK, Agreed, Searching,
           tx = Bill(request, request.total.value - SplitsTotal(request)),
           \A i \in 1 .. Len(used) : used[i] = i
    PROVE  /\ Len(used) + 1 \in DOMAIN tx
           /\ HasNextAmount(tx[Len(used) + 1])
           /\ \A j : IsFirst(j, Candidates(Left)) <=> j = Len(used) + 1
<1> DEFINE next == Len(used) + 1
           primary == request.total.value - SplitsTotal(request)
<1>1. /\ request \in Request /\ primary \in Nat /\ primary < U64
      /\ \A i \in DOMAIN request.splits : request.splits[i].amount.value < U64
  BY WithinWidth DEF Agreed, WellFormed, ByU64, TypeOK
<1>2. /\ DOMAIN tx = DOMAIN TsShares
      /\ \A i \in DOMAIN tx : /\ tx[i] = Transfer(request, TsShares[i])
                              /\ TsShares[i] \in Share
                              /\ TsShares[i].amount.value < U64
  BY <1>1, BillIsGood DEF TsShares
<1>3. DOMAIN TsShares = 1 .. Len(TsShares) /\ Len(TsShares) \in Nat
  BY <1>1, SharesAreSequence DEF TsShares
<1>4. Len(used) \in Nat /\ DOMAIN used = 1 .. Len(used) /\ Len(used) < Len(TsShares)
  BY LenProperties DEF MatchInv, Searching
<1>5. next \in DOMAIN tx
  BY <1>2, <1>3, <1>4
<1>6. {used[i] : i \in DOMAIN used} = 1 .. Len(used)
  BY <1>4
<1>7. \A i \in DOMAIN tx : ~tx[i].inner /\ tx[i].amount = TsShares[i].amount.value
  BY <1>1, <1>2, TransferIsGood
<1>8. \A i \in DOMAIN tx : TsTransfer(tx[i])
  <2> TAKE i \in DOMAIN tx
  <2>1. tx[i] = Transfer(request, TsShares[i]) /\ request.program \in TokenProgram
    BY <1>1, <1>2, MatchingAssumption
  <2>2. CASE request.asset = Native
    <3>1. tx[i].tag = "transfer" /\ tx[i].program = "system"
      BY <2>1, <2>2 DEF Transfer
    <3> QED
      BY <2>2, <3>1 DEF TsTransfer
  <2>3. CASE request.asset # Native
    <3>1. tx[i].tag = "transferChecked" /\ tx[i].program \in TokenProgram
      BY <2>1, <2>3 DEF Transfer
    <3> QED
      BY <2>3, <3>1 DEF TsTransfer
  <2> QED
    BY <2>2, <2>3
<1>9. Left = DOMAIN tx \ 1 .. Len(used)
  BY <1>6, <1>7, <1>8 DEF Left, TopLevel
<1>10. IsForNext(tx[next])
  <2>1. tx[next] = Transfer(request, NextShare)
    BY <1>2, <1>5 DEF NextShare
  <2>2. CASE request.asset = Native
    <3>1. tx[next].dest = NextShare.owner
      BY <2>1, <2>2 DEF Transfer
    <3> QED
      BY <2>2, <3>1 DEF IsForNext
  <2>3. CASE request.asset # Native
    <3>1. /\ tx[next].dest = Ata(NextShare.owner, request.program, request.asset)
          /\ tx[next].mint = request.asset
      BY <2>1, <2>3 DEF Transfer
    <3> QED
      BY <2>3, <3>1 DEF IsForNext
  <2> QED
    BY <2>2, <2>3
<1>11. next \in Candidates(Left)
  BY <1>4, <1>5, <1>9, <1>10 DEF Candidates
<1>12. \A k \in Candidates(Left) : k \in Nat /\ next <= k
  BY <1>2, <1>3, <1>4, <1>9 DEF Candidates
<1>13. ASSUME NEW j PROVE IsFirst(j, Candidates(Left)) <=> j = next
  <2>1. CASE j = next
    BY <1>11, <1>12, <2>1 DEF IsFirst
  <2>2. CASE IsFirst(j, Candidates(Left))
    <3>1. j \in Nat /\ next <= j /\ j <= next /\ next \in Nat
      BY <1>4, <1>11, <1>12, <2>2 DEF IsFirst
    <3> QED
      BY <2>2, <3>1
  <2> QED
    BY <2>1, <2>2
<1>14. HasNextAmount(tx[next])
  <2> DEFINE s == TsShares[next]
  <2>1. s.amount = Plain(s.amount.value)
    <3>1. /\ Len(TsShares) = Len(request.splits) + 1 /\ Len(request.splits) \in Nat
          /\ DOMAIN request.splits = 1 .. Len(request.splits)
          /\ TsShares[1].amount = Plain(primary)
          /\ \A i \in DOMAIN request.splits : TsShares[i + 1] = request.splits[i]
      <4>1. TsShares = Shares(request, primary)
        BY DEF TsShares
      <4> HIDE DEF primary
      <4>2. TsShares[1] = [owner |-> request.recipient, amount |-> Plain(primary)]
        BY <1>1, <4>1, SharesAreSequence
      <4> QED
        BY <1>1, <4>1, <4>2, SharesAreSequence
    <3>2. CASE next = 1
      BY <3>1, <3>2 DEF Plain
    <3>3. CASE next # 1
      <4>1. Len(used) \in DOMAIN request.splits
        BY <1>4, <3>1, <3>3
      <4>2. s = request.splits[Len(used)]
        BY <3>1, <4>1
      <4>3. s.amount \in Numeral /\ s.amount.text = "plain"
        BY <1>2, <1>5, <4>1, <4>2 DEF Agreed, PlainSplits, Share
      <4> QED
        BY <4>3 DEF Numeral, Plain
    <3> QED
      BY <3>2, <3>3
  <2>2. s.amount.value \in 0 .. U64 - 1
    BY <1>2, <1>5, MatchingAssumption DEF Share, Numeral
  <2>3. CASE request.asset = Native
    <3>1. s.amount.value <= MaxSafe
      BY <1>2, <1>5, <2>3 DEF Agreed, SafeInJs, ExactShares, TsShares
    <3>2. AsNumber[s.amount.value] = s.amount.value
      BY <2>2, <3>1, MatchingAssumption
    <3> QED
      BY <1>5, <1>7, <2>1, <2>3, <3>2 DEF HasNextAmount, Shown, NextShare
  <2>4. CASE request.asset # Native
    BY <1>5, <1>7, <2>1, <2>4 DEF HasNextAmount, Shown, NextShare
  <2> QED
    BY <2>3, <2>4
<1> QED
  BY <1>5, <1>13, <1>14

LEMMA BillStep == MatchInv /\ TypeOK /\ BillInv /\ [Next]_vars => BillInv'
<1> SUFFICES ASSUME MatchInv, TypeOK, BillInv, [Next]_vars,
                    builder' \in {"rust", "ts"}, Agreed'
             PROVE  /\ stage' \in {"match", "accepted"}
                    /\ tx' = Bill(request', request'.total.value - SplitsTotal(request'))
                    /\ \A i \in 1 .. Len(used') : used'[i] = i
  BY DEF BillInv
<1>1. request' = request /\ request \in Request
  BY DEF Next, RustBuild, TsBuild, Built, BuildRefused, Compose, Present, MatchShare,
         Refuse, Accept, vars, TypeOK
<1>2. Agreed
  BY <1>1 DEF Agreed
<1>3. /\ RustCanBuild(request) /\ TsCanBuild(request)
      /\ RustSplitsTotal(request) = SplitsTotal(request)
  BY <1>1, <1>2, BothCanBuild DEF Agreed
<1>4. ASSUME NEW by \in {"rust", "ts"}, NEW v,
             Built(by, Bill(request, request.total.value - SplitsTotal(request)), v)
      PROVE  /\ stage' = "match"
             /\ tx' = Bill(request, request.total.value - SplitsTotal(request))
             /\ used' = <<>>
  BY <1>4 DEF Built, MatchInv
<1>5. CASE RustBuild \/ TsBuild
  BY <1>1, <1>3, <1>4, <1>5 DEF RustBuild, TsBuild
<1>6. ASSUME NEW by \in {"rust", "ts"}, BuildRefused(by) PROVE FALSE
  BY <1>3, <1>6 DEF BuildRefused
<1>7. ASSUME NEW ix, Compose(ix) PROVE FALSE
  BY <1>7 DEF Compose
<1>8. ASSUME NEW v, Present(v) PROVE FALSE
  BY <1>8 DEF Present
<1>9. CASE MatchShare
  <2>1. /\ stage' = "match" /\ builder \in {"rust", "ts"} /\ tx' = tx /\ Searching
        /\ tx = Bill(request, request.total.value - SplitsTotal(request))
        /\ \A i \in 1 .. Len(used) : used[i] = i
    BY <1>2, <1>9 DEF MatchShare, Searching, BillInv
  <2>2. used' = Append(used, Len(used) + 1)
    BY <1>2, <1>9, <2>1, NextIsFirst DEF MatchShare
  <2>3. /\ Len(used') = Len(used) + 1 /\ Len(used) \in Nat
        /\ \A i \in 1 .. Len(used) : used'[i] = used[i]
        /\ used'[Len(used) + 1] = Len(used) + 1
    <3>1. used \in Seq(DOMAIN tx) /\ Len(used) + 1 \in DOMAIN tx
      BY <1>2, <2>1, NextIsFirst DEF TypeOK
    <3> QED
      BY <2>2, <3>1, AppendProperties, LenProperties
  <2>4. \A i \in 1 .. Len(used') : used'[i] = i
    BY <2>1, <2>3
  <2> QED
    BY <1>1, <2>1, <2>4
<1>10. CASE Refuse
  <2>1. /\ builder \in {"rust", "ts"} /\ PrimaryIsPositive
        /\ tx = Bill(request, request.total.value - SplitsTotal(request))
        /\ \A i \in 1 .. Len(used) : used[i] = i
    BY <1>2, <1>10 DEF Refuse, BillInv, Agreed, WellFormed, Positive, PrimaryIsPositive
  <2>2. Searching /\ \A j \in DOMAIN tx : IsFirst(j, Candidates(Left)) =>
                       ~HasNextAmount(tx[j])
    BY <1>10, <2>1 DEF Refuse
  <2> QED
    BY <1>2, <2>1, <2>2, NextIsFirst
<1>11. CASE Accept
  BY <1>1, <1>2, <1>11 DEF Accept, BillInv
<1>12. CASE UNCHANGED vars
  BY <1>1, <1>2, <1>12 DEF vars, BillInv
<1> QED
  BY <1>5, <1>6, <1>7, <1>8, <1>9, <1>10, <1>11, <1>12 DEF Next

\* No client pays and is refused by the TypeScript search for a request both
\* sides read alike, however many splits there are and whichever of its shares
\* are equal; and no payment the Rust client built by the Rust server's.
THEOREM HonestPayersAreServed == Spec => []HonestIsAccepted
<1>1. TypeOK /\ BillInv /\ RustBillInv => HonestIsAccepted
  <2> SUFFICES ASSUME TypeOK, BillInv, RustBillInv PROVE HonestIsAccepted
    OBVIOUS
  <2>1. ASSUME builder \in {"rust", "ts"}, Agreed PROVE stage \notin {"unbuilt", "refused"}
    BY <2>1 DEF BillInv
  <2>2. ASSUME builder = "rust", stage # "unbuilt"
        PROVE  RawAccepts(tx, version, request) /\ ChainAccepts(tx, version, request)
    <3>1. /\ RustCanBuild(request) /\ version = "legacy" /\ request \in Request
          /\ tx = Bill(request, request.total.value - RustSplitsTotal(request))
      BY <2>2 DEF RustBillInv, TypeOK
    <3> QED
      BY <3>1, RustBillIsFound
  <2> QED
    BY <2>1, <2>2 DEF HonestIsAccepted, Agreed
<1>2. Init => BillInv /\ RustBillInv
  BY DEF Init, BillInv, RustBillInv
<1>3. Spec => []TypeOK
  BY TypeCorrectness
<1> QED
  BY <1>1, <1>2, <1>3, MatchInit, MatchStep, BillStep, RustBillStep, PTL DEF Spec

-----------------------------------------------------------------------------

\* What the search in the raw transaction finds, the node reports as what the
\* search on chain looks for: the two read different data by different rules.
THEOREM CheckedStaysChecked == Spec => []RawImpliesChain
<1>1. ASSUME NEW t, NEW s, verify_sol_transfer_instructions(t, s)
      PROVE  find_sol_transfer(t, s)
  <2>1. PICK j \in TopLevel(t) : RawSolMatches(t[j], s)
    BY <1>1 DEF verify_sol_transfer_instructions
  <2>2. /\ j \in DOMAIN t /\ IsParsed(t[j]) /\ t[j].tag = "transfer"
        /\ t[j].dest = s.owner /\ Lamports(t[j]) = s.amount.value
    BY <2>1 DEF TopLevel, RawSolMatches, IsParsed, Lamports
  <2> QED
    BY <2>2 DEF find_sol_transfer
<1>2. ASSUME NEW t, NEW s, verify_spl_transfer_instructions(t, s)
      PROVE  find_spl_transfer(t, s)
  <2>1. PICK j \in TopLevel(t) : RawSplMatches(t[j], s)
    BY <1>2 DEF verify_spl_transfer_instructions
  <2>2. /\ j \in DOMAIN t /\ t[j].program \in TokenProgram /\ t[j].tag = "transferChecked"
        /\ t[j].amount = s.amount.value
        /\ verify_ata_owner(t[j].dest, s.owner, t[j].mint, t[j].program)
    BY <2>1 DEF TopLevel, RawSplMatches, RawSplOf, verify_ata_owner
  <2> QED
    BY <2>2 DEF find_spl_transfer
<1>3. RawImpliesChain
  BY <1>1, <1>2 DEF RawImpliesChain, RawAccepts, ChainAccepts
<1> QED
  BY <1>3, PTL

-----------------------------------------------------------------------------
\* What the chain check finds for a positive share of the asked asset pays it.
LEMMA FoundPays ==
    ASSUME NEW t, NEW q, NEW s, Executable(t), s.amount.value \in Nat,
           s.amount.value > 0,
           IF q.asset = Native THEN find_sol_transfer(t, s) ELSE find_spl_transfer(t, s),
           \A j \in DOMAIN t : t[j].tag = "transferChecked" =>
              t[j].mint = q.asset /\ t[j].program = q.program
    PROVE  \E j \in DOMAIN t : PaysOne(t[j], s, q)
<1>1. CASE q.asset = Native
  <2>1. PICK j \in DOMAIN t : /\ t[j].tag = "transfer" /\ t[j].dest = s.owner
                              /\ Lamports(t[j]) = s.amount.value
    BY <1>1 DEF find_sol_transfer
  <2>2. t[j].program = "system" /\ t[j].amount = s.amount.value
    BY <2>1 DEF Lamports
  <2> QED
    BY <1>1, <2>1, <2>2 DEF PaysOne
<1>2. CASE q.asset # Native
  <2>1. PICK j \in DOMAIN t :
           /\ t[j].program \in TokenProgram /\ t[j].tag = "transferChecked"
           /\ t[j].amount = s.amount.value
           /\ t[j].dest = Ata(s.owner, t[j].program, t[j].mint)
    BY <1>2 DEF find_spl_transfer, verify_ata_owner
  <2>2. t[j].mint = q.asset /\ t[j].program = q.program
    BY <2>1
  <2> QED
    BY <1>2, <2>1, <2>2 DEF PaysOne
<1> QED
  BY <1>1, <1>2

\* The search without memory is good enough for distinct shares of the asset
\* asked: two of them cannot be found in one transfer.
THEOREM DistinctSharesArePaid == Spec => []RustAcceptsDistinct
<1> DEFINE shares == ExactShares(request)
           Distinct == \A i, j \in DOMAIN shares :
                          /\ shares[i].owner = shares[j].owner
                          /\ shares[i].amount.value = shares[j].amount.value
                          => i = j
<1>1. ASSUME TypeOK, ChainAccepts(tx, version, request), Positive(request), Distinct,
             \A i \in DOMAIN shares : shares[i].amount.value > 0,
             \A j \in DOMAIN tx : tx[j].tag = "transferChecked" =>
                tx[j].mint = request.asset /\ tx[j].program = request.program
      PROVE  Pays(tx, request)
  <2>1. /\ request \in Request /\ RustShares(request) = shares
        /\ \A i \in DOMAIN shares : shares[i] \in Share
    <3>1. request \in Request /\ request.total.value < U64
      BY <1>1 DEF TypeOK, ChainAccepts, RustParses, ByU64
    <3>2. \A i \in DOMAIN shares : shares[i] \in Share
      BY <1>1, <3>1, WithinWidth, BillIsGood DEF ExactShares
    <3> QED
      BY <1>1, <3>1, <3>2, WithinWidth DEF RustShares, ExactShares
  <2>2. \A i \in DOMAIN shares : shares[i].amount.value \in Nat
    BY <2>1 DEF Share, Numeral
  <2> HIDE DEF shares
  <2>3. \A i \in DOMAIN shares : \E j \in DOMAIN tx : PaysOne(tx[j], shares[i], request)
    <3> TAKE i \in DOMAIN shares
    <3>1. /\ Executable(tx) /\ shares[i].amount.value \in Nat /\ shares[i].amount.value > 0
          /\ IF request.asset = Native THEN find_sol_transfer(tx, shares[i])
                                       ELSE find_spl_transfer(tx, shares[i])
      BY <1>1, <2>1, <2>2 DEF ChainAccepts
    <3> QED
      BY <1>1, <3>1, FoundPays
  <2> DEFINE by == [i \in DOMAIN shares |->
                      CHOOSE j \in DOMAIN tx : PaysOne(tx[j], shares[i], request)]
  <2>4. \A i \in DOMAIN shares : by[i] \in DOMAIN tx /\ PaysOne(tx[by[i]], shares[i], request)
    BY <2>3
  <2>5. by \in [DOMAIN shares -> DOMAIN tx] /\ DOMAIN by = DOMAIN shares
    BY <2>4
  <2> HIDE DEF by
  <2>6. \A i, j \in DOMAIN shares : by[i] = by[j] =>
           /\ shares[i].owner = shares[j].owner
           /\ shares[i].amount.value = shares[j].amount.value
    <3> SUFFICES ASSUME NEW i \in DOMAIN shares, NEW j \in DOMAIN shares, by[i] = by[j]
                 PROVE  /\ shares[i].owner = shares[j].owner
                        /\ shares[i].amount.value = shares[j].amount.value
      OBVIOUS
    <3>1. /\ PaysOne(tx[by[i]], shares[i], request)
          /\ PaysOne(tx[by[i]], shares[j], request)
      BY <2>4
    <3>2. shares[i].amount.value = shares[j].amount.value
      BY <3>1 DEF PaysOne
    <3>3. CASE request.asset = Native
      BY <3>1, <3>2, <3>3 DEF PaysOne
    <3>4. CASE request.asset # Native
      <4>1. Ata(shares[i].owner, request.program, request.asset)
              = Ata(shares[j].owner, request.program, request.asset)
        BY <3>1, <3>4 DEF PaysOne
      <4> QED
        BY <3>2, <4>1 DEF Ata
    <3> QED
      BY <3>3, <3>4
  <2>7. \A i, j \in DOMAIN by : by[i] = by[j] => i = j
    BY <1>1, <2>5, <2>6 DEF shares
  <2>8. \A i \in DOMAIN by : PaysOne(tx[by[i]], ExactShares(request)[i], request)
    BY <2>4, <2>5 DEF shares
  <2>9. by \in [DOMAIN ExactShares(request) -> DOMAIN tx]
    BY <2>5 DEF shares
  <2> QED
    BY <1>1, <2>7, <2>8, <2>9 DEF Pays
<1>2. TypeOK => RustAcceptsDistinct
  BY <1>1 DEF RustAcceptsDistinct
<1> QED
  BY <1>2, TypeCorrectness, PTL

\* What the TypeScript search matches, the Rust search finds, unless the total
\* is beyond the integers it knows.
THEOREM TsSearchIsStricter == Spec => []TsImpliesRust
<1>1. ASSUME TypeOK, MatchInv, stage = "accepted", version = "legacy",
             ByU64(request.total), SafeInJs(request)
      PROVE  ChainAccepts(tx, version, request)
  <2>1. PrimaryIsPositive /\ Len(used) = Len(TsShares) /\ request \in Request
        /\ Executable(tx)
    BY <1>1 DEF MatchInv
  <2>2. /\ RustSplitsTotal(request) = SplitsTotal(request) /\ RustShares(request) = TsShares
        /\ \A i \in DOMAIN request.splits : request.splits[i].amount.value < U64
    BY <1>1, <2>1, WithinWidth DEF PrimaryIsPositive, Positive, ByU64, RustShares, TsShares
  <2>3. /\ DOMAIN TsShares = 1 .. Len(used) /\ Len(used) = Len(request.splits) + 1
        /\ Len(request.splits) \in Nat
    BY <2>1, SharesAreSequence DEF TsShares
  <2>4. \A i \in DOMAIN TsShares : /\ used[i] \in DOMAIN tx
                                   /\ PaysOne(tx[used[i]], TsShares[i], request)
                                   /\ TsShares[i].amount.text = "plain"
    BY <1>1, <2>3, FoundIsExact
  <2>5. \A i \in DOMAIN request.splits : ByU64(request.splits[i].amount)
    <3> TAKE i \in DOMAIN request.splits
    <3>1. i \in 1 .. Len(request.splits) /\ i + 1 \in DOMAIN TsShares
      BY <2>1, <2>3, MatchingAssumption, LenProperties
    <3>2. TsShares[i + 1] = request.splits[i]
      BY <2>1, SharesAreSequence DEF TsShares
    <3>3. request.splits[i].amount.text = "plain"
      BY <2>4, <3>1, <3>2
    <3> QED
      BY <2>2, <3>3 DEF ByU64
  <2>6. RustParses(request)
    BY <1>1, <2>1, <2>2, <2>5 DEF RustParses, PrimaryIsPositive
  <2>7. ASSUME NEW i \in DOMAIN TsShares, request.asset = Native
        PROVE  find_sol_transfer(tx, TsShares[i])
    BY <2>4, <2>7 DEF PaysOne, find_sol_transfer, IsParsed, Lamports
  <2>8. ASSUME NEW i \in DOMAIN TsShares, request.asset # Native
        PROVE  find_spl_transfer(tx, TsShares[i])
    <3> DEFINE ix == tx[used[i]]
    <3>1. /\ used[i] \in DOMAIN tx /\ ix.program \in TokenProgram
          /\ ix.tag = "transferChecked" /\ ix.amount = TsShares[i].amount.value
          /\ ix.dest = Ata(TsShares[i].owner, request.program, request.asset)
          /\ ix.mint = request.asset
      BY <2>4, <2>8 DEF PaysOne
    <3>2. TsShares[i].owner \in Owner /\ request.program \in TokenProgram
          /\ request.asset \in Asset
      <4>1. TsShares[i] \in Share
        BY <1>1, <2>1, <2>2, WithinWidth, BillIsGood
           DEF PrimaryIsPositive, Positive, ByU64, TsShares
      <4> QED
        BY <2>1, <4>1, MatchingAssumption DEF Share
    <3>3. request.program = ix.program
      BY <2>1, <3>1, <3>2 DEF Executable
    <3> QED
      BY <3>1, <3>3 DEF find_spl_transfer, verify_ata_owner
  <2> QED
    BY <1>1, <2>1, <2>2, <2>6, <2>7, <2>8 DEF ChainAccepts
<1>2. TypeOK /\ MatchInv => TsImpliesRust
  BY <1>1 DEF TsImpliesRust
<1>3. Spec => []TypeOK
  BY TypeCorrectness
<1> QED
  BY <1>2, <1>3, MatchInit, MatchStep, PTL DEF Spec
=============================================================================
