------------------------- MODULE MCTransferMatching -------------------------
(***************************************************************************)
(* Instances of TransferMatching for TLC.  Asked is "usdc" with at most    *)
(* two splits, or SOL with at most one; totals reach the width, and 2 and  *)
(* 3 lamports are beyond what JavaScript holds exactly.                    *)
(***************************************************************************)
EXTENDS TransferMatching

CONSTANTS a, b, usdc, other, sol

\* Beyond MaxSafe every other number: 3 prints as 2, as 2^53 + 1 does as 2^53.
MCAsNumber == [n \in 0 .. U64 - 1 |-> IF n <= MaxSafe THEN n ELSE n - (n % 2)]

MCAmount == 1 .. (U64 - 1)
MCShare == [owner : {a, b}, amount : {Plain(n) : n \in MCAmount}]

\* Amounts of nothing, and texts that a number does not print as.
MCOddShare ==
    [owner : {b}, amount : {Plain(0), [value |-> 1, text |-> "padded"],
                            [value |-> 1, text |-> "blank"]}]

UpToOne == {<<>>} \cup {<<s>> : s \in MCShare \cup MCOddShare}
UpToTwo == UpToOne \cup {<<s, r>> : s, r \in MCShare}

MCTotal == {Plain(n) : n \in 1 .. U64} \cup {[value |-> 2, text |-> "blank"]}

MCRequest ==
    [recipient : {a}, asset : {usdc}, program : {"token"}, total : MCTotal, splits : UpToTwo]
    \cup [recipient : {a}, asset : {sol}, program : {"token"}, total : MCTotal, splits : UpToOne]

Token(o, p, m, n) ==
    [program |-> p, tag |-> "transferChecked", dest |-> Ata(o, p, m), mint |-> m,
     amount |-> n, inner |-> FALSE]

System(o, n) ==
    [program |-> "system", tag |-> "transfer", dest |-> o, mint |-> sol,
     amount |-> n, inner |-> FALSE]

\* A payer may send to accounts of the right and the wrong asset, from within a
\* program, with an index out of range, by the wrong token program, by its
\* transfer that names no mint, and to a wallet used as a token account.
MCUsdc ==
    {Token(o, "token", usdc, n) : o \in {a, b}, n \in MCAmount}
    \cup {Token(a, "token2022", other, n) : n \in {1, 2}}
    \cup {[Token(b, "token", usdc, 1) EXCEPT !.inner = TRUE],
          [Token(a, "token", usdc, 1) EXCEPT !.dest = Dangling],
          [Token(a, "token", usdc, 1) EXCEPT !.program = "token2022"],
          [Token(a, "token", usdc, 1) EXCEPT !.tag = "transfer"]}

MCSol ==
    {System(a, n) : n \in MCAmount} \cup {System(b, n) : n \in {1, 2}}
    \cup {[System(b, 1) EXCEPT !.inner = TRUE],
          [System(a, 1) EXCEPT !.program = Dangling],
          [System(a, 1) EXCEPT !.program = "token"],
          [System(b, 1) EXCEPT !.program = "token"]}

MCComposable ==
    [asset \in Asset |-> IF asset = usdc THEN MCUsdc ELSE IF asset = sol THEN MCSol ELSE {}]
=============================================================================
