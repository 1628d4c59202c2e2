------------------------------ MODULE ERC20Key ------------------------------
(***************************************************************************)
(* contracts/erc20keys/ERC20Key.sol over OpenZeppelin's ERC20 and          *)
(* AccessControl: a token its admins mint, and that one contract, the      *)
(* cryptotreasure, takes from anyone without an approval.                  *)
(***************************************************************************)
EXTENDS Integers, Sequences, FiniteSets, Functions

CONSTANTS
    Account, Zero,      \* addresses, and the zero address
    cryptotreasure, deployer,
    UintMax,            \* 2^256 - 1; small in an instance
    Amounts,            \* amounts the calls are tried with
    Grants,             \* <<owner, spender>> pairs that get allowances
    MintLists           \* <<accounts, amounts>> for mintMultiple()

\* Addresses have 160 bits, so there are finitely many.
ASSUME KeyAssumption ==
    /\ IsFiniteSet(Account)
    /\ Zero \notin Account /\ {cryptotreasure, deployer} \subseteq Account
    /\ UintMax \in Nat \ {0} /\ Amounts \subseteq 0..UintMax
    /\ Grants \subseteq Account \X (Account \cup {Zero})
    /\ \A l \in MintLists : /\ l[1] \in Seq(Account \cup {Zero})
                             /\ l[2] \in Seq(0..UintMax)

VARIABLES
    totalSupply, balances,
    allowances,         \* _allowances, as stored
    admins,             \* members of DEFAULT_ADMIN_ROLE
    sender              \* msg.sender of the last call

vars == <<totalSupply, balances, allowances, admins, sender>>

Fits(n) == n <= UintMax
Wrapped(n) == n % (UintMax + 1)

TypeOK ==
    /\ totalSupply \in 0..UintMax
    /\ balances \in [Account -> 0..UintMax]
    /\ allowances \in [Grants -> 0..UintMax]
    /\ admins \subseteq Account /\ sender \in Account

-----------------------------------------------------------------------------
(* OpenZeppelin ERC20, with the functions ERC20Key overrides *)

allowance(o, spender) ==
    IF spender = cryptotreasure THEN UintMax
    ELSE IF <<o, spender>> \in Grants THEN allowances[<<o, spender>>] ELSE 0

\* Mutant: the recipient's balance is read before the sender's is written.
Moved_ReadFirst(b, from, to, n) ==
    [b EXCEPT ![from] = @ - n, ![to] = Wrapped(b[to] + n)]

Moved(b, from, to, n) ==
    LET debited == [b EXCEPT ![from] = @ - n] IN
    [debited EXCEPT ![to] = Wrapped(@ + n)]

_transfer(from, to, n) ==
    /\ to # Zero /\ balances[from] >= n
    /\ balances' = Moved(balances, from, to, n)

_approve(o, spender, n) ==
    /\ spender # Zero
    /\ allowances' = [allowances EXCEPT ![<<o, spender>>] = n]

\* Mutant: an allowance counts for as long as it is large enough.
_spendAllowance_Keeps(o, spender, n) ==
    allowance(o, spender) >= n /\ UNCHANGED allowances

_spendAllowance(o, spender, n) ==
    LET current == allowance(o, spender) IN
    IF current = UintMax THEN UNCHANGED allowances
    ELSE current >= n /\ _approve(o, spender, current - n)

\* Mutant: the supply is added to without a check.
_mint_Unchecked(t, account, n) ==
    IF account # Zero
    THEN [t EXCEPT !.supply = @ + n, !.balances[account] = Wrapped(@ + n)]
    ELSE [t EXCEPT !.ok = FALSE]

\* A mint added to a running total; ok says whether all of it went through.
_mint(t, account, n) ==
    IF account # Zero /\ Fits(t.supply + n)
    THEN [t EXCEPT !.supply = @ + n, !.balances[account] = Wrapped(@ + n)]
    ELSE [t EXCEPT !.ok = FALSE]
Tokens == [supply |-> totalSupply, balances |-> balances, ok |-> TRUE]

Commit(t) == t.ok /\ totalSupply' = t.supply /\ balances' = t.balances

-----------------------------------------------------------------------------
(* The calls; a call that reverts leaves no trace and is no step. *)

Init ==
    /\ totalSupply = 0 /\ balances = [a \in Account |-> 0]
    /\ allowances = [p \in Grants |-> 0]
    /\ admins = {deployer} /\ sender = deployer

\* Mutant: a role nobody holds is open to everybody.
onlyAdmin_WhenSet(x) == admins = {} \/ x \in admins

onlyAdmin(x) == x \in admins

mint(x, account, n) ==
    /\ onlyAdmin(x)
    /\ Commit(_mint(Tokens, account, n))
    /\ sender' = x /\ UNCHANGED <<allowances, admins>>

\* As many mints as there are accounts: a missing amount panics, amounts
\* beyond are not looked at.
mintMultiple(x, accounts, amounts) ==
    /\ onlyAdmin(x)
    /\ Len(accounts) <= Len(amounts)
    /\ LET minted[j \in 0..Len(accounts)] ==
              IF j = 0 THEN Tokens
              ELSE _mint(minted[j - 1], accounts[j], amounts[j])
       IN  Commit(minted[Len(accounts)])
    /\ sender' = x /\ UNCHANGED <<allowances, admins>>

transfer(x, to, n) ==
    /\ _transfer(x, to, n)
    /\ sender' = x /\ UNCHANGED <<totalSupply, allowances, admins>>

transferFrom(x, from, to, n) ==
    /\ IF x = cryptotreasure THEN UNCHANGED allowances
       ELSE _spendAllowance(from, x, n)
    /\ _transfer(from, to, n)
    /\ sender' = x /\ UNCHANGED <<totalSupply, admins>>

approve(x, spender, n) ==
    /\ _approve(x, spender, n)
    /\ sender' = x /\ UNCHANGED <<totalSupply, balances, admins>>
increaseAllowance(x, spender, n) ==
    /\ Fits(allowance(x, spender) + n)
    /\ approve(x, spender, allowance(x, spender) + n)
decreaseAllowance(x, spender, n) ==
    /\ allowance(x, spender) >= n
    /\ approve(x, spender, allowance(x, spender) - n)

grantRole(x, y) ==
    /\ onlyAdmin(x) /\ admins' = admins \cup {y}
    /\ sender' = x /\ UNCHANGED <<totalSupply, balances, allowances>>
revokeRole(x, y) ==
    /\ onlyAdmin(x) /\ admins' = admins \ {y}
    /\ sender' = x /\ UNCHANGED <<totalSupply, balances, allowances>>
renounceRole(x) ==
    /\ admins' = admins \ {x}
    /\ sender' = x /\ UNCHANGED <<totalSupply, balances, allowances>>

Next == \E x \in Account :
    \/ \E to \in Account \cup {Zero}, n \in Amounts :
          \/ mint(x, to, n) \/ transfer(x, to, n)
          \/ \E from \in Account : transferFrom(x, from, to, n)
    \/ \E l \in MintLists : mintMultiple(x, l[1], l[2])
    \/ \E p \in Grants, n \in Amounts :
          /\ p[1] = x
          /\ \/ approve(x, p[2], n) \/ increaseAllowance(x, p[2], n)
             \/ decreaseAllowance(x, p[2], n)
    \/ renounceRole(x)
    \/ \E y \in Account : grantRole(x, y) \/ revokeRole(x, y)

Spec == Init /\ [][Next]_vars

-----------------------------------------------------------------------------
(* Properties *)

\* The supply is what the holders have together, through transfers to
\* oneself, batches and amounts at the limit: no unchecked addition wraps
\* (the comments in ERC20's _transfer and _mint).
SupplyIsHeld ==
    totalSupply = SumFunction(balances)

\* What someone other than the holder takes is taken off what the holder
\* granted, unless that is without limit or the taker is the cryptotreasure,
\* who needs and uses up no approval (ERC20Key.sol:9 and 48).
TakenByRight ==
    [][\A o \in Account : balances'[o] < balances[o] =>
          \/ sender' = o
          \/ sender' = cryptotreasure /\ UNCHANGED allowances
          \/ /\ <<o, sender'>> \in Grants
             /\ \/ allowances[<<o, sender'>>] = UintMax
                \/ allowances[<<o, sender'>>] - allowances'[<<o, sender'>>]
                      = balances[o] - balances'[o]]_vars

\* Keys cannot be minted once no admin is left, nor an admin come back.
NoAdminNoMint ==
    [][admins = {} => UNCHANGED <<totalSupply, admins>>]_vars
=============================================================================
