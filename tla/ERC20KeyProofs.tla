--------------------------- MODULE ERC20KeyProofs ---------------------------
(***************************************************************************)
(* Theorems about ERC20Key: the balances add up to the supply, so no       *)
(* unchecked addition wraps; nobody's tokens are taken without a right;    *)
(* without an admin the supply stays as it is.                             *)
(*                                                                         *)
(* TypeOK needs SupplyIsHeld (a balance fits because the supply does) and  *)
(* SupplyIsHeld needs TypeOK (a sum that wrapped would not add up), so the *)
(* inductive invariant is the two together.                                *)
(***************************************************************************)
EXTENDS ERC20Key, SumTheorems

IInv == TypeOK /\ SupplyIsHeld

-----------------------------------------------------------------------------
(* Arithmetic *)

\* What fits does not wrap.
LEMMA WrappedFits == ASSUME NEW n \in 0..UintMax PROVE Wrapped(n) = n
BY KeyAssumption DEF Wrapped

\* Balances that add up to a sum that fits: the sum bounds each of them, and
\* any two together.
LEMMA HeldBounds ==
  ASSUME NEW bal \in [Account -> 0..UintMax], NEW x \in Account, NEW y \in Account
  PROVE  /\ SumFunction(bal) \in Nat
         /\ bal[x] <= SumFunction(bal)
         /\ x # y => bal[x] + bal[y] <= SumFunction(bal)
<1>1. SumFunction(bal) = SumFunctionOnSet(bal, Account)
  BY DEF SumFunction
<1>2. \A z \in Account : bal[z] \in Nat
  BY KeyAssumption
<1>3. IsFiniteSet(Account)
  BY KeyAssumption
<1>4. SumFunctionOnSet(bal, Account) \in Nat
  BY <1>2, <1>3, SumNat
<1>5. /\ bal[x] <= SumFunctionOnSet(bal, Account)
      /\ \A z \in Account \ {x} : bal[x] + bal[z] <= SumFunctionOnSet(bal, Account)
  BY <1>2, <1>3, SumBounds
<1>6. QED
  BY <1>1, <1>4, <1>5

\* A transfer within the holders' means: nothing wraps, and the sum stays.
LEMMA MovedHeld ==
  ASSUME NEW bal \in [Account -> 0..UintMax], SumFunction(bal) <= UintMax,
         NEW from \in Account, NEW to \in Account, NEW n \in Nat, n <= bal[from]
  PROVE  /\ Moved(bal, from, to, n) \in [Account -> 0..UintMax]
         /\ SumFunction(Moved(bal, from, to, n)) = SumFunction(bal)
<1> USE KeyAssumption
<1>1. CASE from = to
  <2> DEFINE debited == [bal EXCEPT ![from] = @ - n]
  <2>1. debited[to] + n = bal[to]
    BY <1>1
  <2>2. Moved(bal, from, to, n) = [debited EXCEPT ![to] = Wrapped(debited[to] + n)]
    BY DEF Moved
  <2>3. Moved(bal, from, to, n) = [debited EXCEPT ![to] = bal[to]]
    <3>1. bal[to] \in 0..UintMax
      OBVIOUS
    <3> HIDE DEF debited
    <3>2. QED
      BY <3>1, <2>1, <2>2, WrappedFits
  <2>4. Moved(bal, from, to, n) = bal
    BY <1>1, <2>3
  <2>5. QED
    BY <2>4
<1>2. CASE from # to
  <2>1. bal[from] + bal[to] <= UintMax
    BY <1>2, HeldBounds
  <2>2. bal[to] + n \in 0..UintMax /\ bal[from] - n \in 0..UintMax
    BY <2>1
  <2> DEFINE new == Moved(bal, from, to, n)
  <2>3. /\ new \in [Account -> 0..UintMax]
        /\ new[from] = bal[from] - n
        /\ new[to] = bal[to] + n
        /\ \A z \in Account \ {from, to} : bal[z] = new[z]
    BY <1>2, <2>2, WrappedFits DEF Moved
  <2> HIDE DEF new
  <2>4. SumFunctionOnSet(new, Account) = SumFunctionOnSet(bal, Account)
    <3>1. new[from] + new[to] = bal[from] + bal[to]
      BY <2>3
    <3>2. \A z \in Account : bal[z] \in Nat /\ new[z] \in Nat
      BY <2>3
    <3>3. \A z \in Account \ {from, to} : bal[z] = new[z]
      BY <2>3
    <3>4. IsFiniteSet(Account)
      OBVIOUS
    <3>5. QED
      BY <1>2, <3>1, <3>2, <3>3, <3>4, SumMoved
  <2>5. SumFunction(new) = SumFunction(bal)
    BY <2>3, <2>4 DEF SumFunction
  <2>6. QED
    BY <2>3, <2>5 DEF new
<1>3. QED
  BY <1>1, <1>2

-----------------------------------------------------------------------------
(* Mints *)

\* A running total of a mint in which the balances add up.
AddedUp(t) ==
    /\ t \in [supply : 0..UintMax, balances : [Account -> 0..UintMax], ok : BOOLEAN]
    /\ t.supply = SumFunction(t.balances)

\* One mint keeps it so, also when it fails.
LEMMA MintAddsUp ==
  ASSUME NEW t, AddedUp(t), NEW account \in Account \cup {Zero}, NEW n \in Nat
  PROVE  AddedUp(_mint(t, account, n))
<1> USE KeyAssumption
<1>1. CASE account # Zero /\ Fits(t.supply + n)
  <2> DEFINE bal == t.balances
             new == [bal EXCEPT ![account] = Wrapped(@ + n)]
  <2>1. account \in Account /\ bal \in [Account -> 0..UintMax] /\ t.supply \in 0..UintMax
    BY <1>1 DEF AddedUp
  <2>2. t.supply = SumFunction(bal) /\ t.supply + n <= UintMax
    BY <1>1 DEF AddedUp, Fits
  <2>3. bal[account] + n \in 0..UintMax
    BY <2>1, <2>2, HeldBounds
  <2>4. /\ new \in [Account -> 0..UintMax]
        /\ new[account] = bal[account] + n
        /\ \A z \in Account \ {account} : bal[z] = new[z]
    BY <2>1, <2>3, WrappedFits
  <2>5. _mint(t, account, n) = [t EXCEPT !.supply = @ + n, !.balances = new]
    BY <1>1, <2>1 DEF _mint, AddedUp
  <2> HIDE DEF bal, new
  <2>6. SumFunctionOnSet(new, Account) + bal[account]
          = SumFunctionOnSet(bal, Account) + new[account]
    BY <2>1, <2>4, SumOneChanged
  <2>7. SumFunction(new) = SumFunctionOnSet(new, Account)
        /\ SumFunction(bal) = SumFunctionOnSet(bal, Account)
    BY <2>1, <2>4 DEF SumFunction
  <2>8. SumFunction(new) \in Nat /\ SumFunction(bal) \in Nat
    BY <2>1, <2>4, HeldBounds
  <2>9. SumFunction(new) = t.supply + n
    <3>1. bal[account] \in Nat /\ t.supply \in Nat
      BY <2>1
    <3>2. SumFunction(new) + bal[account] = SumFunction(bal) + (bal[account] + n)
      BY <2>4, <2>6, <2>7
    <3>3. SumFunction(bal) = t.supply
      BY <2>2
    <3>4. QED
      BY <2>8, <3>1, <3>2, <3>3
  <2>10. t.supply + n \in 0..UintMax
    BY <2>1, <2>2
  <2>11. QED
    BY <2>4, <2>5, <2>9, <2>10 DEF AddedUp
<1>2. CASE ~(account # Zero /\ Fits(t.supply + n))
  BY <1>2 DEF _mint, AddedUp
<1>3. QED
  BY <1>1, <1>2

\* A mint only adds.
LEMMA MintTakesNothing ==
  ASSUME NEW t, AddedUp(t), NEW account \in Account \cup {Zero}, NEW n \in Nat,
         NEW o \in Account
  PROVE  t.balances[o] <= _mint(t, account, n).balances[o]
<1> USE KeyAssumption
<1>1. t \in [supply : 0..UintMax, balances : [Account -> 0..UintMax], ok : BOOLEAN]
  BY DEF AddedUp
<1>2. CASE account # Zero /\ Fits(t.supply + n)
  <2>1. account \in Account /\ t.balances[account] <= t.supply
    BY <1>1, <1>2, HeldBounds DEF AddedUp
  <2>2. t.balances[account] + n \in 0..UintMax
    BY <1>1, <1>2, <2>1 DEF Fits
  <2>3. Wrapped(t.balances[account] + n) = t.balances[account] + n
    BY <2>2, WrappedFits
  <2>4. _mint(t, account, n).balances = [t.balances EXCEPT ![account] = t.balances[account] + n]
    BY <1>1, <1>2, <2>3 DEF _mint
  <2>5. QED
    BY <1>1, <2>1, <2>4
<1>3. CASE ~(account # Zero /\ Fits(t.supply + n))
  BY <1>1, <1>3 DEF _mint
<1>4. QED
  BY <1>2, <1>3

\* ... and nobody has less than before.
Grown(t) == AddedUp(t) /\ \A o \in Account : balances[o] <= t.balances[o]

LEMMA MintGrows ==
  ASSUME IInv, NEW t, Grown(t), NEW account \in Account \cup {Zero}, NEW n \in Nat
  PROVE  Grown(_mint(t, account, n))
<1>1. AddedUp(t) /\ AddedUp(_mint(t, account, n))
  BY MintAddsUp DEF Grown
<1>2. ASSUME NEW o \in Account
      PROVE  balances[o] <= _mint(t, account, n).balances[o]
  <2>1. balances[o] <= t.balances[o] /\ t.balances[o] <= _mint(t, account, n).balances[o]
    BY <1>1, MintTakesNothing DEF Grown
  <2>2. balances[o] \in Nat /\ t.balances[o] \in Nat
        /\ _mint(t, account, n).balances[o] \in Nat
    BY <1>1, KeyAssumption DEF AddedUp, IInv, TypeOK
  <2>3. QED
    BY <2>1, <2>2
<1>3. QED
  BY <1>1, <1>2 DEF Grown

\* A mint for each account of a list: the totals the recursion goes through
\* all exist, and all add up to more than there was.
LEMMA ListGrows ==
  ASSUME NEW accounts \in Seq(Account \cup {Zero}), NEW amounts \in Seq(0..UintMax),
         Len(accounts) <= Len(amounts), IInv, Grown(Tokens)
  PROVE  LET minted[j \in 0..Len(accounts)] ==
               IF j = 0 THEN Tokens
               ELSE _mint(minted[j - 1], accounts[j], amounts[j])
         IN  Grown(minted[Len(accounts)])
<1> DEFINE n == Len(accounts)
           Mints(m, k) == m = [j \in 0..k |-> IF j = 0 THEN Tokens
                                ELSE _mint(m[j - 1], accounts[j], amounts[j])]
           Bad == {k \in 0..n : ~ \E m : Mints(m, k) /\ Grown(m[k])}
<1>1. n \in Nat
  OBVIOUS
<1>2. Bad = {}
  <2>1. SUFFICES ASSUME Bad # {} PROVE FALSE
    OBVIOUS
  <2>2. PICK k \in Bad : \A i \in Bad : k <= i
    <3>1. Bad \in SUBSET Nat
      BY <1>1
    <3> HIDE DEF Bad
    <3>2. QED
      BY <2>1, <3>1, Smallest
  <2>3. k \in 0..n /\ ~ \E m : Mints(m, k) /\ Grown(m[k])
    OBVIOUS
  <2>4. CASE k = 0
    <3> DEFINE m == [j \in 0..0 |-> Tokens]
    <3>1. Mints(m, 0) /\ Grown(m[0])
      OBVIOUS
    <3> HIDE DEF m, Mints
    <3>2. QED
      BY <2>3, <2>4, <3>1
  <2>5. CASE k # 0
    <3>1. k - 1 \in 0..n /\ k \in 1..n
      BY <1>1, <2>3, <2>5
    <3>2. PICK m : Mints(m, k - 1) /\ Grown(m[k - 1])
      <4>1. k - 1 \notin Bad
        <5> HIDE DEF Bad
        <5>1. QED BY <1>1, <2>2, <2>3
      <4>2. QED
        BY <3>1, <4>1
    <3> DEFINE step == _mint(m[k - 1], accounts[k], amounts[k])
               more == [j \in 0..k |-> IF j = k THEN step ELSE m[j]]
    <3>3. Grown(step)
      <4>1. accounts[k] \in Account \cup {Zero} /\ amounts[k] \in Nat
        BY <1>1, <3>1, KeyAssumption
      <4>2. Grown(m[k - 1])
        BY <3>2
      <4>3. QED
        BY <4>1, <4>2, MintGrows
    <3> HIDE DEF step
    <3>4. more[k] = step
      BY <2>3, <1>1
    <3>5. \A j \in 0..k : more[j] = IF j = 0 THEN Tokens
                            ELSE _mint(more[j - 1], accounts[j], amounts[j])
      <4>1. \A j \in 0..(k - 1) : m[j] = IF j = 0 THEN Tokens
                            ELSE _mint(m[j - 1], accounts[j], amounts[j])
        BY <3>2
      <4>2. TAKE j \in 0..k
      <4>3. CASE j = k
        <5>1. more[j - 1] = m[k - 1]
          BY <3>1, <4>3
        <5>2. QED
          BY <2>5, <3>4, <4>3, <5>1 DEF step
      <4>4. CASE j # k
        <5>1. j \in 0..(k - 1) /\ more[j] = m[j]
          BY <3>1, <4>4
        <5>2. j # 0 => more[j - 1] = m[j - 1]
          BY <3>1, <4>4
        <5> HIDE DEF more
        <5>3. QED
          BY <4>1, <5>1, <5>2
      <4>5. QED
        BY <4>3, <4>4
    <3>6. Mints(more, k)
      <4> DEFINE body(j) == IF j = 0 THEN Tokens
                            ELSE _mint(more[j - 1], accounts[j], amounts[j])
      <4>1. more = [j \in 0..k |-> more[j]]
        OBVIOUS
      <4>2. \A j \in 0..k : more[j] = body(j)
        BY <3>5
      <4> HIDE DEF body
      <4>3. more = [j \in 0..k |-> body(j)]
        BY <4>1, <4>2
      <4>4. QED
        BY <4>3 DEF body
    <3> HIDE DEF more, Mints
    <3>7. QED
      BY <2>3, <3>3, <3>4, <3>6
  <2>6. QED
    BY <2>4, <2>5
<1>3. \E m : Mints(m, n)
  BY <1>1, <1>2
<1> DEFINE minted == CHOOSE m : Mints(m, n)
<1>4. Mints(minted, n)
  <2> HIDE DEF Mints
  <2> QED BY <1>3
<1>5. Grown(minted[n])
  <2> HIDE DEF minted
  <2> DEFINE Wrong == {k \in 0..n : ~Grown(minted[k])}
  <2>1. SUFFICES ASSUME Wrong # {} PROVE FALSE
    BY <1>1
  <2>2. PICK k \in Wrong : \A i \in Wrong : k <= i
    <3>1. Wrong \in SUBSET Nat
      BY <1>1
    <3> HIDE DEF Wrong
    <3>2. QED
      BY <2>1, <3>1, Smallest
  <2>3. k # 0
    BY <1>4
  <2>4. k \in 1..n /\ k - 1 \in 0..n /\ k - 1 \notin Wrong
    <3> HIDE DEF Wrong
    <3>1. k \in 0..n
      BY DEF Wrong
    <3>2. QED
      BY <1>1, <2>2, <2>3, <3>1
  <2>5. Grown(minted[k - 1])
    BY <2>4
  <2>6. accounts[k] \in Account \cup {Zero} /\ amounts[k] \in Nat
    BY <1>1, <2>4, KeyAssumption
  <2>7. minted[k] = _mint(minted[k - 1], accounts[k], amounts[k])
    BY <1>4, <2>3, <2>4
  <2>8. Grown(minted[k])
    BY <2>5, <2>6, <2>7, MintGrows
  <2>9. QED
    BY <2>8
<1>6. QED
  BY <1>5

-----------------------------------------------------------------------------
(* The inductive invariant *)

LEMMA InitInv == Init => IInv
<1> SUFFICES ASSUME Init PROVE IInv
  OBVIOUS
<1> USE KeyAssumption
<1>1. TypeOK
  BY DEF Init, TypeOK
<1>2. SumFunction(balances) = SumFunctionOnSet(balances, Account)
  BY DEF Init, SumFunction
<1>3. SumFunctionOnSet(balances, Account) = 0
  <2>1. \A x \in Account : balances[x] = 0
    BY DEF Init
  <2>2. QED
    BY <2>1, SumZero
<1>4. QED
  BY <1>1, <1>2, <1>3 DEF Init, IInv, SupplyIsHeld

\* A mint, of one amount or of a list.
LEMMA CommitInv ==
  ASSUME IInv, NEW t, AddedUp(t), Commit(t), UNCHANGED <<allowances, admins>>,
         sender' \in Account
  PROVE  IInv'
BY DEF IInv, TypeOK, SupplyIsHeld, Commit, AddedUp

LEMMA TokensGrown == ASSUME IInv PROVE Grown(Tokens)
BY KeyAssumption DEF IInv, TypeOK, SupplyIsHeld, AddedUp, Grown, Tokens

LEMMA mintInv ==
  ASSUME IInv, NEW x \in Account, NEW account \in Account \cup {Zero},
         NEW n \in Amounts, mint(x, account, n)
  PROVE  IInv'
<1>1. n \in Nat
  BY KeyAssumption
<1>2. AddedUp(_mint(Tokens, account, n))
  BY <1>1, TokensGrown, MintAddsUp DEF Grown
<1>3. Commit(_mint(Tokens, account, n)) /\ UNCHANGED <<allowances, admins>>
      /\ sender' \in Account
  BY DEF mint
<1>4. QED
  BY <1>2, <1>3, CommitInv

\* A batch commits a total that adds up.
LEMMA mintMultipleCommits ==
  ASSUME IInv, NEW x \in Account, NEW l \in MintLists, mintMultiple(x, l[1], l[2])
  PROVE  \E t : Grown(t) /\ Commit(t)
<1> DEFINE minted == CHOOSE m : m = [j \in 0..Len(l[1]) |->
                        IF j = 0 THEN Tokens ELSE _mint(m[j - 1], l[1][j], l[2][j])]
<1>1. l[1] \in Seq(Account \cup {Zero}) /\ l[2] \in Seq(0..UintMax)
  BY KeyAssumption
<1>2. Len(l[1]) <= Len(l[2]) /\ Commit(minted[Len(l[1])])
  BY DEF mintMultiple
<1>3. Grown(minted[Len(l[1])])
  BY <1>1, <1>2, TokensGrown, ListGrows
<1> HIDE DEF minted
<1>4. QED
  BY <1>2, <1>3

LEMMA mintMultipleInv ==
  ASSUME IInv, NEW x \in Account, NEW l \in MintLists, mintMultiple(x, l[1], l[2])
  PROVE  IInv'
<1>1. PICK t : Grown(t) /\ Commit(t)
  BY mintMultipleCommits
<1>2. UNCHANGED <<allowances, admins>> /\ sender' \in Account
  BY DEF mintMultiple
<1>3. QED
  BY <1>1, <1>2, CommitInv DEF Grown

\* A transfer within the balance of from; allowances may have been used up.
LEMMA _transferInv ==
  ASSUME IInv, NEW from \in Account, NEW to \in Account \cup {Zero},
         NEW n \in Amounts, _transfer(from, to, n),
         allowances' \in [Grants -> 0..UintMax],
         UNCHANGED <<totalSupply, admins>>, sender' \in Account
  PROVE  IInv'
<1>1. to \in Account /\ n \in Nat /\ n <= balances[from]
      /\ balances' = Moved(balances, from, to, n)
  BY KeyAssumption DEF _transfer, IInv, TypeOK
<1>2. balances \in [Account -> 0..UintMax] /\ SumFunction(balances) <= UintMax
  BY DEF IInv, TypeOK, SupplyIsHeld
<1>3. balances' \in [Account -> 0..UintMax]
      /\ SumFunction(balances') = SumFunction(balances)
  BY <1>1, <1>2, MovedHeld
<1>4. QED
  BY <1>3 DEF IInv, TypeOK, SupplyIsHeld

LEMMA _approveType ==
  ASSUME TypeOK, NEW o, NEW spender, NEW n \in 0..UintMax, _approve(o, spender, n)
  PROVE  allowances' \in [Grants -> 0..UintMax]
BY DEF TypeOK, _approve

LEMMA AllowanceType ==
  ASSUME TypeOK, NEW o, NEW spender
  PROVE  allowance(o, spender) \in 0..UintMax
BY KeyAssumption DEF TypeOK, allowance

LEMMA _spendAllowanceType ==
  ASSUME TypeOK, NEW o, NEW spender, NEW n \in Nat, _spendAllowance(o, spender, n)
  PROVE  allowances' \in [Grants -> 0..UintMax]
<1>1. CASE allowance(o, spender) = UintMax
  BY <1>1 DEF _spendAllowance, TypeOK
<1>2. CASE allowance(o, spender) # UintMax
  <2>1. allowance(o, spender) - n \in 0..UintMax
    BY <1>2, AllowanceType, KeyAssumption DEF _spendAllowance
  <2>2. QED
    BY <1>2, <2>1, _approveType DEF _spendAllowance
<1>3. QED
  BY <1>1, <1>2

LEMMA transferInv ==
  ASSUME IInv, NEW x \in Account, NEW to \in Account \cup {Zero},
         NEW n \in Amounts, transfer(x, to, n)
  PROVE  IInv'
<1>1. _transfer(x, to, n) /\ UNCHANGED <<totalSupply, admins>> /\ sender' \in Account
      /\ allowances' \in [Grants -> 0..UintMax]
  BY DEF transfer, IInv, TypeOK
<1>2. QED
  BY <1>1, _transferInv

LEMMA transferFromInv ==
  ASSUME IInv, NEW x \in Account, NEW from \in Account,
         NEW to \in Account \cup {Zero}, NEW n \in Amounts,
         transferFrom(x, from, to, n)
  PROVE  IInv'
<1>1. allowances' \in [Grants -> 0..UintMax]
  <2>1. CASE x = cryptotreasure
    BY <2>1 DEF transferFrom, IInv, TypeOK
  <2>2. CASE x # cryptotreasure
    <3>1. _spendAllowance(from, x, n) /\ n \in Nat
      BY <2>2, KeyAssumption DEF transferFrom
    <3>2. QED
      BY <3>1, _spendAllowanceType DEF IInv
  <2>3. QED
    BY <2>1, <2>2
<1>2. _transfer(from, to, n) /\ UNCHANGED <<totalSupply, admins>> /\ sender' \in Account
  BY DEF transferFrom
<1>3. QED
  BY <1>1, <1>2, _transferInv

LEMMA AllowanceCallsInv ==
  ASSUME IInv, NEW x \in Account, NEW spender, NEW n \in Amounts,
         \/ approve(x, spender, n)
         \/ increaseAllowance(x, spender, n)
         \/ decreaseAllowance(x, spender, n)
  PROVE  IInv'
<1>1. \E k \in 0..UintMax : approve(x, spender, k)
  <2>1. allowance(x, spender) \in 0..UintMax /\ n \in 0..UintMax
    BY AllowanceType, KeyAssumption DEF IInv
  <2>2. CASE approve(x, spender, n)
    BY <2>1, <2>2
  <2>3. CASE increaseAllowance(x, spender, n)
    BY <2>1, <2>3, KeyAssumption DEF increaseAllowance, Fits
  <2>4. CASE decreaseAllowance(x, spender, n)
    BY <2>1, <2>4, KeyAssumption DEF decreaseAllowance
  <2>5. QED
    BY <2>2, <2>3, <2>4
<1>2. allowances' \in [Grants -> 0..UintMax]
  BY <1>1, _approveType DEF IInv, approve
<1>3. sender' \in Account /\ UNCHANGED <<totalSupply, balances, admins>>
  BY <1>1 DEF approve
<1>4. QED
  BY <1>2, <1>3 DEF IInv, TypeOK, SupplyIsHeld

LEMMA RolesInv ==
  ASSUME IInv, NEW x \in Account, NEW y \in Account,
         grantRole(x, y) \/ revokeRole(x, y) \/ renounceRole(x)
  PROVE  IInv'
BY DEF IInv, TypeOK, SupplyIsHeld, grantRole, revokeRole, renounceRole

\* The calls of x, with the arguments they may have.
CallOf(x) ==
    \/ \E to \in Account \cup {Zero}, n \in Amounts :
          \/ mint(x, to, n) \/ transfer(x, to, n)
          \/ \E from \in Account : transferFrom(x, from, to, n)
    \/ \E l \in MintLists : mintMultiple(x, l[1], l[2])
    \/ \E p \in Grants, n \in Amounts :
          \/ approve(x, p[2], n) \/ increaseAllowance(x, p[2], n)
          \/ decreaseAllowance(x, p[2], n)
    \/ \E y \in Account : grantRole(x, y) \/ revokeRole(x, y) \/ renounceRole(x)

LEMMA Calls == Next => \E x \in Account : CallOf(x)
BY DEF Next, CallOf

LEMMA NextInv == IInv /\ [Next]_vars => IInv'
<1> SUFFICES ASSUME IInv, [Next]_vars PROVE IInv'
  OBVIOUS
<1>1. CASE UNCHANGED vars
  BY <1>1 DEF vars, IInv, TypeOK, SupplyIsHeld
<1>2. CASE Next
  <2>1. PICK x \in Account : CallOf(x)
    BY <1>2, Calls
  <2>2. QED
    BY <2>1, mintInv, transferInv, transferFromInv, mintMultipleInv,
       AllowanceCallsInv, RolesInv DEF CallOf
<1>3. QED
  BY <1>1, <1>2

\* No balance, allowance or supply leaves the range of its integer type.
THEOREM KeyTypeCorrect == Spec => []TypeOK
<1>1. IInv => TypeOK
  BY DEF IInv
<1>2. QED
  BY <1>1, InitInv, NextInv, PTL DEF Spec

\* The balances add up to the supply at all times, for any number of
\* holders and any integer size: what the unchecked additions of _transfer
\* and _mint rely on.
THEOREM SupplyAlwaysHeld == Spec => []SupplyIsHeld
<1>1. IInv => SupplyIsHeld
  BY DEF IInv
<1>2. QED
  BY <1>1, InitInv, NextInv, PTL DEF Spec

-----------------------------------------------------------------------------
(* Action properties *)

\* What a step takes off the balance of o, other than a call of o's own, is
\* a transferFrom() that paid for it in allowance.
LEMMA TransferTakes ==
  ASSUME IInv, NEW o \in Account, NEW from \in Account, NEW to \in Account \cup {Zero},
         NEW n \in Amounts, _transfer(from, to, n), balances'[o] < balances[o]
  PROVE  o = from /\ balances[o] - balances'[o] = n
<1> USE KeyAssumption
<1>1. to \in Account /\ n \in Nat /\ n <= balances[from]
      /\ balances' = Moved(balances, from, to, n)
      /\ balances \in [Account -> 0..UintMax] /\ SumFunction(balances) <= UintMax
  BY DEF _transfer, IInv, TypeOK, SupplyIsHeld
<1> DEFINE debited == [balances EXCEPT ![from] = @ - n]
<1>2. balances' = [debited EXCEPT ![to] = Wrapped(debited[to] + n)]
  BY <1>1 DEF Moved
<1>3. debited[to] + n \in 0..UintMax
  <2>1. CASE to = from
    BY <1>1, <2>1
  <2>2. CASE to # from
    <3>1. balances[from] + balances[to] <= UintMax
      BY <1>1, <2>2, HeldBounds
    <3>2. QED
      BY <1>1, <2>2, <3>1
  <2>3. QED
    BY <2>1, <2>2
<1>4. balances'[to] = debited[to] + n
  <2>1. debited \in [Account -> Int]
    BY <1>1
  <2> HIDE DEF debited
  <2>2. QED
    BY <1>1, <1>2, <1>3, <2>1, WrappedFits
<1>5. o # to
  <2>1. to # from => debited[to] = balances[to]
    BY <1>1
  <2>2. to = from => debited[to] = balances[to] - n
    BY <1>1
  <2>3. balances[to] \in Nat
    BY <1>1
  <2>4. balances[to] <= balances'[to]
    BY <1>1, <1>4, <2>1, <2>2, <2>3
  <2>5. QED
    BY <1>1, <1>4, <2>3, <2>4
<1>6. balances'[o] = debited[o]
  BY <1>1, <1>2, <1>5
<1>7. QED
  BY <1>1, <1>6

\* No mint of x takes from o, so a step that does is a transfer of x.
LEMMA TakenByTransfer ==
  ASSUME IInv, NEW x \in Account, CallOf(x), NEW o \in Account,
         balances'[o] < balances[o]
  PROVE  \E to \in Account \cup {Zero}, n \in Amounts :
             transfer(x, to, n) \/ \E from \in Account : transferFrom(x, from, to, n)
<1>1. balances[o] \in Nat
  BY KeyAssumption DEF IInv, TypeOK
<1>2. UNCHANGED balances => FALSE
  BY <1>1
<1>3. ASSUME NEW t, Grown(t), Commit(t) PROVE FALSE
  BY <1>1, <1>3, KeyAssumption DEF Grown, AddedUp, Commit
<1>4. ASSUME NEW account \in Account \cup {Zero}, NEW n \in Amounts, mint(x, account, n)
      PROVE  FALSE
  <2>1. n \in Nat
    BY KeyAssumption
  <2>2. Grown(_mint(Tokens, account, n)) /\ Commit(_mint(Tokens, account, n))
    BY <1>4, <2>1, TokensGrown, MintGrows DEF mint
  <2>3. QED
    BY <1>3, <2>2
<1>5. ASSUME NEW l \in MintLists, mintMultiple(x, l[1], l[2]) PROVE FALSE
  BY <1>3, <1>5, mintMultipleCommits
<1>6. ASSUME NEW p, NEW n, approve(x, p[2], n) \/ increaseAllowance(x, p[2], n)
                           \/ decreaseAllowance(x, p[2], n)
      PROVE  FALSE
  BY <1>2, <1>6 DEF approve, increaseAllowance, decreaseAllowance
<1>7. ASSUME NEW y, grantRole(x, y) \/ revokeRole(x, y) \/ renounceRole(x) PROVE FALSE
  BY <1>2, <1>7 DEF grantRole, revokeRole, renounceRole
<1>8. QED
  BY <1>4, <1>5, <1>6, <1>7 DEF CallOf

\* One step never takes tokens without a right.
Taken(o) ==
    balances'[o] < balances[o] =>
        \/ sender' = o
        \/ sender' = cryptotreasure /\ UNCHANGED allowances
        \/ /\ <<o, sender'>> \in Grants
           /\ \/ allowances[<<o, sender'>>] = UintMax
              \/ allowances[<<o, sender'>>] - allowances'[<<o, sender'>>]
                    = balances[o] - balances'[o]

LEMMA StepTaken == ASSUME IInv, [Next]_vars, NEW o \in Account PROVE Taken(o)
<1> USE KeyAssumption
<1> SUFFICES ASSUME balances'[o] < balances[o] PROVE Taken(o)
  BY DEF Taken
<1>1. Next
  BY DEF vars, IInv, TypeOK
<1>2. PICK x \in Account : CallOf(x)
  BY <1>1, Calls
<1>3. PICK to \in Account \cup {Zero}, n \in Amounts :
         transfer(x, to, n) \/ \E from \in Account : transferFrom(x, from, to, n)
  BY <1>2, TakenByTransfer
<1>4. CASE transfer(x, to, n)
  <2>1. o = x
    BY <1>4, TransferTakes DEF transfer
  <2>2. QED
    BY <1>4, <2>1 DEF transfer, Taken
<1>5. CASE \E from \in Account : transferFrom(x, from, to, n)
  <2>1. PICK from \in Account : transferFrom(x, from, to, n)
    BY <1>5
  <2>2. /\ o = from /\ balances[o] - balances'[o] = n
        /\ sender' = x
    BY <2>1, TransferTakes DEF transferFrom
  <2>3. CASE x = cryptotreasure
    BY <2>1, <2>2, <2>3 DEF transferFrom, Taken
  <2>4. CASE x # cryptotreasure
    <3>1. _spendAllowance(o, x, n)
      BY <2>1, <2>2, <2>4 DEF transferFrom
    <3>2. n \in Nat /\ n # 0
      <4>1. balances[o] \in Nat /\ balances'[o] \in Nat /\ n \in Nat
        BY NextInv DEF IInv, TypeOK
      <4>2. QED
        BY <2>2, <4>1
    <3>3. CASE allowance(o, x) = UintMax
      BY <2>2, <2>4, <3>3 DEF allowance, Taken
    <3>4. CASE allowance(o, x) # UintMax
      <4>1. n <= allowance(o, x) /\ _approve(o, x, allowance(o, x) - n)
        BY <3>1, <3>4 DEF _spendAllowance
      <4>2. <<o, x>> \in Grants /\ allowance(o, x) = allowances[<<o, x>>]
        BY <2>4, <3>2, <4>1 DEF allowance
      <4>3. allowances'[<<o, x>>] = allowances[<<o, x>>] - n
        BY <4>1, <4>2 DEF _approve, IInv, TypeOK
      <4>4. allowances[<<o, x>>] \in Nat
        BY <4>2 DEF IInv, TypeOK
      <4>5. QED
        BY <2>2, <3>2, <4>2, <4>3, <4>4 DEF Taken
    <3>5. QED
      BY <3>3, <3>4
  <2>5. QED
    BY <2>3, <2>4
<1>6. QED
  BY <1>3, <1>4, <1>5

\* Whatever is taken from a holder was the holder's own transfer, or the
\* cryptotreasure's, or came off an allowance the holder had granted.
THEOREM TakenOnlyByRight == Spec => TakenByRight
<1>1. IInv /\ [Next]_vars => [\A o \in Account : Taken(o)]_vars
  BY StepTaken
<1>2. [\A o \in Account : Taken(o)]_vars =>
        [\A o \in Account : balances'[o] < balances[o] =>
          \/ sender' = o
          \/ sender' = cryptotreasure /\ UNCHANGED allowances
          \/ /\ <<o, sender'>> \in Grants
             /\ \/ allowances[<<o, sender'>>] = UintMax
                \/ allowances[<<o, sender'>>] - allowances'[<<o, sender'>>]
                      = balances[o] - balances'[o]]_vars
  BY DEF Taken
<1>3. QED
  BY <1>1, <1>2, InitInv, NextInv, PTL DEF Spec, TakenByRight

LEMMA StepWithoutAdmin ==
  [Next]_vars => [admins = {} => UNCHANGED <<totalSupply, admins>>]_vars
<1> SUFFICES ASSUME Next, admins = {} PROVE UNCHANGED <<totalSupply, admins>>
  OBVIOUS
<1>1. PICK x \in Account : CallOf(x)
  BY Calls
<1>2. ~onlyAdmin(x)
  BY DEF onlyAdmin
<1>3. QED
  BY <1>1, <1>2 DEF CallOf, mint, mintMultiple, transfer, transferFrom, approve,
     increaseAllowance, decreaseAllowance, grantRole, revokeRole, renounceRole

\* A token whose last admin has gone has the supply and the (empty) set of
\* admins it will always have.
THEOREM SupplyEndsWithAdmins == Spec => NoAdminNoMint
BY StepWithoutAdmin, PTL DEF Spec, NoAdminNoMint

=============================================================================
