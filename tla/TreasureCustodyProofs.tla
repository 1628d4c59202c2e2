----------------------- MODULE TreasureCustodyProofs -----------------------
(***************************************************************************)
(* Theorems about what CryptoTreasure holds: its balances cover what the   *)
(* boxes record and what minting locked, and with requests in good order   *)
(* nothing is left over.                                                   *)
(***************************************************************************)
EXTENDS TreasureRightsProofs, SumTheorems

-----------------------------------------------------------------------------
(* Amounts *)

Held(l, a) == SumFunction([b \in Box |-> l[b][a]])
Dues(a) == [b \in Box |-> Due(b, a)]
Locks(a) == SumFunction(Dues(a))
Paying == {"withdraw", "destroy"}
Storing == {"store"}

\* A sum over the boxes is one over the set of boxes.
LEMMA SumOfBoxes ==
  ASSUME NEW f \in [Box -> Nat]
  PROVE  /\ SumFunction(f) = SumFunctionOnSet(f, Box)
         /\ SumFunction(f) \in Nat
<1>1. SumFunction(f) = SumFunctionOnSet(f, Box)
  BY DEF SumFunction, SumFunctionOnSet, FoldFunction
<1>2. \A x \in Box : f[x] \in Nat
  OBVIOUS
<1> QED
  BY <1>1, <1>2, IdsAssumption, SumNat

\* What the boxes hold of an asset, as a sum over the set of boxes.
LEMMA HeldSum ==
  ASSUME NEW l \in [Box -> [Asset -> Nat]], NEW a \in Asset
  PROVE  /\ [b \in Box |-> l[b][a]] \in [Box -> Nat]
         /\ Held(l, a) = SumFunctionOnSet([b \in Box |-> l[b][a]], Box)
         /\ Held(l, a) \in Nat
<1>1. [b \in Box |-> l[b][a]] \in [Box -> Nat]
  OBVIOUS
<1> QED
  BY <1>1, SumOfBoxes DEF Held

\* Writing to one box changes what is held by as much.
LEMMA HeldOne ==
  ASSUME NEW l \in [Box -> [Asset -> Nat]], NEW k \in [Box -> [Asset -> Nat]],
         NEW d \in Box, \A b \in Box \ {d} : k[b] = l[b], NEW a \in Asset
  PROVE  Held(k, a) + l[d][a] = Held(l, a) + k[d][a]
<1> DEFINE f == [b \in Box |-> l[b][a]]
           g == [b \in Box |-> k[b][a]]
<1>1. /\ \A y \in Box : f[y] \in Nat /\ g[y] \in Nat
      /\ \A y \in Box \ {d} : f[y] = g[y]
      /\ f[d] = l[d][a] /\ g[d] = k[d][a]
  OBVIOUS
<1>2. Held(l, a) = SumFunctionOnSet(f, Box) /\ Held(k, a) = SumFunctionOnSet(g, Box)
  BY HeldSum
<1> HIDE DEF f, g
<1>3. SumFunctionOnSet(g, Box) + f[d] = SumFunctionOnSet(f, Box) + g[d]
  <2>1. \A y \in Box : f[y] \in Nat /\ g[y] \in Nat
    BY <1>1
  <2>2. \A y \in Box \ {d} : f[y] = g[y]
    BY <1>1
  <2>3. IsFiniteSet(Box)
    BY IdsAssumption
  <2> QED
    BY <2>1, <2>2, <2>3, SumOneChanged
<1> QED
  BY <1>1, <1>2, <1>3

\* What a box is credited with or debited is held in addition or no more.
LEMMA CreditHeld ==
  ASSUME NEW l \in [Box -> [Asset -> Nat]], NEW b \in Box, NEW c \in Call,
         NEW a \in Asset
  PROVE  Held(Credit(l, b, c), a) = Held(l, a) + c.moves[a]
<1>0. PICK k : k = Credit(l, b, c)
  OBVIOUS
<1>1. k \in [Box -> [Asset -> Nat]]
  BY <1>0 DEF Credit, Call
<1>2. k[b][a] = l[b][a] + c.moves[a] /\ c.moves[a] \in Nat /\ l[b][a] \in Nat
  BY <1>0, Written
<1>3. \A d \in Box \ {b} : k[d] = l[d]
  BY <1>0 DEF Credit
<1>4. Held(k, a) + l[b][a] = Held(l, a) + k[b][a]
  BY <1>1, <1>3, HeldOne
<1>5. Held(k, a) \in Nat /\ Held(l, a) \in Nat
  BY <1>1, HeldSum
<1> QED
  BY <1>0, <1>2, <1>4, <1>5

LEMMA DebitHeld ==
  ASSUME NEW l \in [Box -> [Asset -> Nat]], NEW b \in Box, NEW c \in Call,
         \A a \in Asset : c.moves[a] <= l[b][a],
         NEW a \in Asset
  PROVE  /\ Debit(l, b, c) \in [Box -> [Asset -> Nat]]
         /\ Held(Debit(l, b, c), a) = Held(l, a) - c.moves[a]
<1>0. PICK k : k = Debit(l, b, c)
  OBVIOUS
<1>1. k \in [Box -> [Asset -> Nat]]
  <2>1. \A d \in Asset : l[b][d] - c.moves[d] \in Nat
    BY DEF Call
  <2> QED
    BY <1>0, <2>1 DEF Debit
<1>2. k[b][a] = l[b][a] - c.moves[a] /\ c.moves[a] \in Nat /\ l[b][a] \in Nat
  BY <1>0, Written
<1>3. \A d \in Box \ {b} : k[d] = l[d]
  BY <1>0 DEF Debit
<1>4. Held(k, a) + l[b][a] = Held(l, a) + k[b][a]
  BY <1>1, <1>3, HeldOne
<1>5. Held(k, a) \in Nat /\ Held(l, a) \in Nat
  BY <1>1, HeldSum
<1>6. Held(k, a) = Held(l, a) - c.moves[a]
  BY <1>2, <1>4, <1>5
<1> QED
  BY <1>0, <1>1, <1>6

LEMMA ArrivedHeld ==
  ASSUME NEW l \in [Box -> [Asset -> Nat]], NEW b \in Box, NEW c \in Call,
         NEW a \in Asset
  PROVE  /\ Arrived(l, b, c) \in [Box -> [Asset -> Nat]]
         /\ c.kind # "erc721" \/ c.moves[a] = 0 =>
               Held(Arrived(l, b, c), a) = Held(l, a) + c.moves[a]
         /\ c.kind = "erc721" /\ c.moves[a] # 0 =>
               Held(Arrived(l, b, c), a) + l[b][a] = Held(l, a) + 1
<1>0. PICK k : k = Arrived(l, b, c)
  OBVIOUS
<1>1. k \in [Box -> [Asset -> Nat]] /\ \A d \in Box \ {b} : k[d] = l[d]
  BY <1>0, ArrivedType
<1>2. /\ c.kind # "erc721" => k[b][a] = l[b][a] + c.moves[a]
      /\ c.kind = "erc721" /\ c.moves[a] # 0 => k[b][a] = 1
      /\ c.moves[a] = 0 => k[b][a] = l[b][a]
      /\ c.moves[a] \in Nat /\ l[b][a] \in Nat
  BY <1>0, Written
<1>4. Held(k, a) + l[b][a] = Held(l, a) + k[b][a]
  BY <1>1, HeldOne
<1>5. Held(k, a) \in Nat /\ Held(l, a) \in Nat
  BY <1>1, HeldSum
<1>6. /\ c.kind # "erc721" \/ c.moves[a] = 0 => Held(k, a) = Held(l, a) + c.moves[a]
      /\ c.kind = "erc721" /\ c.moves[a] # 0 => Held(k, a) + l[b][a] = Held(l, a) + 1
  BY <1>2, <1>4, <1>5
<1> QED
  BY <1>0, <1>1, <1>6

\* One box holds at most what all hold, and so do two.
LEMMA HeldBounds ==
  ASSUME NEW l \in [Box -> [Asset -> Nat]], NEW a \in Asset, NEW b \in Box
  PROVE  /\ l[b][a] <= Held(l, a)
         /\ \A c \in Box \ {b} : l[b][a] + l[c][a] <= Held(l, a)
<1> DEFINE f == [d \in Box |-> l[d][a]]
<1>1. (\A y \in Box : f[y] \in Nat) /\ (\A y \in Box : f[y] = l[y][a])
  OBVIOUS
<1>2. Held(l, a) = SumFunctionOnSet(f, Box)
  BY HeldSum
<1> HIDE DEF f
<1>3. /\ f[b] <= SumFunctionOnSet(f, Box)
      /\ \A y \in Box \ {b} : f[b] + f[y] <= SumFunctionOnSet(f, Box)
  BY <1>1, IdsAssumption, SumBounds
<1> QED
  BY <1>1, <1>2, <1>3

\* The lock of a box is a number of units.
LEMMA DueType ==
  ASSUME FieldsOK, NEW a \in Asset
  PROVE  Dues(a) \in [Box -> Nat]
<1> SUFFICES ASSUME NEW b \in Box PROVE Due(b, a) \in Nat
  BY DEF Dues
<1>1. types[tokenTypes[b]].lockAmount \in Nat
  BY DEF FieldsOK, TypeInfo
<1> QED
  BY <1>1 DEF Due, Only

\* Units under way are a number of units.
LEMMA UnderwayType ==
  ASSUME IInv, NEW a \in Asset, NEW ops \in {Paying, Storing}
  PROVE  Underway(ops, a) \in Nat
<1> SUFFICES ASSUME At(ops, "calling") PROVE Top.calls[1].moves[a] \in Nat
  BY DEF Underway
<1>1. stack # <<>> /\ Top.op \in VaultOp /\ Top.pc = "calling"
  BY DEF At, Paying, Storing, VaultOp
<1>2. Top \in VaultFrame /\ FrameOK(Top)
  BY <1>1, InProgress
<1>3. Top.calls \in Seq(Call) /\ Top.calls # <<>>
  BY <1>1, <1>2 DEF VaultFrame, FrameOK, HasNext
<1>4. Top.calls[1] \in Call
  BY <1>3, EmptySeq, ElementOfSeq
<1> QED
  BY <1>4 DEF Call

\* What the claims and what covers them are made of.
Amounts(a) ==
    /\ Claims(a) = Held(indexed, a) + Locks(a) + Underway(Paying, a)
    /\ Covers(a) = bank[a][Self] + Underway(Storing, a)
    /\ Held(indexed, a) \in Nat /\ Locks(a) \in Nat /\ bank[a][Self] \in Nat
    /\ Underway(Paying, a) \in Nat /\ Underway(Storing, a) \in Nat

AllAmounts == \A a \in Asset : Amounts(a)

LEMMA AmountsOK == IInv => AllAmounts
<1> SUFFICES ASSUME IInv, NEW a \in Asset PROVE Amounts(a)
  BY DEF AllAmounts
<1>1. FieldsOK
  BY FieldsOfCurrent DEF IInv, TypeOK
<1>2. Held(indexed, a) \in Nat /\ bank[a][Self] \in Nat
  BY <1>1, HeldSum DEF FieldsOK, Holder
<1>3. Locks(a) \in Nat
  BY <1>1, DueType, SumOfBoxes DEF Locks
<1>4. Underway(Paying, a) \in Nat /\ Underway(Storing, a) \in Nat
  BY UnderwayType
<1> QED
  BY <1>2, <1>3, <1>4
  DEF Amounts, Claims, Covers, HeldIn, Held, Current, Locks, Dues, Paying, Storing

LEMMA AmountsNext == IInv' => AllAmounts'
  BY AmountsOK, PTL

\* Between transactions nothing is under way: the claims are the contents
\* and the locks that the promises speak of.
AllCovered == \A a \in Asset : Claims(a) <= Covers(a)
AllExact == \A a \in Asset : Claims(a) = Covers(a)
SettledBooks ==
    stack = <<>> => /\ Solvent <=> AllCovered
                    /\ NothingStranded <=> AllExact

LEMMA Settled == IInv => SettledBooks
<1> SUFFICES ASSUME IInv, stack = <<>> PROVE SettledBooks
  BY DEF SettledBooks
<1>1. FieldsOK
  BY FieldsOfCurrent DEF IInv, TypeOK
<1>2. Committed = Current
  BY DEF Committed
<1>3. ASSUME NEW a \in Asset
      PROVE  /\ Claims(a) = HeldIn(Committed, a) + LocksIn(Committed, a)
             /\ Covers(a) = Committed.bank[a][Self]
  <2>1. Underway(Paying, a) = 0 /\ Underway(Storing, a) = 0
    BY DEF Underway, At
  <2>2. Unlocked = destroyedBoxes
    BY DEF Unlocked, Unfinished
  <2>3. \A b \in Box : Due(b, a) = LockOwedTo(Current, b, a)
    BY <2>2 DEF Due, LockOwedTo, Only, Current
  <2>4. Dues(a) = [b \in Box |-> LockOwedTo(Current, b, a)]
    BY <2>3 DEF Dues
  <2>5. Locks(a) = LocksIn(Committed, a)
    BY <1>2, <2>4 DEF Locks, LocksIn
  <2>6. Amounts(a)
    BY AmountsOK DEF AllAmounts
  <2>7. HeldIn(Committed, a) = Held(indexed, a)
    BY <1>2 DEF HeldIn, Held, Current
  <2>8. Committed.bank = bank
    BY <1>2 DEF Current
  <2> QED
    BY <2>1, <2>5, <2>6, <2>7, <2>8 DEF Amounts
<1> QED
  BY <1>3 DEF SettledBooks, Solvent, NothingStranded, AllCovered, AllExact

LEMMA SettledNext == IInv' => SettledBooks'
  BY Settled, PTL

-----------------------------------------------------------------------------
(* Transfers *)

\* Balances bl are bk once x has given y the units m.
Shifted(bl, bk, x, y, m) ==
    \A a \in Asset, z \in Holder :
        /\ x = y \/ (z # x /\ z # y) => bl[a][z] = bk[a][z]
        /\ x # y /\ z = x => bl[a][z] = bk[a][z] - m[a]
        /\ x # y /\ z = y => bl[a][z] = bk[a][z] + m[a]

LEMMA MovedTo ==
  ASSUME NEW bk \in [Asset -> [Holder -> Nat]], NEW x \in Holder, NEW y \in Holder,
         NEW m \in [Asset -> Int]
  PROVE  Shifted(Moved(bk, x, y, m), bk, x, y, m)
<1>0. PICK bl : bl = Moved(bk, x, y, m)
  OBVIOUS
<1> SUFFICES ASSUME NEW a \in Asset, NEW z \in Holder
             PROVE  /\ x = y \/ (z # x /\ z # y) => bl[a][z] = bk[a][z]
                    /\ x # y /\ z = x => bl[a][z] = bk[a][z] - m[a]
                    /\ x # y /\ z = y => bl[a][z] = bk[a][z] + m[a]
  BY <1>0 DEF Shifted
<1>1. bk[a] \in [Holder -> Nat]
  OBVIOUS
<1> QED
  BY <1>0, <1>1 DEF Moved

\* Transfers of whole NFTs leave each with one holder.
LEMMA MovedOneHolder ==
  ASSUME NEW bk \in [Asset -> [Holder -> Nat]], NEW x \in Holder, NEW y \in Holder,
         NEW m \in [Asset -> Nat], OneHolder(bk), \A a \in Asset : m[a] <= bk[a][x]
  PROVE  OneHolder(Moved(bk, x, y, m))
<1>0. PICK bl : bl = Moved(bk, x, y, m)
  OBVIOUS
<1> SUFFICES ASSUME NEW a \in Asset, Kind[a] = "erc721", NEW u \in Holder, NEW v \in Holder
             PROVE  bl[a][u] <= 1 /\ (bl[a][u] = 1 /\ bl[a][v] = 1 => u = v)
  BY <1>0 DEF OneHolder
<1>1. m \in [Asset -> Int]
  OBVIOUS
<1>2. \A z \in Holder :
         /\ x = y \/ (z # x /\ z # y) => bl[a][z] = bk[a][z]
         /\ x # y /\ z = x => bl[a][z] = bk[a][z] - m[a]
         /\ x # y /\ z = y => bl[a][z] = bk[a][z] + m[a]
  <2>1. Shifted(bl, bk, x, y, m)
    BY <1>0, <1>1, MovedTo
  <2> QED
    BY <2>1 DEF Shifted
<1>3. \A z, w \in Holder : bk[a][z] <= 1 /\ (bk[a][z] = 1 /\ bk[a][w] = 1 => z = w)
  BY DEF OneHolder
<1>4. m[a] \in Nat /\ m[a] <= bk[a][x] /\ \A z \in Holder : bk[a][z] \in Nat
  OBVIOUS
<1>5. CASE x = y \/ m[a] = 0
  <2>1. \A z \in Holder : bl[a][z] = bk[a][z]
    BY <1>2, <1>4, <1>5
  <2> QED
    BY <1>3, <2>1
<1>6. CASE x # y /\ m[a] # 0
  <2>1. m[a] = 1 /\ bk[a][x] = 1
    <3>1. PICK p, q : p = m[a] /\ q = bk[a][x]
      OBVIOUS
    <3>2. p \in Nat /\ q \in Nat /\ p <= q
      BY <1>4, <3>1
    <3>3. q <= 1 /\ p # 0
      BY <1>3, <1>6, <3>1
    <3>4. p = 1 /\ q = 1
      BY <3>2, <3>3
    <3> QED
      BY <3>1, <3>4
  <2>2. \A z \in Holder \ {x} : bk[a][z] = 0
    <3> SUFFICES ASSUME NEW z \in Holder \ {x} PROVE bk[a][z] = 0
      OBVIOUS
    <3>1. bk[a][z] \in Nat /\ bk[a][z] <= 1 /\ bk[a][z] # 1
      BY <1>3, <1>4, <2>1
    <3> QED
      BY <3>1
  <2>3. ASSUME NEW z \in Holder PROVE bl[a][z] = IF z = y THEN 1 ELSE 0
    <3>1. CASE z = x
      <4>1. bl[a][x] = bk[a][x] - m[a]
        BY <1>2, <1>6
      <4> QED
        BY <1>6, <2>1, <3>1, <4>1
    <3>2. CASE z = y
      <4>1. bl[a][y] = bk[a][y] + m[a] /\ bk[a][y] = 0
        BY <1>2, <1>6, <2>2
      <4> QED
        BY <2>1, <3>2, <4>1
    <3>3. CASE z # x /\ z # y
      BY <1>2, <2>2, <3>3
    <3> QED
      BY <3>1, <3>2, <3>3
  <2> QED
    BY <2>3
<1> QED
  BY <1>5, <1>6

\* Balances are the same if they are the same of every asset and holder.
LEMMA SameBalances ==
  ASSUME NEW bk \in [Asset -> [Holder -> Int]], NEW bl \in [Asset -> [Holder -> Int]],
         \A a \in Asset, z \in Holder : bk[a][z] = bl[a][z]
  PROVE  bk = bl
<1>1. \A a \in Asset : bk[a] = bl[a]
  OBVIOUS
<1> QED
  BY <1>1

\* A transfer of some amounts, possibly none.
LEMMA MovedSort ==
  ASSUME NEW bk \in [Asset -> [Holder -> Int]], NEW x \in Holder, NEW y \in Holder,
         NEW m \in [Asset -> Int]
  PROVE  Moved(bk, x, y, m) \in [Asset -> [Holder -> Int]]
  BY DEF Moved

\* Transferring nothing changes nothing.
LEMMA MovedNothing ==
  ASSUME NEW bk \in [Asset -> [Holder -> Nat]], NEW x \in Holder, NEW y \in Holder,
         NEW m \in [Asset -> Int], \A a \in Asset : m[a] = 0
  PROVE  Moved(bk, x, y, m) = bk
<1>1. bk \in [Asset -> [Holder -> Int]]
  OBVIOUS
<1>2. Moved(bk, x, y, m) \in [Asset -> [Holder -> Int]]
  BY <1>1, MovedSort
<1>3. PICK bl : bl = Moved(bk, x, y, m)
  OBVIOUS
<1>4. \A a \in Asset, z \in Holder : bl[a][z] = bk[a][z]
  <2> TAKE a \in Asset, z \in Holder
  <2>1. Shifted(bl, bk, x, y, m)
    BY <1>3, MovedTo
  <2>2. m[a] = 0 /\ bk[a][z] \in Nat
    OBVIOUS
  <2> QED
    BY <2>1, <2>2 DEF Shifted
<1> QED
  BY <1>1, <1>2, <1>3, <1>4, SameBalances

\* Two transfers from one account to another are one of both amounts.
Adds(k, m, n) == \A a \in Asset : k[a] = m[a] + n[a]
Arrives(bl, n, bk, k, x, y) == Moved(bl, x, y, n) = Moved(bk, x, y, k)

LEMMA MovedTwice ==
  ASSUME NEW bk \in [Asset -> [Holder -> Nat]], NEW bl \in [Asset -> [Holder -> Nat]],
         NEW x \in Holder, NEW y \in Holder,
         NEW m \in [Asset -> Int], NEW n \in [Asset -> Int], NEW k \in [Asset -> Int],
         Adds(k, m, n),
         bl = Moved(bk, x, y, m)
  PROVE  Arrives(bl, n, bk, k, x, y)
<1>2. bk \in [Asset -> [Holder -> Int]] /\ bl \in [Asset -> [Holder -> Int]]
  OBVIOUS
<1>3. /\ Moved(bl, x, y, n) \in [Asset -> [Holder -> Int]]
      /\ Moved(bk, x, y, k) \in [Asset -> [Holder -> Int]]
  BY <1>2, MovedSort
<1>4. PICK bn, bh : bn = Moved(bl, x, y, n) /\ bh = Moved(bk, x, y, k)
  OBVIOUS
<1>5. /\ Shifted(bn, bl, x, y, n)
      /\ Shifted(bl, bk, x, y, m)
      /\ Shifted(bh, bk, x, y, k)
  BY <1>4, MovedTo
<1>6. ASSUME NEW a \in Asset, NEW z \in Holder PROVE bn[a][z] = bh[a][z]
  <2>1. k[a] = m[a] + n[a] /\ m[a] \in Int /\ n[a] \in Int /\ bk[a][z] \in Nat
    BY DEF Adds
  <2>2. CASE x = y \/ (z # x /\ z # y)
    BY <1>5, <2>2 DEF Shifted
  <2>3. CASE x # y /\ z = x
    <3>1. /\ bn[a][z] = bl[a][z] - n[a] /\ bl[a][z] = bk[a][z] - m[a]
          /\ bh[a][z] = bk[a][z] - k[a]
      BY <1>5, <2>3 DEF Shifted
    <3> QED
      BY <2>1, <3>1
  <2>4. CASE x # y /\ z = y
    <3>1. /\ bn[a][z] = bl[a][z] + n[a] /\ bl[a][z] = bk[a][z] + m[a]
          /\ bh[a][z] = bk[a][z] + k[a]
      BY <1>5, <2>4 DEF Shifted
    <3> QED
      BY <2>1, <3>1
  <2> QED
    BY <2>2, <2>3, <2>4
<1> QED
  BY <1>3, <1>4, <1>6, SameBalances DEF Arrives

-----------------------------------------------------------------------------
(* Steps balance: claims and what covers them change by the same amounts *)

\* What the call in progress has under way, by its frame.
InFlight(f, ops, a) ==
    IF f.op \in ops /\ f.pc = "calling" THEN f.calls[1].moves[a] ELSE 0

UnderwayTold ==
    \A a \in Asset, ops \in {Paying, Storing, {"withdraw"}} :
        /\ stack = <<>> => Underway(ops, a) = 0
        /\ stack # <<>> => Underway(ops, a) = InFlight(stack[1], ops, a)

LEMMA UnderwayIs == IInv => UnderwayTold
<1> SUFFICES ASSUME IInv, NEW a \in Asset,
                    NEW ops \in {Paying, Storing, {"withdraw"}}
             PROVE  /\ stack = <<>> => Underway(ops, a) = 0
                    /\ stack # <<>> => Underway(ops, a) = InFlight(stack[1], ops, a)
  BY DEF UnderwayTold
<1>1. stack # <<>> => Top = stack[1]
  BY InProgress
<1> QED
  BY <1>1 DEF Underway, InFlight, At

LEMMA UnderwayNext == IInv' => UnderwayTold'
  BY UnderwayIs, PTL

\* The claims of a step less what covers them are at most those before it,
\* and exactly those where nobody gives the contract anything.
Balanced ==
    \A a \in Asset :
        /\ Claims(a)' + Covers(a) <= Claims(a) + Covers(a)'
        /\ NoGifts => Claims(a)' + Covers(a) = Claims(a) + Covers(a)'

LEMMA BalancedKeeps ==
  ASSUME IInv, IInv', Balanced
  PROVE  /\ AllCovered => AllCovered'
         /\ NoGifts /\ AllExact => AllExact'
<1>1. AllAmounts /\ AllAmounts'
  BY AmountsOK, AmountsNext
<1>2. ASSUME NEW a \in Asset
      PROVE  /\ Claims(a) <= Covers(a) => Claims(a)' <= Covers(a)'
             /\ NoGifts /\ Claims(a) = Covers(a) => Claims(a)' = Covers(a)'
  <2>1. /\ Claims(a) \in Nat /\ Covers(a) \in Nat
        /\ Claims(a)' \in Nat /\ Covers(a)' \in Nat
    <3>1. Amounts(a) /\ Amounts(a)'
      BY <1>1 DEF AllAmounts
    <3> QED
      BY <3>1 DEF Amounts
  <2>2. /\ Claims(a)' + Covers(a) <= Claims(a) + Covers(a)'
        /\ NoGifts => Claims(a)' + Covers(a) = Claims(a) + Covers(a)'
    BY DEF Balanced
  <2> QED
    BY <2>1, <2>2
<1> QED
  BY <1>2 DEF AllCovered, AllExact

\* Where nothing is locked or freed, the locks are the same.
LEMMA LocksSame ==
  ASSUME NEW a \in Asset, \A b \in Box : Due(b, a)' = Due(b, a)
  PROVE  Locks(a)' = Locks(a)
  BY DEF Locks, Dues

\* A box that was minted and not destroyed is owed the same as long as its
\* type and the terms of that type stand.
LEMMA DuesSame ==
  ASSUME Unlocked' = Unlocked,
         \A b \in Box \ Unlocked : owner'[b] # Nobody <=> owner[b] # Nobody,
         \A b \in Box \ Unlocked : owner[b] # Nobody =>
            types'[tokenTypes'[b]] = types[tokenTypes[b]],
         NEW a \in Asset
  PROVE  Locks(a)' = Locks(a)
<1>1. ASSUME NEW b \in Box PROVE Due(b, a)' = Due(b, a)
  <2>1. CASE b \in Unlocked \/ owner[b] = Nobody
    BY <2>1 DEF Due
  <2>2. CASE b \notin Unlocked /\ owner[b] # Nobody
    BY <2>2 DEF Due
  <2> QED
    BY <2>1, <2>2
<1> QED
  BY <1>1, LocksSame

\* Quiet steps: a gift is the only thing that changes the books.
LEMMA QuietBalanced ==
  ASSUME IInv, IInv', MintInv, Quiet
  PROVE  Balanced
<1> SUFFICES ASSUME NEW a \in Asset
             PROVE  /\ Claims(a)' + Covers(a) <= Claims(a) + Covers(a)'
                    /\ NoGifts => Claims(a)' + Covers(a) = Claims(a) + Covers(a)'
  BY DEF Balanced
<1>1. Amounts(a) /\ Amounts(a)' /\ UnderwayTold /\ UnderwayTold'
  BY AmountsOK, AmountsNext, UnderwayIs, UnderwayNext DEF AllAmounts
<1>2. FieldsOK
  BY FieldsOfCurrent DEF IInv, TypeOK
<1>3. Locks(a)' = Locks(a)
  <2>1. Unlocked' = Unlocked
    BY DEF Quiet, Unlocked, Unfinished, MintedBy, vaultVars
  <2>2. ASSUME NEW b \in Box \ Unlocked, owner[b] # Nobody
        PROVE  types'[tokenTypes'[b]] = types[tokenTypes[b]]
    <3>1. b \notin Unfinished
      BY DEF Unlocked
    <3>2. types[tokenTypes[b]].to # 0 /\ tokenTypes[b] \in TypeId
      BY <1>2, <2>2, <3>1 DEF MintInv, AllInRange, InRange, Current, FieldsOK
    <3> QED
      BY <3>2 DEF Quiet
  <2> QED
    BY <2>1, <2>2, DuesSame DEF Quiet
<1>4. Held(indexed, a)' = Held(indexed, a)
  BY DEF Quiet, vaultVars
<1>5. /\ Underway(Paying, a)' = Underway(Paying, a)
      /\ Underway(Storing, a)' = Underway(Storing, a)
  BY <1>1 DEF Quiet, UnderwayTold
<1>6. /\ bank[a][Self] <= bank'[a][Self]
      /\ NoGifts => bank[a][Self] = bank'[a][Self]
  <2>1. CASE bank' = bank
    BY <1>1, <2>1 DEF Amounts
  <2>2. ASSUME NEW x \in Account, NEW d \in Donations, Donate(x, d)
        PROVE  bank[a][Self] <= bank'[a][Self]
    <3>1. /\ bank' = Moved(bank, x, Self, Only(d, 1))
          /\ x \in Holder /\ Self \in Holder /\ x # Self
      BY <2>2, AccountsAssumption DEF Donate, Holder
    <3>2. Only(d, 1) \in [Asset -> Int] /\ Only(d, 1)[a] \in Nat
      BY OnlyType DEF Only
    <3>3. Shifted(bank', bank, x, Self, Only(d, 1))
      BY <1>2, <3>1, <3>2, MovedTo DEF FieldsOK
    <3>4. bank'[a][Self] = bank[a][Self] + Only(d, 1)[a]
      BY <3>1, <3>3 DEF Shifted
    <3> QED
      BY <1>1, <3>2, <3>4 DEF Amounts
  <2> QED
    BY <2>1, <2>2 DEF Quiet, NoGifts
<1> QED
  BY <1>1, <1>3, <1>4, <1>5, <1>6 DEF Amounts

\* What the four operations find and do when they are entered.
LEMMA VaultEntry ==
  ASSUME IInv, VaultCall
  PROVE  \E f \in VaultFrame, n \in Nat :
            /\ f.pre = Current /\ f.pc = "ready" /\ Enter(f)
            /\ UNCHANGED <<nftVars, typeVars>> /\ UNCHANGED boxVars
            /\ f.op = "destroy" => f.box \notin destroyedBoxes
            /\ f.op \in Paying => f.calls # <<>> /\ f.calls[1].kind = "eth"
            /\ f.op # "store" => UNCHANGED <<indexed, bank>>
            /\ f.op = "store" =>
                  /\ Affords(f.caller, EthCall(n).moves)
                  /\ bank' = Moved(bank, f.caller, Self, EthCall(n).moves)
                  /\ indexed' = Credit(indexed, f.box, EthCall(n))
<1>1. PICK x \in Account, b \in Box, req \in Requests :
        \/ store(x, b, req)
        \/ \E to \in Payees : withdraw(x, b, to, req)
        \/ \E dest \in Box : transferBetweenBoxes(x, b, dest, req)
        \/ \E to \in Payees : destroy(x, b, to, req)
  BY DEF VaultCall
<1>2. PICK n \in Nat : n = req.eth
  BY VaultInputs
<1>3. PICK calls : calls = <<EthCall(n)>> \o req.tokens
  OBVIOUS
<1>4. /\ req.tokens \in Seq(Call) /\ calls \in Seq(Call) /\ x \in Holder
      /\ calls # <<>> /\ calls[1].kind = "eth"
  <2>1. /\ req.tokens \in Seq(Call) /\ calls \in Seq(Call) /\ x \in Holder
        /\ <<EthCall(n)>> \in Seq(Call)
    BY <1>2, <1>3, RequestCalls DEF Holder
  <2>2. calls # <<>> /\ calls[1] = EthCall(n)
    <3>1. /\ Len(calls) = 1 + Len(req.tokens) /\ Len(req.tokens) \in Nat
          /\ calls[1] = <<EthCall(n)>>[1]
      BY <1>3, <2>1, ConcatProperties, LenProperties
    <3> QED
      BY <3>1, EmptySeq
  <2> QED
    BY <2>1, <2>2 DEF EthCall
<1>5. CASE store(x, b, req)
  <2>0. PICK f : f = [op |-> "store", caller |-> x, box |-> b, dest |-> b, to |-> x,
                      calls |-> req.tokens, pc |-> "ready", pre |-> Current]
    OBVIOUS
  <2>1. f \in VaultFrame
    BY <1>4, <2>0 DEF IInv, TypeOK, VaultFrame, VaultOp
  <2>2. /\ Enter(f) /\ UNCHANGED <<nftVars, typeVars>> /\ UNCHANGED boxVars
        /\ Affords(x, EthCall(n).moves)
        /\ bank' = Moved(bank, x, Self, EthCall(n).moves)
        /\ indexed' = Credit(indexed, b, EthCall(n))
    BY <1>2, <1>5, <2>0 DEF store, BeginVault
  <2> QED
    BY <2>0, <2>1, <2>2 DEF Paying
<1>6. ASSUME NEW op \in VaultOp \ {"store"}, NEW dest \in Box, NEW to \in Holder,
             BeginVault(op, x, b, dest, to, calls),
             op = "destroy" => b \notin destroyedBoxes,
             UNCHANGED <<indexed, bank>>
      PROVE  \E f \in VaultFrame :
                /\ f.pre = Current /\ f.pc = "ready" /\ Enter(f)
                /\ UNCHANGED <<nftVars, typeVars, indexed, bank>> /\ UNCHANGED boxVars
                /\ f.op = "destroy" => f.box \notin destroyedBoxes
                /\ f.op # "store" /\ f.calls = calls
  <2>0. PICK f : f = [op |-> op, caller |-> x, box |-> b, dest |-> dest, to |-> to,
                      calls |-> calls, pc |-> "ready", pre |-> Current]
    OBVIOUS
  <2>1. f \in VaultFrame
    BY <1>4, <2>0 DEF IInv, TypeOK, VaultFrame
  <2>2. Enter(f) /\ UNCHANGED <<nftVars, typeVars>> /\ UNCHANGED boxVars
    BY <1>6, <2>0 DEF BeginVault
  <2> QED
    BY <1>6, <2>0, <2>1, <2>2
<1>7. CASE \/ \E to \in Payees : withdraw(x, b, to, req)
           \/ \E dest \in Box : transferBetweenBoxes(x, b, dest, req)
           \/ \E to \in Payees : destroy(x, b, to, req)
  <2>1. PICK op \in VaultOp \ {"store"}, dest \in Box, to \in Holder :
          /\ BeginVault(op, x, b, dest, to, calls)
          /\ op = "destroy" => b \notin destroyedBoxes
          /\ UNCHANGED <<indexed, bank>>
    BY <1>2, <1>3, <1>4, <1>7, VaultInputs
    DEF withdraw, transferBetweenBoxes, destroy, _beforeDestroy,
        onlyNotDestroyedBox, vaultVars, VaultOp
  <2> QED
    BY <1>4, <1>6, <2>1
<1> QED
  BY <1>1, <1>5, <1>7

\* What the mint functions find and do when they are entered.
LEMMA MintEntry ==
  ASSUME IInv, MintCall
  PROVE  \/ \E x \in Account, defs \in TypeBatches : addTypes(x, defs)
         \/ \E f \in MintFrame :
               /\ f.pre = Current /\ f.pc = "ready" /\ Enter(f)
               /\ f.minted = <<>> /\ f.to # <<>>
               /\ UNCHANGED <<nftVars, typeVars, indexed, bank>> /\ UNCHANGED boxVars
<1>1. PICK x \in Account :
        \/ \E defs \in TypeBatches : addTypes(x, defs)
        \/ \E to \in Recipients, t \in TypeId, r \in MintRestrictions :
              \/ \E b \in Box : Len(to) = 1 /\ safeMint(x, to[1], b, t, r)
              \/ Len(to) = 1 /\ safeMintByType(x, to[1], t, r)
              \/ safeBatchMintByType(x, to, t, r)
  BY DEF MintCall
<1>2. ASSUME NEW op \in MintOp, NEW t \in TypeId, NEW r \in BOOLEAN,
             NEW wanted \in SUBSET Box, NEW to \in Seq(Account), to # <<>>,
             BeginMint(op, x, t, r, wanted, to)
      PROVE  \E f \in MintFrame :
               /\ f.pre = Current /\ f.pc = "ready" /\ Enter(f)
               /\ f.minted = <<>> /\ f.to # <<>>
               /\ UNCHANGED <<nftVars, typeVars, indexed, bank>> /\ UNCHANGED boxVars
  <2>0. PICK f : f = [op |-> op, caller |-> x, type |-> t, restricted |-> r,
                      wanted |-> wanted, to |-> to, minted |-> <<>>, pc |-> "ready",
                      pre |-> Current]
    OBVIOUS
  <2>1. f \in MintFrame
    BY <2>0, EmptySeq DEF IInv, TypeOK, MintFrame
  <2>2. Enter(f) /\ UNCHANGED <<nftVars, typeVars, indexed, bank>> /\ UNCHANGED boxVars
    BY <1>2, <2>0 DEF BeginMint, vaultVars
  <2> QED
    BY <1>2, <2>0, <2>1, <2>2
<1>3. ASSUME NEW to \in Recipients, NEW t \in TypeId, NEW r \in MintRestrictions,
             \/ \E b \in Box : Len(to) = 1 /\ safeMint(x, to[1], b, t, r)
             \/ Len(to) = 1 /\ safeMintByType(x, to[1], t, r)
             \/ safeBatchMintByType(x, to, t, r)
      PROVE  \E op \in MintOp, wanted \in SUBSET Box, list \in Seq(Account) :
                list # <<>> /\ BeginMint(op, x, t, r, wanted, list)
  <2>1. to \in Seq(Account) /\ to # <<>> /\ r \in BOOLEAN
    BY MintInputs
  <2>2. Len(to) = 1 => <<to[1]>> \in Seq(Account) /\ <<to[1]>> # <<>>
    BY <2>1, ElementOfSeq
  <2> QED
    BY <1>3, <2>1, <2>2 DEF safeMint, safeMintByType, safeBatchMintByType, MintOp
<1>4. \A r \in MintRestrictions : r \in BOOLEAN
  BY MintInputs
<1> QED
  BY <1>1, <1>2, <1>3, <1>4

\* Entering a function neither owes nor frees a lock: a mint has minted
\* nothing, and the lock of a box being destroyed is still to be paid.
LEMMA EnterLocks ==
  ASSUME IInv, IInv', NEW f \in Frame, f.pre = Current, f.pc = "ready", Enter(f),
         UNCHANGED <<nftVars, typeVars>>,
         f.op \in MintOp => f.minted = <<>>,
         f.op = "destroy" => f.box \notin destroyedBoxes,
         NEW a \in Asset
  PROVE  /\ stack = <<>> /\ stack' # <<>> /\ stack'[1] = f
         /\ Locks(a)' = Locks(a)
         /\ Underway(Paying, a) = 0 /\ Underway(Storing, a) = 0
         /\ Underway(Paying, a)' = 0 /\ Underway(Storing, a)' = 0
         /\ Underway({"withdraw"}, a)' = 0
<1>1. stack = <<>> /\ stack'[1] = f /\ stack' # <<>>
  BY EnterIdle, Pushed DEF Enter
<1>2. UnderwayTold /\ UnderwayTold'
  BY UnderwayIs, UnderwayNext
<1>3. Unlocked' = Unlocked
  <2>1. Unfinished = {} /\ Unfinished' = {}
    BY <1>1, EmptySeq DEF Unfinished, MintedBy
  <2>2. destroyedBoxes' = destroyedBoxes \cup (IF f.op = "destroy" THEN {f.box} ELSE {})
    BY <1>1 DEF IInv, FrameOK, DestroysByRight, Current
  <2>3. Unlocked = destroyedBoxes
    BY <1>1, <2>1 DEF Unlocked
  <2>4. Unlocked' = IF f.op = "destroy" THEN destroyedBoxes' \ {f.box} ELSE destroyedBoxes'
    BY <1>1, <2>1 DEF Unlocked
  <2> QED
    BY <2>2, <2>3, <2>4
<1>4. Locks(a)' = Locks(a)
  BY <1>3, DuesSame DEF nftVars, typeVars
<1>5. /\ Underway(Paying, a) = 0 /\ Underway(Storing, a) = 0
      /\ Underway(Paying, a)' = 0 /\ Underway(Storing, a)' = 0
      /\ Underway({"withdraw"}, a)' = 0
  BY <1>1, <1>2 DEF UnderwayTold, InFlight
<1> QED
  BY <1>1, <1>4, <1>5

\* The ether a store comes with is recorded when it arrives.
LEMMA EntriesBalanced ==
  ASSUME IInv, IInv', MintInv, MintCall \/ VaultCall
  PROVE  Balanced
<1> SUFFICES ASSUME NEW a \in Asset
             PROVE  /\ Claims(a)' + Covers(a) <= Claims(a) + Covers(a)'
                    /\ NoGifts => Claims(a)' + Covers(a) = Claims(a) + Covers(a)'
  BY DEF Balanced
<1>1. Amounts(a) /\ Amounts(a)'
  BY AmountsOK, AmountsNext DEF AllAmounts
<1>2. FieldsOK /\ FieldsOK'
  BY FieldsOfCurrent, FieldsOfCurrentNext DEF IInv, TypeOK
<1>3. CASE \E x \in Account, defs \in TypeBatches : addTypes(x, defs)
  BY <1>3, QuietStep, QuietBalanced DEF Balanced
<1>4. ASSUME NEW f \in Frame, f.pre = Current, f.pc = "ready", Enter(f),
             UNCHANGED <<nftVars, typeVars, indexed, bank>>,
             f.op \in MintOp => f.minted = <<>>,
             f.op = "destroy" => f.box \notin destroyedBoxes
      PROVE  Claims(a)' + Covers(a) = Claims(a) + Covers(a)'
  <2>1. /\ Locks(a)' = Locks(a)
        /\ Underway(Paying, a) = 0 /\ Underway(Storing, a) = 0
        /\ Underway(Paying, a)' = 0 /\ Underway(Storing, a)' = 0
    BY <1>4, EnterLocks
  <2>2. Held(indexed, a)' = Held(indexed, a) /\ bank'[a][Self] = bank[a][Self]
    BY <1>4
  <2> QED
    BY <1>1, <2>1, <2>2 DEF Amounts
<1>5. CASE VaultCall
  <2>1. PICK f \in VaultFrame, n \in Nat :
            /\ f.pre = Current /\ f.pc = "ready" /\ Enter(f)
            /\ UNCHANGED <<nftVars, typeVars>>
            /\ f.op = "destroy" => f.box \notin destroyedBoxes
            /\ f.op # "store" => UNCHANGED <<indexed, bank>>
            /\ f.op = "store" =>
                  /\ bank' = Moved(bank, f.caller, Self, EthCall(n).moves)
                  /\ indexed' = Credit(indexed, f.box, EthCall(n))
    BY <1>5, VaultEntry
  <2>2. f \in Frame /\ f.op \notin MintOp /\ f.caller \in Account /\ f.box \in Box
    BY DEF Frame, VaultFrame, VaultOp, MintOp
  <2>3. CASE f.op # "store"
    <3>1. Claims(a)' + Covers(a) = Claims(a) + Covers(a)'
      BY <1>4, <2>1, <2>2, <2>3
    <3> QED
      BY <1>1, <3>1 DEF Amounts
  <2>4. CASE f.op = "store"
    <3>1. /\ Locks(a)' = Locks(a)
          /\ Underway(Paying, a) = 0 /\ Underway(Storing, a) = 0
          /\ Underway(Paying, a)' = 0 /\ Underway(Storing, a)' = 0
      BY <2>1, <2>2, EnterLocks
    <3>2. PICK c \in Call :
            /\ bank' = Moved(bank, f.caller, Self, c.moves)
            /\ indexed' = Credit(indexed, f.box, c)
      <4>1. EthCall(n) \in Call
        BY OnlyType, AssetsAssumption DEF Call, EthCall
      <4> QED
        BY <2>1, <2>4, <4>1
    <3>3. /\ c.moves \in [Asset -> Int] /\ c.moves[a] \in Nat
          /\ f.caller \in Holder /\ Self \in Holder /\ f.caller # Self
      BY <2>2, AccountsAssumption DEF Call, Holder
    <3>4. bank'[a][Self] = bank[a][Self] + c.moves[a]
      <4>1. Shifted(bank', bank, f.caller, Self, c.moves)
        BY <1>2, <3>2, <3>3, MovedTo DEF FieldsOK
      <4> QED
        BY <3>3, <4>1 DEF Shifted
    <3>5. Held(indexed', a) = Held(indexed, a) + c.moves[a]
      <4>1. indexed \in [Box -> [Asset -> Nat]] /\ f.box \in Box
        BY <1>2, <2>2 DEF FieldsOK
      <4>2. Held(Credit(indexed, f.box, c), a) = Held(indexed, a) + c.moves[a]
        BY <4>1, CreditHeld
      <4> QED
        BY <3>2, <4>2
    <3> QED
      BY <1>1, <3>1, <3>3, <3>4, <3>5 DEF Amounts
  <2> QED
    BY <2>3, <2>4
<1>6. CASE MintCall
  <2>1. CASE \E f \in MintFrame :
               /\ f.pre = Current /\ f.pc = "ready" /\ Enter(f)
               /\ f.minted = <<>>
               /\ UNCHANGED <<nftVars, typeVars, indexed, bank>>
    <3>1. PICK f \in MintFrame :
               /\ f.pre = Current /\ f.pc = "ready" /\ Enter(f)
               /\ f.minted = <<>>
               /\ UNCHANGED <<nftVars, typeVars, indexed, bank>>
      BY <2>1
    <3>2. f \in Frame /\ f.op # "destroy"
      BY DEF Frame, MintFrame, MintOp
    <3>3. Claims(a)' + Covers(a) = Claims(a) + Covers(a)'
      BY <1>4, <3>1, <3>2
    <3> QED
      BY <1>1, <3>3 DEF Amounts
  <2> QED
    BY <1>3, <1>6, <2>1, MintEntry
<1> QED
  BY <1>5, <1>6

\* Steps that move no units and give no lock change nothing in the books.
LEMMA SameBooks ==
  ASSUME IInv, IInv', NEW a \in Asset, Locks(a)' = Locks(a),
         Held(indexed', a) = Held(indexed, a), bank'[a][Self] = bank[a][Self],
         Underway(Paying, a)' = Underway(Paying, a),
         Underway(Storing, a)' = Underway(Storing, a)
  PROVE  /\ Claims(a)' + Covers(a) <= Claims(a) + Covers(a)'
         /\ NoGifts => Claims(a)' + Covers(a) = Claims(a) + Covers(a)'
<1>1. Amounts(a) /\ Amounts(a)'
  BY AmountsOK, AmountsNext DEF AllAmounts
<1> QED
  BY <1>1 DEF Amounts

\* The boxes of a mint are owed nothing before it returns.
LEMMA MintGoesOnBalanced ==
  ASSUME IInv, IInv', MintInv, RecipientAccepts \/ \E b \in Box : MintNext(b)
  PROVE  Balanced
<1> SUFFICES ASSUME NEW a \in Asset
             PROVE  /\ Claims(a)' + Covers(a) <= Claims(a) + Covers(a)'
                    /\ NoGifts => Claims(a)' + Covers(a) = Claims(a) + Covers(a)'
  BY DEF Balanced
<1>0. PICK n : n = Len(Top.minted)
  OBVIOUS
<1>1. /\ stack # <<>> /\ Top.op \in MintOp /\ Top = stack[1]
      /\ UNCHANGED <<vaultVars, bank>> /\ UnderwayTold /\ UnderwayTold'
  <2>1. stack # <<>> /\ Top.op \in MintOp /\ UNCHANGED <<vaultVars, bank>>
    BY <1>0, NextId, Accepted
  <2> QED
    BY <2>1, InProgress, UnderwayIs, UnderwayNext
<1>2. stack' # <<>> /\ stack'[1].op = Top.op
  BY <1>0, NextId, Accepted
<1>3. /\ Underway(Paying, a)' = Underway(Paying, a)
      /\ Underway(Storing, a)' = Underway(Storing, a)
  BY <1>1, <1>2 DEF UnderwayTold, InFlight, MintOp, Paying, Storing
<1>4. /\ Unlocked = Unfinished \cup destroyedBoxes
      /\ Unlocked' = Unfinished' \cup destroyedBoxes
  BY <1>1, <1>2 DEF Unlocked, MintOp, vaultVars
<1>5. ASSUME NEW b \in Box, MintNext(b) PROVE Locks(a)' = Locks(a)
  <2>1. /\ owner[b] = Nobody /\ UNCHANGED types
        /\ \A c \in Box \ {b} : owner'[c] = owner[c] /\ tokenTypes'[c] = tokenTypes[c]
        /\ Unfinished' = Unfinished \cup {b}
    BY <1>5, NextId
  <2>2. ASSUME NEW c \in Box PROVE Due(c, a)' = Due(c, a)
    <3>1. CASE c = b
      BY <1>4, <2>1, <3>1 DEF Due
    <3>2. CASE c # b
      BY <1>4, <2>1, <3>2 DEF Due
    <3> QED
      BY <3>1, <3>2
  <2> QED
    BY <2>2, LocksSame
<1>6. ASSUME RecipientAccepts PROVE Locks(a)' = Locks(a)
  <2>1. /\ UNCHANGED <<owner, types>> /\ Unfinished' = Unfinished
        /\ Top.minted[n] \in Unfinished
        /\ \A c \in Box \ {Top.minted[n]} : tokenTypes'[c] = tokenTypes[c]
    BY <1>0, <1>6, Accepted
  <2> QED
    BY <1>4, <2>1, DuesSame
<1>7. Locks(a)' = Locks(a)
  BY <1>5, <1>6
<1>8. Held(indexed', a) = Held(indexed, a) /\ bank'[a][Self] = bank[a][Self]
  BY <1>1 DEF vaultVars
<1> QED
  BY <1>3, <1>7, <1>8, SameBooks

\* A vault operation that goes on locks and frees nothing.
LEMMA VaultLocks ==
  ASSUME IInv,
         CreditBox \/ DebitBox \/ MoveBetweenBoxes \/ CallReturns \/ BeginUnlock,
         NEW a \in Asset
  PROVE  Locks(a)' = Locks(a)
<1>1. /\ stack # <<>> /\ Top.op \in VaultOp /\ Top.op \notin MintOp
      /\ Top = stack[1] /\ Len(stack) = 1 /\ stack \in Seq(Frame)
  BY VaultProgress, InProgress
<1>2. PICK g \in VaultFrame :
        /\ ReplaceTop(g) /\ g.op = Top.op /\ g.box = Top.box
        /\ UNCHANGED <<nftVars, typeVars, destroyedBoxes>>
  BY VaultProgress
<1>3. stack' # <<>> /\ stack'[1] = g
  BY <1>1, <1>2, Replaced DEF Frame
<1>4. Unfinished = {} /\ Unfinished' = {}
  BY <1>1, <1>2, <1>3 DEF Unfinished
<1>5. Unlocked' = Unlocked
  BY <1>1, <1>2, <1>3, <1>4 DEF Unlocked
<1> QED
  BY <1>2, <1>5, DuesSame DEF nftVars, typeVars

\* What the next call of a vault operation is.
LEMMA NextCall ==
  ASSUME IInv,
         CreditBox \/ DebitBox \/ MoveBetweenBoxes \/ CallReturns
  PROVE  /\ Top.calls[1] \in Call /\ Top.calls \in Seq(Call) /\ Top.calls # <<>>
         /\ Top.box \in Box /\ Top.dest \in Box /\ Top.caller \in Account
         /\ Top.to \in Holder
<1>1. stack # <<>> /\ Top.op \in VaultOp
  BY VaultProgress
<1>2. Top \in VaultFrame /\ FrameOK(Top)
  BY <1>1, InProgress
<1>3. Top.calls # <<>>
  BY <1>1, <1>2
  DEF CreditBox, DebitBox, MoveBetweenBoxes, CallReturns, At, FrameOK, HasNext
<1>4. /\ Top.calls \in Seq(Call) /\ Top.box \in Box /\ Top.dest \in Box
      /\ Top.caller \in Account /\ Top.to \in Holder
  BY <1>2 DEF VaultFrame
<1> QED
  BY <1>3, <1>4, EmptySeq, ElementOfSeq

\* What a box is credited with is under way until the token has paid it, what
\* it is debited with until the payee has it.
LEMMA LoopBalanced ==
  ASSUME IInv, IInv', CreditBox \/ DebitBox
  PROVE  Balanced
<1> SUFFICES ASSUME NEW a \in Asset
             PROVE  /\ Claims(a)' + Covers(a) <= Claims(a) + Covers(a)'
                    /\ NoGifts => Claims(a)' + Covers(a) = Claims(a) + Covers(a)'
  BY DEF Balanced
<1>1. Amounts(a) /\ Amounts(a)' /\ UnderwayTold /\ UnderwayTold'
  BY AmountsOK, AmountsNext, UnderwayIs, UnderwayNext DEF AllAmounts
<1>2. /\ stack # <<>> /\ Top.op \in VaultOp
      /\ Top = stack[1] /\ Len(stack) = 1 /\ stack \in Seq(Frame)
  BY VaultProgress, InProgress
<1>3. PICK g \in VaultFrame :
        /\ ReplaceTop(g) /\ g.op = Top.op /\ g.calls = Top.calls /\ g.pc = "calling"
  BY VaultProgress
<1>4. stack' # <<>> /\ stack'[1] = g
  BY <1>2, <1>3, Replaced DEF Frame
<1>5. PICK c \in Call : c = Top.calls[1]
  BY NextCall
<1>6. FieldsOK /\ Top.box \in Box /\ c.moves[a] \in Nat
  BY NextCall, FieldsOfCurrent DEF IInv, TypeOK, Call
<1>7. Locks(a)' = Locks(a) /\ bank'[a][Self] = bank[a][Self]
  BY VaultLocks DEF CreditBox, DebitBox
<1>8. Top.pc = "ready"
  BY DEF CreditBox, DebitBox, At
<1>9. /\ Underway(Paying, a) = 0 /\ Underway(Storing, a) = 0
      /\ Underway(Paying, a)' = IF Top.op \in Paying THEN c.moves[a] ELSE 0
      /\ Underway(Storing, a)' = IF Top.op \in Storing THEN c.moves[a] ELSE 0
  BY <1>1, <1>2, <1>3, <1>4, <1>5, <1>8 DEF UnderwayTold, InFlight
<1>10. CASE CreditBox
  <2>1. Top.op \notin Paying /\ Top.op \in Storing
    BY <1>10 DEF CreditBox, At, Paying, Storing
  <2>2. Held(indexed', a) = Held(indexed, a) + c.moves[a]
    <3>1. indexed' = Credit(indexed, Top.box, c)
      BY <1>5, <1>10 DEF CreditBox
    <3> QED
      BY <1>6, <3>1, CreditHeld DEF FieldsOK
  <2> QED
    BY <1>1, <1>6, <1>7, <1>9, <2>1, <2>2 DEF Amounts
<1>11. CASE DebitBox
  <2>1. Top.op \in Paying /\ Top.op \notin Storing
    BY <1>11 DEF DebitBox, At, Paying, Storing
  <2>2. Held(indexed', a) = Held(indexed, a) - c.moves[a]
    <3>1. indexed' = Debit(indexed, Top.box, c) /\ InBox(Top.box, c)
      BY <1>5, <1>11 DEF DebitBox
    <3>2. \A d \in Asset : c.moves[d] <= indexed[Top.box][d]
      BY <1>6, <3>1, InBoxEnough DEF FieldsOK
    <3> QED
      BY <1>6, <3>1, <3>2, DebitHeld DEF FieldsOK
  <2> QED
    BY <1>1, <1>6, <1>7, <1>9, <2>1, <2>2 DEF Amounts
<1> QED
  BY <1>10, <1>11

\* The units of a call arrive, or leave; a payee that is the contract itself
\* leaves it with more than it owes.
LEMMA CallReturnsBalanced ==
  ASSUME IInv, IInv', StrandedInv, CallReturns
  PROVE  Balanced
<1> SUFFICES ASSUME NEW a \in Asset
             PROVE  /\ Claims(a)' + Covers(a) <= Claims(a) + Covers(a)'
                    /\ NoGifts => Claims(a)' + Covers(a) = Claims(a) + Covers(a)'
  BY DEF Balanced
<1>1. Amounts(a) /\ Amounts(a)' /\ UnderwayTold /\ UnderwayTold'
  BY AmountsOK, AmountsNext, UnderwayIs, UnderwayNext DEF AllAmounts
<1>2. /\ stack # <<>> /\ Top.op \in VaultOp
      /\ Top = stack[1] /\ Len(stack) = 1 /\ stack \in Seq(Frame)
  BY VaultProgress, InProgress
<1>3. PICK g \in VaultFrame : ReplaceTop(g) /\ g.pc = "ready"
  BY VaultProgress
<1>4. stack' # <<>> /\ stack'[1] = g
  BY <1>2, <1>3, Replaced DEF Frame
<1>5. PICK c \in Call : c = Top.calls[1]
  BY NextCall
<1>6. /\ FieldsOK /\ Top.caller \in Holder /\ Top.caller # Self /\ Top.to \in Holder
      /\ Self \in Holder /\ c.moves \in [Asset -> Int] /\ c.moves[a] \in Nat
  BY NextCall, FieldsOfCurrent, AccountsAssumption DEF IInv, TypeOK, Call, Holder
<1>7. Locks(a)' = Locks(a) /\ Held(indexed', a) = Held(indexed, a)
  BY VaultLocks DEF CallReturns, vaultVars
<1>8. Top.pc = "calling" /\ Top.op \in {"store", "withdraw", "destroy"}
  BY DEF CallReturns, At
<1>9. /\ Underway(Paying, a)' = 0 /\ Underway(Storing, a)' = 0
      /\ Underway(Paying, a) = IF Top.op \in Paying THEN c.moves[a] ELSE 0
      /\ Underway(Storing, a) = IF Top.op \in Storing THEN c.moves[a] ELSE 0
  BY <1>1, <1>2, <1>3, <1>4, <1>5, <1>8 DEF UnderwayTold, InFlight
<1>10. CASE Top.op = "store"
  <2>1. bank' = Moved(bank, Top.caller, Self, c.moves)
    BY <1>5, <1>10 DEF CallReturns
  <2>2. Shifted(bank', bank, Top.caller, Self, c.moves)
    BY <1>6, <2>1, MovedTo DEF FieldsOK
  <2>3. bank'[a][Self] = bank[a][Self] + c.moves[a]
    BY <1>6, <2>2 DEF Shifted
  <2> QED
    BY <1>1, <1>6, <1>7, <1>9, <1>10, <2>3 DEF Amounts, Paying, Storing
<1>11. CASE Top.op # "store"
  <2>1. bank' = Moved(bank, Self, Top.to, c.moves)
    BY <1>5, <1>11 DEF CallReturns
  <2>2. Shifted(bank', bank, Self, Top.to, c.moves)
    BY <1>6, <2>1, MovedTo DEF FieldsOK
  <2>3. Top.op \in Paying /\ Top.op \notin Storing
    BY <1>8, <1>11 DEF Paying, Storing
  <2>4. CASE Top.to = Self
    <3>1. bank'[a][Self] = bank[a][Self]
      BY <1>6, <2>2, <2>4 DEF Shifted
    <3>2. ~NoGifts
      <4>1. c.kind # "eth"
        BY <1>5, <2>4, <1>11 DEF CallReturns
      <4>2. NoGifts => c.kind = "eth"
        BY <1>2, <1>5, <1>8, <1>11, <2>4 DEF StrandedInv, PaysOthers
      <4> QED
        BY <4>1, <4>2
    <3> QED
      BY <1>1, <1>6, <1>7, <1>9, <2>3, <3>1, <3>2 DEF Amounts
  <2>5. CASE Top.to # Self
    <3>1. bank'[a][Self] = bank[a][Self] - c.moves[a]
      BY <1>6, <2>2, <2>5 DEF Shifted
    <3> QED
      BY <1>1, <1>6, <1>7, <1>9, <2>3, <3>1 DEF Amounts
  <2> QED
    BY <2>4, <2>5
<1> QED
  BY <1>10, <1>11

\* What leaves one box arrives in the other. Writing 1 over an NFT that is
\* there already would lose one, but one NFT is never in two boxes.
LEMMA MoveBalanced ==
  ASSUME IInv, IInv', RightsInv, CustodyInv, MoveBetweenBoxes
  PROVE  Balanced
<1> SUFFICES ASSUME NEW a \in Asset
             PROVE  /\ Claims(a)' + Covers(a) <= Claims(a) + Covers(a)'
                    /\ NoGifts => Claims(a)' + Covers(a) = Claims(a) + Covers(a)'
  BY DEF Balanced
<1>1. Amounts(a) /\ Amounts(a)' /\ UnderwayTold /\ UnderwayTold'
  BY AmountsOK, AmountsNext, UnderwayIs, UnderwayNext DEF AllAmounts
<1>2. /\ stack # <<>> /\ Top.op \in VaultOp
      /\ Top = stack[1] /\ Len(stack) = 1 /\ stack \in Seq(Frame)
  BY VaultProgress, InProgress
<1>3. PICK g \in VaultFrame : ReplaceTop(g) /\ g.op = Top.op /\ g.pc = "ready"
  BY VaultProgress
<1>4. stack' # <<>> /\ stack'[1] = g
  BY <1>2, <1>3, Replaced DEF Frame
<1>5. PICK c \in Call : c = Top.calls[1]
  BY NextCall
<1>6. /\ Top.calls \in Seq(Call) /\ Top.calls # <<>> /\ Top.box \in Box
      /\ Top.dest \in Box
  BY NextCall
<1>7. FieldsOK
  BY FieldsOfCurrent DEF IInv, TypeOK
<1>8. Locks(a)' = Locks(a) /\ bank'[a][Self] = bank[a][Self]
  BY VaultLocks DEF MoveBetweenBoxes
<1>9. Top.pc = "ready"
  BY DEF MoveBetweenBoxes, At
<1>10. /\ Underway(Paying, a) = 0 /\ Underway(Storing, a) = 0
       /\ Underway(Paying, a)' = 0 /\ Underway(Storing, a)' = 0
  BY <1>1, <1>2, <1>3, <1>4, <1>9 DEF UnderwayTold, InFlight
<1>11. PICK src \in Box, dest \in Box : src = Top.box /\ dest = Top.dest
  BY <1>6
<1>12. PICK l : l = Debit(indexed, src, c)
  OBVIOUS
<1>13. InBox(src, c) /\ indexed' = Arrived(l, dest, c)
  BY <1>5, <1>11, <1>12 DEF MoveBetweenBoxes
<1>14. \A d \in Asset : c.moves[d] \in Nat /\ c.moves[d] <= indexed[src][d]
  BY <1>7, <1>13, InBoxEnough DEF FieldsOK
<1>15. /\ l \in [Box -> [Asset -> Nat]]
       /\ Held(l, a) = Held(indexed, a) - c.moves[a]
  BY <1>7, <1>12, <1>14, DebitHeld DEF FieldsOK
<1>16. CASE c.kind # "erc721" \/ c.moves[a] = 0
  <2>1. Held(indexed', a) = Held(l, a) + c.moves[a]
    BY <1>13, <1>15, <1>16, ArrivedHeld
  <2>2. Held(indexed', a) = Held(indexed, a)
    BY <1>1, <1>14, <1>15, <2>1 DEF Amounts
  <2> QED
    BY <1>8, <1>10, <2>2, SameBooks
<1>17. CASE c.kind = "erc721" /\ c.moves[a] # 0
  <2>1. Held(indexed', a) + l[dest][a] = Held(l, a) + 1
    BY <1>13, <1>15, <1>17, ArrivedHeld
  <2>2. c.moves[a] = 1
    BY <1>17, OneUnit
  <2>3. l[dest][a] \in Nat
    BY <1>15
  <2>4. Held(indexed', a) + l[dest][a] = Held(indexed, a)
    BY <1>1, <1>15, <2>1, <2>2, <2>3 DEF Amounts
  <2>5. ASSUME NoGifts PROVE l[dest][a] = 0
    <3>1. Implemented(c)
      <4>1. 1 \in DOMAIN Top.calls
        BY <1>6, EmptySeq, LenProperties
      <4> QED
        BY <1>2, <1>5, <2>5, <4>1
        DEF NoGifts, RightsInv, ActsByRight, WellAddressed
    <3>2. Kind[a] = "erc721"
      BY <1>17, <3>1 DEF Implemented
    <3>3. indexed[src][a] = 1
      BY <1>13, <1>17 DEF InBox
    <3>4. Held(indexed, a) <= 1
      <4>1. bank[a][Self] <= 1
        BY <3>2 DEF CustodyInv, OneHolder, Holder
      <4>2. Claims(a) <= Covers(a)
        BY DEF CustodyInv
      <4> QED
        BY <1>1, <1>10, <4>1, <4>2 DEF Amounts
    <3>5. CASE dest = src
      <4>1. l[src][a] = indexed[src][a] - c.moves[a]
        BY <1>7, <1>12, Written DEF FieldsOK
      <4> QED
        BY <2>2, <3>3, <3>5, <4>1
    <3>6. CASE dest # src
      <4>1. indexed[src][a] + indexed[dest][a] <= Held(indexed, a)
        BY <1>7, <3>6, HeldBounds DEF FieldsOK
      <4>2. l[dest] = indexed[dest]
        BY <1>7, <1>12, <1>13, <3>6, DebitType DEF FieldsOK
      <4> QED
        BY <1>1, <2>3, <3>3, <3>4, <4>1, <4>2 DEF Amounts
    <3> QED
      BY <3>5, <3>6
  <2> QED
    BY <1>1, <1>8, <1>10, <2>3, <2>4, <2>5 DEF Amounts
<1> QED
  BY <1>16, <1>17

\* A destruction has paid out the contents when the lock's turn comes, and
\* the others have nothing under way when they return.
LEMMA QuietEndsBalanced ==
  ASSUME IInv, IInv', BeginUnlock \/ FinishVault
  PROVE  Balanced
<1> SUFFICES ASSUME NEW a \in Asset
             PROVE  /\ Claims(a)' + Covers(a) <= Claims(a) + Covers(a)'
                    /\ NoGifts => Claims(a)' + Covers(a) = Claims(a) + Covers(a)'
  BY DEF Balanced
<1>1. UnderwayTold /\ UnderwayTold'
  BY UnderwayIs, UnderwayNext
<1>2. /\ stack # <<>> /\ Top.op \in VaultOp /\ Top.pc = "ready"
      /\ indexed' = indexed /\ bank' = bank
  BY DEF BeginUnlock, FinishVault, At, VaultOp, vaultVars
<1>3. /\ Top = stack[1] /\ Len(stack) = 1 /\ stack \in Seq(Frame)
      /\ Top.op \notin MintOp
  BY <1>2, InProgress
<1>4. CASE BeginUnlock
  <2>1. PICK g \in VaultFrame : ReplaceTop(g) /\ g.pc = "releasing"
    BY <1>4, VaultProgress
  <2>2. stack' # <<>> /\ stack'[1] = g
    BY <1>3, <2>1, Replaced DEF Frame
  <2>3. /\ Underway(Paying, a)' = Underway(Paying, a)
        /\ Underway(Storing, a)' = Underway(Storing, a)
    BY <1>1, <1>2, <1>3, <2>1, <2>2 DEF UnderwayTold, InFlight
  <2>4. Locks(a)' = Locks(a)
    BY <1>4, VaultLocks
  <2> QED
    BY <1>2, <2>3, <2>4, SameBooks
<1>5. CASE FinishVault
  <2>1. stack' = <<>> /\ Unfinished' = {}
    BY <1>2, <1>5, NothingUnfinished DEF FinishVault, Return
  <2>2. /\ Underway(Paying, a)' = Underway(Paying, a)
        /\ Underway(Storing, a)' = Underway(Storing, a)
    BY <1>1, <1>2, <1>3, <2>1 DEF UnderwayTold, InFlight
  <2>3. Unlocked = destroyedBoxes /\ Unlocked' = destroyedBoxes
    <3>1. Unfinished = {} /\ stack[1].op # "destroy"
      BY <1>3, <1>5 DEF Unfinished, FinishVault, At
    <3> QED
      BY <1>5, <2>1, <3>1 DEF Unlocked, FinishVault, vaultVars
  <2>4. Locks(a)' = Locks(a)
    BY <1>5, <2>3, DuesSame DEF FinishVault, nftVars, typeVars
  <2> QED
    BY <1>2, <2>2, <2>4, SameBooks
<1> QED
  BY <1>4, <1>5

\* The lock that is paid back is the one the box was owed.
LEMMA UnlockBalanced ==
  ASSUME IInv, IInv', StrandedInv, _unlockMint
  PROVE  Balanced
<1> SUFFICES ASSUME NEW a \in Asset
             PROVE  /\ Claims(a)' + Covers(a) <= Claims(a) + Covers(a)'
                    /\ NoGifts => Claims(a)' + Covers(a) = Claims(a) + Covers(a)'
  BY DEF Balanced
<1>1. Amounts(a) /\ Amounts(a)' /\ UnderwayTold /\ UnderwayTold'
  BY AmountsOK, AmountsNext, UnderwayIs, UnderwayNext DEF AllAmounts
<1>2. /\ stack # <<>> /\ Top.op = "destroy" /\ Top.pc = "releasing"
      /\ UNCHANGED <<nftVars, typeVars, vaultVars>>
  BY DEF _unlockMint, At
<1>3. /\ Top = stack[1] /\ Top \in VaultFrame /\ FrameOK(Top) /\ Top.op \notin MintOp
      /\ Top.box \in Box /\ Top.to \in Holder
  BY <1>2, InProgress DEF VaultFrame, VaultOp
<1>4. stack' = <<>> /\ Unfinished' = {}
  BY <1>2, NothingUnfinished DEF _unlockMint, Return
<1>5. FieldsOK /\ FieldsOK'
  BY FieldsOfCurrent, FieldsOfCurrentNext DEF IInv, TypeOK
<1>6. PICK b \in Box : b = Top.box
  BY <1>3
<1>6a. PICK t : t = types[tokenTypes[b]]
  OBVIOUS
<1>7. PICK lock : lock = Only(t.lockToken, t.lockAmount)
  OBVIOUS
<1>8. lock \in [Asset -> Nat] /\ lock \in [Asset -> Int] /\ lock[a] \in Nat
  <2>1. t.lockAmount \in Nat
    BY <1>5, <1>6a DEF FieldsOK, TypeInfo
  <2>2. lock \in [Asset -> Nat]
    BY <1>7, <2>1, OnlyType
  <2> QED
    BY <2>2
<1>9. Unlocked = destroyedBoxes \ {b} /\ Unlocked' = destroyedBoxes
  BY <1>2, <1>3, <1>4, <1>6 DEF Unlocked, Unfinished, vaultVars
<1>10. b \in destroyedBoxes /\ owner[b] # Nobody
  BY <1>2, <1>3, <1>6 DEF FrameOK, DestroysByRight, TargetsExist, VaultOp
<1>11. Due(b, a) = lock[a] /\ Due(b, a)' = 0
  BY <1>6, <1>6a, <1>7, <1>9, <1>10 DEF Due
<1>12. \A c \in Box \ {b} : Due(c, a)' = Due(c, a)
  BY <1>2, <1>9 DEF Due, nftVars, typeVars
<1>13. Locks(a)' + lock[a] = Locks(a)
  <2>1. Dues(a) \in [Box -> Nat] /\ Dues(a)' \in [Box -> Nat]
    <3>1. FieldsOK => Dues(a) \in [Box -> Nat]
      BY DueType
    <3>2. (FieldsOK => Dues(a) \in [Box -> Nat])'
      <4>1. ASSUME NEW c \in Box PROVE Due(c, a)' \in Nat
        <5>1. types'[tokenTypes'[c]].lockAmount \in Nat
          BY <1>5 DEF FieldsOK, TypeInfo
        <5> QED
          BY <5>1 DEF Due, Only
      <4> QED
        BY <4>1 DEF Dues
    <3> QED
      BY <1>5, <3>1, <3>2
  <2>2. PICK f, g : f = Dues(a) /\ g = Dues(a)'
    OBVIOUS
  <2>3. /\ f \in [Box -> Nat] /\ g \in [Box -> Nat]
        /\ f[b] = lock[a] /\ g[b] = 0
        /\ \A c \in Box \ {b} : f[c] = g[c]
    BY <1>11, <1>12, <2>1, <2>2 DEF Dues
  <2>4. SumFunctionOnSet(g, Box) + f[b] = SumFunctionOnSet(f, Box) + g[b]
    <3>1. \A y \in Box : f[y] \in Nat /\ g[y] \in Nat
      BY <2>3
    <3>2. \A y \in Box \ {b} : f[y] = g[y]
      BY <2>3
    <3>3. IsFiniteSet(Box)
      BY IdsAssumption
    <3> QED
      BY <3>1, <3>2, <3>3, SumOneChanged
  <2>5. Locks(a) = SumFunctionOnSet(f, Box) /\ Locks(a)' = SumFunctionOnSet(g, Box)
    BY <2>2, <2>3, SumOfBoxes DEF Locks
  <2> QED
    BY <1>1, <1>8, <2>3, <2>4, <2>5 DEF Amounts
<1>14. Held(indexed', a) = Held(indexed, a)
  BY <1>2 DEF vaultVars
<1>15. /\ Underway(Paying, a)' = Underway(Paying, a)
       /\ Underway(Storing, a)' = Underway(Storing, a)
  BY <1>1, <1>2, <1>3, <1>4 DEF UnderwayTold, InFlight
<1>16. /\ Top.to = Self => bank'[a][Self] = bank[a][Self]
       /\ Top.to # Self => bank'[a][Self] = bank[a][Self] - lock[a]
  <2>1. bank' = Moved(bank, Self, Top.to, lock) /\ Self \in Holder
    BY <1>6, <1>6a, <1>7 DEF _unlockMint, Holder
  <2>2. Shifted(bank', bank, Self, Top.to, lock)
    BY <1>3, <1>5, <1>8, <2>1, MovedTo DEF FieldsOK
  <2> QED
    BY <2>1, <2>2 DEF Shifted
<1>17. NoGifts => Top.to # Self
  BY <1>2, <1>3 DEF StrandedInv, PaysOthers
<1> QED
  BY <1>1, <1>8, <1>13, <1>14, <1>15, <1>16, <1>17 DEF Amounts

\* What a mint that returns finds: as many boxes as recipients, all new, each
\* of its type, for each of which it locks the amount of that type.
LEMMA MintReturns ==
  ASSUME IInv, MintInv, FinishMint, NEW n, n = Len(Top.to),
         NEW t, t = types[Top.type], NEW M, M = MintedBy(Top)
  PROVE  /\ stack # <<>> /\ stack' = <<>> /\ Unfinished' = {}
         /\ Top.op \in MintOp /\ Top.pc = "locking"
         /\ UNCHANGED <<nftVars, typeVars, vaultVars>>
         /\ Top = stack[1] /\ Top \in MintFrame /\ Top.pre \in Storage
         /\ FrameOK(Top) /\ MintUnderWay(Top) /\ Top.op # "destroy"
         /\ Top.caller \in Holder /\ Top.caller # Self /\ Self \in Holder
         /\ t.lockAmount \in Nat /\ n \in Nat /\ n = Len(Top.minted)
         /\ IsFiniteSet(M) /\ Cardinality(M) = n /\ M \in SUBSET Box
         /\ \A b \in M : /\ b \notin destroyedBoxes /\ owner[b] # Nobody
                         /\ tokenTypes[b] = Top.type /\ Top.pre.owner[b] = Nobody
         /\ MintLock(Top.type, n) \in [Asset -> Int]
         /\ \A a \in Asset :
               /\ Only(t.lockToken, t.lockAmount)[a] \in Nat
               /\ MintLock(Top.type, n)[a] = Only(t.lockToken, t.lockAmount)[a] * n
<1>1. /\ stack # <<>> /\ Top.op \in MintOp /\ Top.pc = "locking"
      /\ UNCHANGED <<nftVars, typeVars, vaultVars>>
  BY DEF FinishMint, At
<1>2. /\ Top = stack[1] /\ Top \in MintFrame /\ FrameOK(Top) /\ Top.op # "destroy"
      /\ Top.caller \in Holder /\ Top.caller # Self /\ Self \in Holder
      /\ Top.type \in TypeId /\ MintUnderWay(Top) /\ Top.pre \in Storage
  BY <1>1, InProgress, AccountsAssumption
  DEF MintFrame, MintOp, Holder, MintInv, MintsInOrder
<1>3. stack' = <<>> /\ Unfinished' = {}
  BY <1>1, NothingUnfinished DEF FinishMint, Return
<1>4. FieldsOK
  BY FieldsOfCurrent DEF IInv, TypeOK
<1>5. t.lockAmount \in Nat /\ n \in Nat /\ n = Len(Top.minted)
  <2>1. t.lockAmount \in Nat
    BY <1>2, <1>4 DEF FieldsOK, TypeInfo
  <2>2. n \in Nat
    BY <1>2, LenProperties DEF MintFrame
  <2> QED
    BY <1>1, <1>2, <2>1, <2>2 DEF MintUnderWay
<1>6. IsFiniteSet(M) /\ Cardinality(M) = n /\ M \in SUBSET Box
  <2>1. PICK h : h = Top.minted
    OBVIOUS
  <2>2. /\ DOMAIN h = 1 .. n /\ \A i \in 1 .. n : h[i] \in Box
        /\ M = {h[i] : i \in 1 .. n}
    BY <1>2, <1>5, <2>1, MintedElements DEF MintedBy
  <2>3. \A i, j \in 1 .. n : h[i] = h[j] => i = j
    BY <1>2, <2>1, <2>2 DEF MintUnderWay
  <2>4. \A x : x \in M <=> \E i \in 1 .. n : x = h[i]
    BY <2>2
  <2>5. IsFiniteSet(M) /\ Cardinality(M) = n
    BY <1>5, <2>3, <2>4, CountList
  <2> QED
    BY <2>2, <2>5
<1>7. ASSUME NEW b \in M
      PROVE  /\ b \notin destroyedBoxes /\ owner[b] # Nobody
             /\ tokenTypes[b] = Top.type /\ Top.pre.owner[b] = Nobody
  <2>1. PICK i \in DOMAIN Top.minted : b = Top.minted[i]
    BY DEF MintedBy
  <2>2. Top.pre.owner[b] = Nobody /\ tokenTypes[b] = Top.type
    BY <1>1, <1>2, <2>1 DEF MintUnderWay
  <2>3. b \notin destroyedBoxes
    BY <1>2, <1>6, <2>2 DEF FrameOK, Fresh, DestroysByRight
  <2> QED
    BY <1>1, <1>2, <2>2, <2>3 DEF FrameOK, TargetsExist
<1>8. t.lockAmount * n \in Nat
  BY <1>5
<1>9. MintLock(Top.type, n) = Only(t.lockToken, t.lockAmount * n)
  BY DEF MintLock
<1>10. ASSUME NEW a \in Asset
       PROVE  /\ Only(t.lockToken, t.lockAmount)[a] \in Nat
              /\ MintLock(Top.type, n)[a] = Only(t.lockToken, t.lockAmount)[a] * n
  <2>1. CASE a = t.lockToken
    BY <1>5, <1>8, <1>9, <2>1 DEF Only
  <2>2. CASE a # t.lockToken
    BY <1>5, <1>8, <1>9, <2>2 DEF Only
  <2> QED
    BY <2>1, <2>2
<1>11. MintLock(Top.type, n) \in [Asset -> Int]
  BY <1>8, <1>9 DEF Only
<1> QED
  BY <1>1, <1>2, <1>3, <1>5, <1>6, <1>7, <1>10, <1>11

\* The minter pays the lock of each new box.
LEMMA FinishMintBalanced ==
  ASSUME IInv, IInv', MintInv, FinishMint
  PROVE  Balanced
<1> SUFFICES ASSUME NEW a \in Asset
             PROVE  /\ Claims(a)' + Covers(a) <= Claims(a) + Covers(a)'
                    /\ NoGifts => Claims(a)' + Covers(a) = Claims(a) + Covers(a)'
  BY DEF Balanced
<1>1. Amounts(a) /\ Amounts(a)' /\ UnderwayTold /\ UnderwayTold'
  BY AmountsOK, AmountsNext, UnderwayIs, UnderwayNext DEF AllAmounts
<1>2. FieldsOK
  BY FieldsOfCurrent DEF IInv, TypeOK
<1>3. PICK n, t, M, k : /\ n = Len(Top.to) /\ t = types[Top.type] /\ M = MintedBy(Top)
                        /\ k = Only(t.lockToken, t.lockAmount)[a]
  OBVIOUS
<1>4. /\ stack # <<>> /\ Top.op \in MintOp /\ Top.pc = "locking"
      /\ UNCHANGED <<nftVars, typeVars, vaultVars>>
  BY <1>3, MintReturns
<1>5. /\ Top = stack[1] /\ Top.op # "destroy"
      /\ Top.caller \in Holder /\ Top.caller # Self /\ Self \in Holder
  BY <1>3, MintReturns
<1>6. stack' = <<>> /\ Unfinished' = {}
  BY <1>3, MintReturns
<1>7. n \in Nat /\ IsFiniteSet(M) /\ Cardinality(M) = n /\ M \in SUBSET Box
  BY <1>3, MintReturns
<1>8. Unlocked = M \cup destroyedBoxes /\ Unlocked' = destroyedBoxes
  BY <1>4, <1>5, <1>6, <1>3 DEF Unlocked, Unfinished, vaultVars
<1>9. \A b \in M : b \notin destroyedBoxes /\ owner[b] # Nobody /\ tokenTypes[b] = Top.type
  BY <1>3, MintReturns
<1>10. k \in Nat /\ MintLock(Top.type, n)[a] = k * n /\ MintLock(Top.type, n) \in [Asset -> Int]
  BY <1>3, MintReturns
<1>11. \A b \in M : Due(b, a) = 0 /\ Due(b, a)' = k
  BY <1>4, <1>3, <1>8, <1>9 DEF Due, nftVars, typeVars
<1>12. \A b \in Box \ M : Due(b, a)' = Due(b, a)
  BY <1>4, <1>8 DEF Due, nftVars, typeVars
<1>13. Locks(a)' = Locks(a) + k * n
  <2>1. PICK f, g : f = Dues(a) /\ g = Dues(a)'
    OBVIOUS
  <2>2. f \in [Box -> Nat]
    BY <1>2, <2>1, DueType
  <2>3. ASSUME NEW b \in Box
        PROVE  /\ f[b] \in Nat /\ g[b] \in Nat
               /\ b \in M => g[b] = f[b] + k
               /\ b \notin M => g[b] = f[b]
    <3>1. f[b] = Due(b, a) /\ g[b] = Due(b, a)' /\ f[b] \in Nat
      BY <2>1, <2>2 DEF Dues
    <3>2. CASE b \in M
      BY <1>10, <1>11, <3>1, <3>2
    <3>3. CASE b \notin M
      BY <1>12, <3>1, <3>3
    <3> QED
      BY <3>2, <3>3
  <2>4. g \in [Box -> Nat]
    <3>1. g = [b \in Box |-> Due(b, a)']
      BY <2>1 DEF Dues
    <3>2. \A b \in Box : Due(b, a)' \in Nat
      BY <2>3, <3>1
    <3> QED
      BY <3>1, <3>2
  <2>5. SumFunctionOnSet(g, Box) = SumFunctionOnSet(f, Box) + k * Cardinality(M)
    <3>1. \A x \in Box : f[x] \in Nat /\ g[x] \in Nat
      BY <2>3
    <3>2. \A x \in M : g[x] = f[x] + k
      BY <1>7, <2>3
    <3>3. \A x \in Box \ M : g[x] = f[x]
      BY <2>3
    <3>4. IsFiniteSet(Box) /\ M \in SUBSET Box /\ k \in Nat
      BY <1>7, <1>10, IdsAssumption
    <3> QED
      BY <3>1, <3>2, <3>3, <3>4, SumAddedOn
  <2>6. Locks(a) = SumFunctionOnSet(f, Box) /\ Locks(a)' = SumFunctionOnSet(g, Box)
    BY <2>1, <2>2, <2>4, SumOfBoxes DEF Locks
  <2> QED
    BY <1>7, <2>5, <2>6
<1>14. Held(indexed', a) = Held(indexed, a)
  BY <1>4 DEF vaultVars
<1>15. /\ Underway(Paying, a)' = Underway(Paying, a)
       /\ Underway(Storing, a)' = Underway(Storing, a)
  BY <1>1, <1>4, <1>5, <1>6 DEF UnderwayTold, InFlight
<1>16. bank'[a][Self] = bank[a][Self] + k * n
  <2>1. bank' = Moved(bank, Top.caller, Self, MintLock(Top.type, n))
    BY <1>3 DEF FinishMint
  <2>2. Shifted(bank', bank, Top.caller, Self, MintLock(Top.type, n))
    BY <1>5, <1>2, <1>10, <2>1, MovedTo DEF FieldsOK
  <2>3. bank'[a][Self] = bank[a][Self] + MintLock(Top.type, n)[a]
    BY <1>5, <2>2 DEF Shifted
  <2> QED
    BY <1>10, <2>3
<1>17. PICK w \in Nat : w = k * n
  BY <1>7, <1>10
<1> QED
  BY <1>1, <1>13, <1>14, <1>15, <1>16, <1>17 DEF Amounts

\* Every step but a revert balances.
LEMMA NextBalanced ==
  ASSUME IInv, IInv', RightsInv, MintInv, CustodyInv, StrandedInv, [Next]_vars, ~Revert
  PROVE  Balanced
<1>1. CASE \/ UnguardedCall \/ Tick \/ UNCHANGED vars
           \/ \E x \in Account, a \in Donations : Donate(x, a)
  BY <1>1, QuietStep, QuietBalanced
<1>2. CASE MintCall \/ VaultCall
  BY <1>2, EntriesBalanced
<1>3. CASE MintStep
  BY <1>3, MintGoesOnBalanced, FinishMintBalanced DEF MintStep
<1>4. CASE VaultStep
  BY <1>4, LoopBalanced, CallReturnsBalanced, MoveBalanced, QuietEndsBalanced,
     UnlockBalanced
  DEF VaultStep
<1> QED
  BY <1>1, <1>2, <1>3, <1>4 DEF Next, TransactionStep

-----------------------------------------------------------------------------
(* Custody: the invariants *)

\* What the books say holds of what is committed whenever a transaction ends.
LEMMA BooksKept ==
  ASSUME IInv, IInv', RightsInv, MintInv, CustodyInv, StrandedInv, [Next]_vars
  PROVE  /\ AllCovered' /\ Solvent'
         /\ NoGifts => AllExact' /\ NothingStranded'
<1>1. AllCovered /\ Solvent /\ (NoGifts => AllExact /\ NothingStranded)
  BY DEF CustodyInv, StrandedInv, AllCovered, AllExact
<1>2. SettledBooks'
  BY SettledNext
<1>3. ASSUME Committed' = Committed
      PROVE  Solvent' /\ (NoGifts => NothingStranded')
  BY <1>1, <1>3 DEF Solvent, NothingStranded, HeldIn, LocksIn, LockOwedTo
<1>4. CASE Revert
  <2>1. stack # <<>> /\ Pop
    BY <1>4 DEF Revert
  <2>2. stack' = <<>> /\ Top = stack[1] /\ Top.pre \in Storage
    BY <2>1, InProgress, NothingUnfinished
  <2>3. Current' = Top.pre
    BY <1>4, <2>2 DEF Revert, Restore, Current, Storage
  <2>4. Committed' = Committed
    BY <2>1, <2>2, <2>3 DEF Committed
  <2> QED
    BY <1>2, <1>3, <2>2, <2>4 DEF SettledBooks
<1>5. CASE ~Revert
  <2>1. AllCovered' /\ (NoGifts => AllExact')
    BY <1>1, <1>5, NextBalanced, BalancedKeeps
  <2>2. Committed' = Committed \/ stack' = <<>>
    <3>1. ASSUME FinishMint \/ FinishVault \/ _unlockMint PROVE stack' = <<>>
      <4>1. stack # <<>> /\ Pop
        BY <3>1 DEF FinishMint, FinishVault, _unlockMint, At, Return
      <4> QED
        BY <4>1, NothingUnfinished
    <3> QED
      BY <3>1, CommittingStep DEF Quiet
  <2> QED
    BY <1>2, <1>3, <2>1, <2>2 DEF SettledBooks
<1> QED
  BY <1>4, <1>5

\* Balances change by a transfer its payer can afford, or are put back.
LEMMA BankSteps ==
  ASSUME IInv, [Next]_vars
  PROVE  \/ bank' = bank
         \/ \E x \in Holder, y \in Holder, m \in [Asset -> Nat] :
               Affords(x, m) /\ bank' = Moved(bank, x, y, m)
         \/ Revert /\ stack # <<>> /\ Top = stack[1] /\ bank' = Top.pre.bank
<1>1. \A x \in Account : x \in Holder
  BY DEF Holder
<1>2. Self \in Holder
  BY DEF Holder
<1>3. FieldsOK
  BY FieldsOfCurrent DEF IInv, TypeOK
<1>4. ASSUME NEW x \in Account, NEW d \in Donations, Donate(x, d)
      PROVE  \E y \in Holder, m \in [Asset -> Nat] :
                Affords(x, m) /\ bank' = Moved(bank, x, y, m)
  <2>1. Only(d, 1) \in [Asset -> Nat]
    BY OnlyType
  <2> QED
    BY <1>2, <1>4, <2>1 DEF Donate
<1>5. CASE \/ UnguardedCall \/ Tick \/ UNCHANGED vars
           \/ \E x \in Account, defs \in TypeBatches : addTypes(x, defs)
           \/ \E x \in Account, a \in Donations : Donate(x, a)
  <2>1. Quiet
    BY <1>5, QuietStep
  <2> QED
    BY <1>1, <1>4, <2>1 DEF Quiet
<1>6. CASE MintCall
  BY <1>5, <1>6, MintEntry
<1>7. CASE VaultCall
  <2>1. PICK f \in VaultFrame, n \in Nat :
            /\ f.op # "store" => UNCHANGED <<indexed, bank>>
            /\ f.op = "store" =>
                  /\ Affords(f.caller, EthCall(n).moves)
                  /\ bank' = Moved(bank, f.caller, Self, EthCall(n).moves)
    BY <1>7, VaultEntry
  <2>2. f.caller \in Holder /\ EthCall(n).moves \in [Asset -> Nat]
    BY <1>1, OnlyType DEF VaultFrame, EthCall
  <2> QED
    BY <1>2, <2>1, <2>2
<1>8. CASE CallReturns
  <2>1. PICK c \in Call : c = Top.calls[1]
    BY <1>8, NextCall
  <2>2. Top.caller \in Holder /\ Top.to \in Holder /\ c.moves \in [Asset -> Nat]
    BY <1>1, <1>8, NextCall DEF Call
  <2>3. PICK x \in Holder, y \in Holder :
          Affords(x, c.moves) /\ bank' = Moved(bank, x, y, c.moves)
    BY <1>2, <1>8, <2>1, <2>2 DEF CallReturns
  <2> QED
    BY <2>2, <2>3
<1>9. CASE FinishMint
  <2>1. stack # <<>> /\ Top.op \in MintOp
    BY <1>9 DEF FinishMint, At
  <2>2. Top.caller \in Holder /\ Top.type \in TypeId /\ Len(Top.to) \in Nat
    BY <1>1, <2>1, InProgress, LenProperties DEF MintFrame
  <2>3. types[Top.type].lockAmount \in Nat
    BY <1>3, <2>2 DEF FieldsOK, TypeInfo
  <2>4. PICK m : m = MintLock(Top.type, Len(Top.to))
    OBVIOUS
  <2>5. m \in [Asset -> Nat]
    <3>1. types[Top.type].lockAmount * Len(Top.to) \in Nat
      BY <2>2, <2>3
    <3> QED
      BY <2>4, <3>1, OnlyType DEF MintLock
  <2>6. Affords(Top.caller, m) /\ bank' = Moved(bank, Top.caller, Self, m)
    BY <1>9, <2>4 DEF FinishMint
  <2> QED
    BY <1>2, <2>2, <2>5, <2>6
<1>10. CASE _unlockMint
  <2>1. stack # <<>> /\ Top.op \in VaultOp
    BY <1>10 DEF _unlockMint, At, VaultOp
  <2>2. Top.to \in Holder /\ Top.box \in Box
    BY <2>1, InProgress DEF VaultFrame
  <2>3. PICK m : m = Only(types[tokenTypes[Top.box]].lockToken,
                          types[tokenTypes[Top.box]].lockAmount)
    OBVIOUS
  <2>4. m \in [Asset -> Nat]
    <3>1. types[tokenTypes[Top.box]].lockAmount \in Nat
      BY <1>3, <2>2 DEF FieldsOK, TypeInfo
    <3> QED
      BY <2>3, <3>1, OnlyType
  <2>5. Affords(Self, m) /\ bank' = Moved(bank, Self, Top.to, m)
    BY <1>10, <2>3 DEF _unlockMint
  <2> QED
    BY <1>2, <2>2, <2>4, <2>5
<1>11. CASE Revert
  BY <1>11, InProgress DEF Revert, Restore
<1>12. CASE \/ RecipientAccepts \/ \E b \in Box : MintNext(b)
            \/ CreditBox \/ DebitBox \/ MoveBetweenBoxes \/ FinishVault \/ BeginUnlock
  BY <1>12
  DEF RecipientAccepts, MintNext, CreditBox, DebitBox, MoveBetweenBoxes,
      FinishVault, BeginUnlock
<1> QED
  BY <1>5, <1>6, <1>7, <1>8, <1>9, <1>10, <1>11, <1>12
  DEF Next, TransactionStep, MintStep, VaultStep

\* An NFT keeps having one holder.
LEMMA OneHolderKept ==
  ASSUME IInv, CustodyInv, [Next]_vars
  PROVE  OneHolder(bank')
<1>1. FieldsOK /\ OneHolder(bank)
  BY FieldsOfCurrent DEF IInv, TypeOK, CustodyInv
<1>2. ASSUME NEW x \in Holder, NEW y \in Holder, NEW m \in [Asset -> Nat],
             Affords(x, m), bank' = Moved(bank, x, y, m)
      PROVE  OneHolder(bank')
  <2>1. \A a \in Asset : m[a] <= bank[a][x]
    BY <1>2 DEF Affords
  <2>2. OneHolder(Moved(bank, x, y, m))
    BY <1>1, <2>1, MovedOneHolder DEF FieldsOK
  <2> QED
    BY <1>2, <2>2
<1>3. stack # <<>> /\ Top = stack[1] => OneHolder(Top.pre.bank)
  BY DEF CustodyInv
<1> QED
  BY <1>1, <1>2, <1>3, BankSteps

\* What the invariants say of the call in progress.
FrameCustody(f) ==
    /\ OneHolder(f.pre.bank) /\ PaidSoFar(f)
    /\ NoGifts => NotOwner(f.pre) /\ PaysOthers(f)

LEMMA FrameCustodyOf ==
  ASSUME CustodyInv, StrandedInv, stack # <<>>
  PROVE  FrameCustody(stack[1])
  BY DEF CustodyInv, StrandedInv, FrameCustody

\* Steps outside the functions pay nobody while one is in progress.
LEMMA QuietFrame ==
  ASSUME IInv, IInv', CustodyInv, StrandedInv, Quiet, NEW f, stack' # <<>>, stack'[1] = f
  PROVE  FrameCustody(f)'
<1>1. stack # <<>> /\ stack[1] = f /\ indexed' = indexed
  BY DEF Quiet, vaultVars
<1>2. bank' = bank
  BY <1>1 DEF Quiet
<1>3. FrameCustody(f)
  BY <1>1, FrameCustodyOf
<1>4. \A a \in Asset : Underway({"withdraw"}, a)' = Underway({"withdraw"}, a)
  <2>1. UnderwayTold /\ UnderwayTold'
    BY UnderwayIs, UnderwayNext
  <2> QED
    BY <1>1, <2>1 DEF UnderwayTold, Quiet
<1>5. PaidSoFar(f)'
  BY <1>1, <1>2, <1>3, <1>4 DEF FrameCustody, PaidSoFar
<1> QED
  BY <1>3, <1>5 DEF FrameCustody, OneHolder, NotOwner, PaysOthers, NoGifts, OwnStandard

\* A withdrawal that is entered has paid nothing, and its first payment is
\* one of ether.
LEMMA EnterFrame ==
  ASSUME IInv, IInv', CustodyInv, StrandedInv, NEW f \in Frame,
         f.pre = Current, f.pc = "ready", Enter(f), UNCHANGED <<nftVars, typeVars>>,
         f.op \in MintOp => f.minted = <<>>,
         f.op = "destroy" => f.box \notin destroyedBoxes,
         f.op \in VaultOp => f \in VaultFrame,
         f.op \in Paying => f.calls # <<>> /\ f.calls[1].kind = "eth",
         f.op # "store" => UNCHANGED <<indexed, bank>>
  PROVE  FrameCustody(f)'
<1>1. FieldsOK
  BY FieldsOfCurrent DEF IInv, TypeOK
<1>2. OneHolder(f.pre.bank) /\ (NoGifts => NotOwner(f.pre))
  BY DEF CustodyInv, StrandedInv, Current
<1>3. PaidSoFar(f)'
  <2> SUFFICES ASSUME f.op = "withdraw"
               PROVE  bank' = Moved(bank, Self, f.to,
                         [a \in Asset |-> indexed[f.box][a] - indexed'[f.box][a]
                                             - Underway({"withdraw"}, a)'])
    BY DEF PaidSoFar, Current
  <2>1. f.to \in Holder /\ f.box \in Box /\ Self \in Holder
    BY DEF VaultFrame, VaultOp, Holder
  <2>2. PICK m : m = [a \in Asset |-> indexed[f.box][a] - indexed'[f.box][a]
                                        - Underway({"withdraw"}, a)']
    OBVIOUS
  <2>3. \A a \in Asset : Underway({"withdraw"}, a)' = 0
    BY EnterLocks
  <2>4. \A a \in Asset : m[a] = 0
    <3> TAKE a \in Asset
    <3>1. indexed'[f.box][a] = indexed[f.box][a] /\ indexed[f.box][a] \in Nat
      BY <1>1, <2>1 DEF FieldsOK
    <3> QED
      BY <2>2, <2>3, <3>1
  <2>5. m \in [Asset -> Int]
    <3>1. \A a \in Asset : m[a] \in Int
      BY <2>4
    <3> QED
      BY <2>2, <3>1
  <2>6. Moved(bank, Self, f.to, m) = bank
    BY <1>1, <2>1, <2>4, <2>5, MovedNothing DEF FieldsOK
  <2> QED
    BY <2>2, <2>6
<1>4. PaysOthers(f)
  BY DEF PaysOthers, Paying
<1> QED
  BY <1>2, <1>3, <1>4 DEF FrameCustody, OneHolder, NotOwner, PaysOthers, NoGifts, OwnStandard

\* A mint pays no payee.
LEMMA MintFrameCustody ==
  ASSUME IInv, MintInv, CustodyInv, StrandedInv,
         RecipientAccepts \/ \E b \in Box : MintNext(b),
         NEW f, stack' # <<>>, stack'[1] = f
  PROVE  FrameCustody(f)'
<1>0. PICK n : n = Len(Top.minted)
  OBVIOUS
<1>1. stack # <<>> /\ Top.op \in MintOp
  BY <1>0, NextId, Accepted
<1>2. f \in MintFrame /\ f.op = Top.op /\ f.pre = Top.pre
  BY <1>0, NextId, Accepted
<1>3. Top = stack[1]
  BY <1>1, InProgress
<1>4. OneHolder(f.pre.bank) /\ (NoGifts => NotOwner(f.pre))
  BY <1>1, <1>2, <1>3 DEF CustodyInv, StrandedInv
<1>5. PaidSoFar(f)' /\ PaysOthers(f)
  BY <1>1, <1>2 DEF PaidSoFar, PaysOthers, MintOp, MintFrame
<1> QED
  BY <1>4, <1>5 DEF FrameCustody, OneHolder, NotOwner, PaysOthers, NoGifts, OwnStandard

\* A withdrawal pays what it takes from the box, and to the payee it was
\* given.
LEMMA VaultFrameCustody ==
  ASSUME IInv, IInv', CustodyInv, StrandedInv,
         CreditBox \/ DebitBox \/ MoveBetweenBoxes \/ CallReturns \/ BeginUnlock,
         NEW f, stack' # <<>>, stack'[1] = f
  PROVE  FrameCustody(f)'
<1>1. /\ stack # <<>> /\ Top.op \in VaultOp
      /\ Top = stack[1] /\ Len(stack) = 1 /\ stack \in Seq(Frame)
      /\ Top \in VaultFrame /\ Top.pre \in Storage
  BY VaultProgress, InProgress
<1>2. /\ f \in VaultFrame /\ f.op = Top.op /\ f.pre = Top.pre /\ f.box = Top.box
      /\ CreditBox \/ DebitBox =>
            f.pc = "calling" /\ f.to = Top.to /\ f.calls = Top.calls
      /\ MoveBetweenBoxes \/ CallReturns => f.pc = "ready" /\ f.to = Top.to
      /\ BeginUnlock => f.pc = "releasing" /\ f.to = owner[Top.box]
  <2>1. PICK g \in VaultFrame :
          /\ ReplaceTop(g)
          /\ g.op = Top.op /\ g.pre = Top.pre /\ g.box = Top.box
          /\ CreditBox \/ DebitBox =>
                g.pc = "calling" /\ g.to = Top.to /\ g.calls = Top.calls
          /\ MoveBetweenBoxes \/ CallReturns => g.pc = "ready" /\ g.to = Top.to
          /\ BeginUnlock => g.pc = "releasing" /\ g.to = owner[Top.box]
    BY VaultProgress
  <2>2. g = f
    BY <1>1, <2>1, Replaced DEF Frame
  <2> QED
    BY <2>1, <2>2
<1>3. FrameCustody(Top)
  BY <1>1, FrameCustodyOf
<1>4. FieldsOK /\ FieldsOK'
  BY FieldsOfCurrent, FieldsOfCurrentNext DEF IInv, TypeOK
<1>5. NoGifts => PaysOthers(f)
  <2> SUFFICES ASSUME NoGifts PROVE PaysOthers(f)
    OBVIOUS
  <2>1. PaysOthers(Top)
    BY <1>3 DEF FrameCustody
  <2>2. CASE CreditBox \/ DebitBox
    BY <1>2, <2>1, <2>2 DEF PaysOthers
  <2>3. CASE MoveBetweenBoxes
    BY <1>2, <2>3 DEF PaysOthers, MoveBetweenBoxes, At
  <2>4. CASE CallReturns
    <3>1. Top.op # "store" /\ Top.calls[1].kind = "eth" => Top.to # Self
      BY <2>4 DEF CallReturns
    <3> QED
      BY <1>2, <2>1, <2>4, <3>1 DEF PaysOthers
  <2>5. CASE BeginUnlock
    <3>1. owner[Top.box] # Self
      BY <1>1 DEF StrandedInv, NotOwner, Current, VaultFrame
    <3> QED
      BY <1>2, <2>5, <3>1 DEF PaysOthers
  <2> QED
    BY <2>2, <2>3, <2>4, <2>5
<1>6. PaidSoFar(f)'
  <2> SUFFICES ASSUME f.op = "withdraw" PROVE PaidSoFar(f)'
    BY DEF PaidSoFar
  <2>1. PICK b \in Box, to \in Holder, bk \in [Asset -> [Holder -> Nat]] :
          /\ b = Top.box /\ to = Top.to /\ bk = Top.pre.bank
    BY <1>1 DEF VaultFrame, Storage
  <2>2. f.to = to /\ (DebitBox \/ CallReturns)
    BY <1>2, <2>1 DEF CreditBox, DebitBox, MoveBetweenBoxes, CallReturns, BeginUnlock, At
  <2>3. PICK c \in Call : c = Top.calls[1]
    BY <2>2, NextCall
  <2>4. UnderwayTold /\ UnderwayTold'
    BY UnderwayIs, UnderwayNext
  <2>5. PICK pre \in [Asset -> Int] : pre = Top.pre.indexed[b]
    BY <1>1, <2>1 DEF Storage
  <2>6. PICK m : m = [a \in Asset |-> pre[a] - indexed[b][a] - Underway({"withdraw"}, a)]
    OBVIOUS
  <2>7. PICK k : k = [a \in Asset |-> pre[a] - indexed'[b][a] - Underway({"withdraw"}, a)']
    OBVIOUS
  <2>8. bank = Moved(bk, Self, to, m)
    BY <1>2, <1>3, <2>1, <2>5, <2>6 DEF FrameCustody, PaidSoFar
  <2>9. SUFFICES bank' = Moved(bk, Self, to, k)
    BY <1>2, <2>1, <2>2, <2>5, <2>7 DEF PaidSoFar
  <2>10. ASSUME NEW a \in Asset
         PROVE  /\ indexed[b][a] \in Nat /\ indexed'[b][a] \in Nat /\ c.moves[a] \in Nat
                /\ pre[a] \in Int
                /\ Underway({"withdraw"}, a) =
                      IF Top.pc = "calling" THEN c.moves[a] ELSE 0
                /\ Underway({"withdraw"}, a)' =
                      IF f.pc = "calling" THEN f.calls[1].moves[a] ELSE 0
    <3>1. indexed[b][a] \in Nat /\ indexed'[b][a] \in Nat /\ c.moves[a] \in Nat
      BY <1>4 DEF FieldsOK, Call
    <3>2. /\ Underway({"withdraw"}, a) = InFlight(Top, {"withdraw"}, a)
          /\ Underway({"withdraw"}, a)' = InFlight(f, {"withdraw"}, a)
      BY <1>1, <2>4 DEF UnderwayTold
    <3> QED
      BY <1>2, <2>3, <3>1, <3>2 DEF InFlight
  <2>11. CASE DebitBox
    <3>1. ASSUME NEW a \in Asset PROVE m[a] = k[a]
      <4>1. indexed' = Debit(indexed, b, c) /\ Top.pc = "ready" /\ f.pc = "calling"
        BY <1>2, <2>1, <2>3, <2>11 DEF DebitBox, At
      <4>2. indexed'[b][a] = indexed[b][a] - c.moves[a]
        BY <1>4, <4>1, Written DEF FieldsOK
      <4>3. Underway({"withdraw"}, a) = 0 /\ Underway({"withdraw"}, a)' = c.moves[a]
        BY <1>2, <2>3, <2>10, <2>11, <4>1
      <4>4. m[a] = pre[a] - indexed[b][a] - 0
        BY <2>6, <4>3
      <4>5. k[a] = pre[a] - indexed'[b][a] - c.moves[a]
        BY <2>7, <4>3
      <4>6. indexed[b][a] \in Nat /\ indexed'[b][a] \in Nat /\ c.moves[a] \in Nat /\ pre[a] \in Int
        BY <2>10
      <4> QED
        BY <4>2, <4>4, <4>5, <4>6
    <3>2. m = k
      BY <2>6, <2>7, <3>1
    <3> QED
      BY <2>8, <2>11, <3>2 DEF DebitBox
  <2>12. CASE CallReturns
    <3>1. indexed' = indexed /\ bank' = Moved(bank, Self, to, c.moves)
      BY <1>2, <2>1, <2>3, <2>12 DEF CallReturns, vaultVars
    <3>2. Top.pc = "calling" /\ f.pc = "ready"
      BY <1>2, <2>12 DEF CallReturns, At
    <3>3. ASSUME NEW a \in Asset
          PROVE  m[a] \in Int /\ k[a] \in Int /\ c.moves[a] \in Int /\ k[a] = m[a] + c.moves[a]
      BY <2>6, <2>7, <2>10, <3>1, <3>2
    <3>4. PICK n : n = c.moves
      OBVIOUS
    <3>5. m \in [Asset -> Int]
      BY <2>6, <3>3
    <3>6. k \in [Asset -> Int]
      BY <2>7, <3>3
    <3>7. n \in [Asset -> Int]
      BY <3>3, <3>4 DEF Call
    <3>8. Adds(k, m, n)
      BY <3>3, <3>4 DEF Adds
    <3>9. Self \in Holder
      BY DEF Holder
    <3>10. PICK bl \in [Asset -> [Holder -> Nat]] : bl = bank
      BY <1>4 DEF FieldsOK
    <3>11. bl = Moved(bk, Self, to, m)
      BY <2>8, <3>10
    <3>12. Arrives(bl, n, bk, k, Self, to)
      BY <2>1, <3>5, <3>6, <3>7, <3>8, <3>9, <3>10, <3>11, MovedTwice
    <3> QED
      BY <3>1, <3>4, <3>10, <3>12 DEF Arrives
  <2> QED
    BY <2>2, <2>11, <2>12
<1> QED
  BY <1>2, <1>3, <1>5, <1>6
  DEF FrameCustody, OneHolder, NotOwner, PaysOthers, NoGifts, OwnStandard

\* A function that is entered is alone on the stack.
LEMMA EntersAlone ==
  ASSUME IInv, NEW g \in Frame, Enter(g)
  PROVE  stack' # <<>> /\ stack'[1] = g
<1>1. stack = <<>>
  BY DEF IInv, GuardHolds, Enter, nonReentrant
<1> QED
  BY <1>1, Pushed DEF Enter

\* What is said of the call in progress stays true of it.
LEMMA NextFrame ==
  ASSUME IInv, IInv', MintInv, CustodyInv, StrandedInv, [Next]_vars,
         NEW f, stack' # <<>>, stack'[1] = f
  PROVE  FrameCustody(f)'
<1>1. CASE \/ UnguardedCall \/ Tick \/ UNCHANGED vars
           \/ \E x \in Account, defs \in TypeBatches : addTypes(x, defs)
           \/ \E x \in Account, a \in Donations : Donate(x, a)
  <2>1. Quiet
    BY <1>1, QuietStep
  <2> QED
    BY <2>1, QuietFrame
<1>2. CASE MintCall
  <2>1. ASSUME NEW g \in MintFrame, g.pre = Current, g.pc = "ready", Enter(g),
               g.minted = <<>>, UNCHANGED <<nftVars, typeVars, indexed, bank>>
        PROVE  FrameCustody(g)' /\ g = f
    <3>1. g \in Frame /\ g.op \notin VaultOp /\ g.op \notin Paying /\ g.op # "destroy"
      BY DEF Frame, MintFrame, MintOp, VaultOp, Paying
    <3>2. g = f
      BY <2>1, <3>1, EntersAlone
    <3>3. FrameCustody(g)'
      BY <2>1, <3>1, EnterFrame
    <3> QED
      BY <3>2, <3>3
  <2> QED
    BY <1>1, <1>2, <2>1, MintEntry
<1>3. CASE VaultCall
  <2>1. PICK g \in VaultFrame :
            /\ g.pre = Current /\ g.pc = "ready" /\ Enter(g)
            /\ UNCHANGED <<nftVars, typeVars>>
            /\ g.op = "destroy" => g.box \notin destroyedBoxes
            /\ g.op \in Paying => g.calls # <<>> /\ g.calls[1].kind = "eth"
            /\ g.op # "store" => UNCHANGED <<indexed, bank>>
    BY <1>3, VaultEntry
  <2>2. g \in Frame /\ g.op \notin MintOp
    BY DEF Frame, VaultFrame, MintOp, VaultOp
  <2>3. g = f
    BY <2>1, <2>2, EntersAlone
  <2>4. FrameCustody(g)'
    BY <2>1, <2>2, EnterFrame
  <2> QED
    BY <2>3, <2>4
<1>4. CASE RecipientAccepts \/ \E b \in Box : MintNext(b)
  BY <1>4, MintFrameCustody
<1>5. CASE CreditBox \/ DebitBox \/ MoveBetweenBoxes \/ CallReturns \/ BeginUnlock
  BY <1>5, VaultFrameCustody
<1>6. CASE FinishMint \/ FinishVault \/ _unlockMint \/ Revert
  <2>1. stack # <<>> /\ Pop
    BY <1>6 DEF FinishMint, FinishVault, _unlockMint, Revert, Return, At
  <2> QED
    BY <2>1, NothingUnfinished
<1> QED
  BY <1>1, <1>2, <1>3, <1>4, <1>5, <1>6
  DEF Next, TransactionStep, MintStep, VaultStep

\* The contract does not come to own a box by itself.
LEMMA NotOwnerKept ==
  ASSUME IInv, MintInv, StrandedInv, NoGifts, [Next]_vars
  PROVE  NotOwner(Current)'
<1>1. NotOwner(Current) /\ (stack # <<>> => NotOwner(stack[1].pre))
  BY DEF StrandedInv
<1>2. ASSUME \A b \in Box : owner'[b] = Self => owner[b] = Self
      PROVE  NotOwner(Current)'
  BY <1>1, <1>2 DEF NotOwner, Current
<1>3. CASE \/ UnguardedCall \/ Tick \/ UNCHANGED vars
           \/ \E x \in Account, defs \in TypeBatches : addTypes(x, defs)
           \/ \E x \in Account, a \in Donations : Donate(x, a)
  <2>1. Quiet
    BY <1>3, QuietStep
  <2> QED
    BY <1>2, <2>1 DEF Quiet, NoGifts
<1>4. ASSUME owner' = owner PROVE NotOwner(Current)'
  BY <1>2, <1>4
<1>5. CASE MintCall
  BY <1>3, <1>4, <1>5, MintEntry DEF nftVars
<1>6. CASE VaultCall
  BY <1>4, <1>6, VaultEntry DEF nftVars
<1>7. CASE \E b \in Box : MintNext(b)
  <2>1. PICK b \in Box : owner'[b] \in Account /\ \A c \in Box \ {b} : owner'[c] = owner[c]
    BY <1>7, NextId
  <2> QED
    BY <1>2, <2>1, AccountsAssumption
<1>8. CASE Revert
  <2>1. stack # <<>> /\ Top = stack[1] /\ owner' = Top.pre.owner
    BY <1>8, InProgress DEF Revert, Restore
  <2> QED
    BY <1>1, <2>1 DEF NotOwner, Current
<1>9. CASE VaultStep \/ RecipientAccepts \/ FinishMint
  BY <1>4, <1>9
  DEF VaultStep, CreditBox, DebitBox, CallReturns, MoveBetweenBoxes, FinishVault,
      BeginUnlock, _unlockMint, RecipientAccepts, FinishMint, nftVars
<1> QED
  BY <1>3, <1>5, <1>6, <1>7, <1>8, <1>9 DEF Next, TransactionStep, MintStep

LEMMA NextCustody ==
  ASSUME IInv, IInv', RightsInv, MintInv, CustodyInv, StrandedInv, [Next]_vars
  PROVE  CustodyInv' /\ StrandedInv'
<1>1. /\ AllCovered' /\ Solvent'
      /\ NoGifts => AllExact' /\ NothingStranded'
  BY BooksKept
<1>2. OneHolder(bank)'
  BY OneHolderKept DEF OneHolder
<1>3. ASSUME stack' # <<>>
      PROVE  /\ (OneHolder(stack[1].pre.bank) /\ PaidSoFar(stack[1]))'
             /\ NoGifts => (NotOwner(stack[1].pre) /\ PaysOthers(stack[1]))'
  <2>1. PICK f : f = stack'[1]
    OBVIOUS
  <2>2. FrameCustody(f)'
    BY <1>3, <2>1, NextFrame
  <2>3. PaidSoFar(stack[1])'
    BY <2>1, <2>2 DEF FrameCustody, PaidSoFar
  <2> QED
    BY <2>1, <2>2, <2>3 DEF FrameCustody, OneHolder, NotOwner, PaysOthers
<1>4. NoGifts => NotOwner(Current)'
  BY NotOwnerKept
<1>5. CustodyInv'
  BY <1>1, <1>2, <1>3 DEF CustodyInv, AllCovered
<1>6. StrandedInv'
  BY <1>1, <1>3, <1>4 DEF StrandedInv, AllExact, NoGifts, OwnStandard
<1> QED
  BY <1>5, <1>6

-----------------------------------------------------------------------------
(* Custody: the promises *)

\* Before the first transaction nothing is held and nothing is owed.
LEMMA InitCustody == Init => CustodyInv /\ StrandedInv
<1> SUFFICES ASSUME Init PROVE CustodyInv /\ StrandedInv
  OBVIOUS
<1>1. IInv
  BY InitInv
<1>2. ASSUME NEW a \in Asset PROVE Claims(a) = 0 /\ Covers(a) = 0
  <2>1. Amounts(a)
    BY <1>1, AmountsOK DEF AllAmounts
  <2>2. Underway(Paying, a) = 0 /\ Underway(Storing, a) = 0
    BY DEF Init, Underway, At
  <2>3. bank[a][Self] = 0
    BY BankAssumption DEF Init
  <2>4. Held(indexed, a) = 0
    <3>1. PICK h : h = [b \in Box |-> indexed[b][a]]
      OBVIOUS
    <3>2. indexed \in [Box -> [Asset -> Nat]] /\ \A b \in Box : indexed[b][a] = 0
      BY DEF Init
    <3>3. Held(indexed, a) = SumFunctionOnSet(h, Box)
      BY <3>1, <3>2, HeldSum
    <3>4. IsFiniteSet(Box) /\ \A b \in Box : h[b] = 0
      BY <3>1, <3>2, IdsAssumption
    <3> QED
      BY <3>3, <3>4, SumZero
  <2>5. Locks(a) = 0
    <3>1. PICK h : h = Dues(a)
      OBVIOUS
    <3>2. \A b \in Box : h[b] = 0
      BY <3>1 DEF Dues, Due, Init
    <3>3. h \in [Box -> Nat]
      BY <3>1, <3>2 DEF Dues
    <3>4. Locks(a) = SumFunctionOnSet(h, Box)
      BY <3>1, <3>3, SumOfBoxes DEF Locks
    <3> QED
      BY <3>2, <3>4, IdsAssumption, SumZero
  <2> QED
    BY <2>1, <2>2, <2>3, <2>4, <2>5 DEF Amounts
<1>3. SettledBooks /\ stack = <<>>
  BY <1>1, Settled DEF Init
<1>4. AllCovered /\ AllExact
  BY <1>2 DEF AllCovered, AllExact
<1>5. OneHolder(bank)
  BY BankAssumption DEF OneHolder, Init
<1>6. NotOwner(Current)
  BY AccountsAssumption DEF NotOwner, Current, Init
<1> QED
  BY <1>3, <1>4, <1>5, <1>6
  DEF CustodyInv, StrandedInv, SettledBooks, AllCovered, AllExact

\* The inductive invariant of custody: at every moment of a transaction the
\* balances cover the contents, the locks and what is on its way out, and
\* exactly so where nobody gives the contract anything.
THEOREM CustodyInvariant == Spec => [](CustodyInv /\ StrandedInv)
<1>1. Init => CustodyInv /\ StrandedInv
  BY InitCustody
<1>2. /\ IInv /\ IInv' /\ RightsInv /\ MintInv
      /\ CustodyInv /\ StrandedInv /\ [Next]_vars
      => CustodyInv' /\ StrandedInv'
  BY NextCustody
<1> QED
  BY <1>1, <1>2, Inductive, RightsInvariant, MintsInvariant, PTL DEF Spec

\* After every transaction the balances cover the boxes' contents and the
\* locks of those not destroyed.
THEOREM AlwaysSolvent == Spec => []Solvent
<1>1. CustodyInv => Solvent
  BY DEF CustodyInv
<1> QED
  BY <1>1, CustodyInvariant, PTL

\* Where nobody sends the contract tokens outside store(), makes it the owner
\* of a box or names a token by another standard than its own, the balances
\* are exactly the contents and the locks.
THEOREM NeverStranded ==
  ASSUME NoGifts
  PROVE  Spec => []NothingStranded
<1>1. StrandedInv => NothingStranded
  BY DEF StrandedInv
<1> QED
  BY <1>1, CustodyInvariant, PTL

\* The storage that is committed, and who holds the NFTs in it.
LEMMA CommittedHolders ==
  ASSUME IInv, CustodyInv
  PROVE  Committed \in Storage /\ OneHolder(Committed.bank)
<1>1. CASE stack = <<>>
  BY <1>1 DEF Committed, IInv, TypeOK, CustodyInv, Current
<1>2. CASE stack # <<>>
  BY <1>2, InProgress DEF Committed, CustodyInv
<1> QED
  BY <1>1, <1>2

\* After every transaction an NFT recorded in a box is in the contract and in
\* no other box.
THEOREM OneBoxEach == Spec => []OneBoxPerNFT
<1>1. ASSUME IInv, CustodyInv PROVE OneBoxPerNFT
  <2> SUFFICES ASSUME NEW a \in Asset, Kind[a] = "erc721", NEW b \in Box, NEW c \in Box,
                      Committed.indexed[b][a] # 0
               PROVE  /\ Committed.indexed[b][a] = 1
                      /\ Committed.bank[a][Self] = 1
                      /\ Committed.indexed[c][a] # 0 => b = c
    BY DEF OneBoxPerNFT
  <2>1. PICK l \in [Box -> [Asset -> Nat]], bk \in [Asset -> [Holder -> Nat]] :
          l = Committed.indexed /\ bk = Committed.bank
    BY <1>1, CommittedHolders DEF Storage
  <2>2. bk[a][Self] \in Nat /\ bk[a][Self] <= 1
    BY <1>1, <2>1, CommittedHolders DEF OneHolder, Holder
  <2>3. PICK locks \in Nat : locks = LocksIn(Committed, a)
    <3>1. \A d \in Box : LockOwedTo(Committed, d, a) \in Nat
      BY <1>1, CommittedHolders DEF Storage, TypeInfo, LockOwedTo
    <3>2. [d \in Box |-> LockOwedTo(Committed, d, a)] \in [Box -> Nat]
      BY <3>1
    <3> QED
      BY <3>2, SumOfBoxes DEF LocksIn
  <2>4. Held(l, a) + locks <= bk[a][Self]
    BY <1>1, <2>1, <2>3 DEF CustodyInv, Solvent, HeldIn, Held
  <2>5. Held(l, a) \in Nat
    BY HeldSum
  <2>6. /\ l[b][a] \in Nat /\ l[c][a] \in Nat /\ l[b][a] # 0
        /\ l[b][a] <= Held(l, a)
        /\ c # b => l[b][a] + l[c][a] <= Held(l, a)
    BY <2>1, HeldBounds
  <2>7. l[b][a] = 1 /\ bk[a][Self] = 1 /\ (l[c][a] # 0 => b = c)
    <3>1. PICK x, y, h, u : x = l[b][a] /\ y = l[c][a] /\ h = Held(l, a) /\ u = bk[a][Self]
      OBVIOUS
    <3>2. x \in Nat /\ y \in Nat /\ h \in Nat /\ u \in Nat /\ locks \in Nat
      BY <2>2, <2>3, <2>5, <2>6, <3>1
    <3>3. x # 0 /\ x <= h /\ h + locks <= u /\ u <= 1
      BY <2>2, <2>4, <2>6, <3>1
    <3>4. c # b => x + y <= h
      BY <2>6, <3>1
    <3>5. x = 1 /\ u = 1 /\ h = 1
      BY <3>2, <3>3
    <3>6. y # 0 => b = c
      BY <3>2, <3>4, <3>5
    <3> QED
      BY <3>1, <3>5, <3>6
  <2> QED
    BY <2>1, <2>7
<1> QED
  BY <1>1, Inductive, CustodyInvariant, PTL

\* When a withdrawal ends, its payee, and nobody else, has been paid exactly
\* what has left the box, or nothing at all.
THEOREM WithdrawalPays == Spec => WithdrawalReachesItsPayee
<1> DEFINE Pays ==
      stack # <<>> /\ stack' = <<>> /\ stack[1].op = "withdraw" =>
          LET b == stack[1].box
              paid == [a \in Asset |->
                          Committed.indexed[b][a] - Committed'.indexed[b][a]]
          IN  Committed'.bank = Moved(Committed.bank, Self, stack[1].to, paid)
<1>1. ASSUME IInv, CustodyInv, [Next]_vars PROVE Pays
  <2> SUFFICES ASSUME stack # <<>>, stack' = <<>>, stack[1].op = "withdraw",
                      NEW paid,
                      paid = [a \in Asset |->
                                Committed.indexed[stack[1].box][a]
                                  - Committed'.indexed[stack[1].box][a]]
               PROVE  Committed'.bank = Moved(Committed.bank, Self, stack[1].to, paid)
    OBVIOUS
  <2>1. /\ Top = stack[1] /\ Top \in VaultFrame /\ Committed \in Storage
        /\ Top.box \in Box /\ Top.to \in Holder /\ Self \in Holder
    BY <1>1, InProgress, CommittedHolders DEF VaultOp, VaultFrame, Holder
  <2>2. CASE Committed' = Committed
    <3>1. PICK l \in [Asset -> Nat], bk \in [Asset -> [Holder -> Nat]] :
            l = Committed.indexed[Top.box] /\ bk = Committed.bank
      BY <2>1 DEF Storage
    <3>2. paid = [a \in Asset |-> l[a] - l[a]]
      BY <2>1, <2>2, <3>1
    <3>3. paid \in [Asset -> Int] /\ \A a \in Asset : paid[a] = 0
      BY <3>2
    <3>4. Moved(bk, Self, Top.to, paid) = bk
      BY <2>1, <3>3, MovedNothing
    <3> QED
      BY <2>1, <2>2, <3>1, <3>4
  <2>3. CASE /\ FinishMint \/ FinishVault \/ _unlockMint
             /\ Committed = Top.pre /\ Committed' = Current'
    <3>1. FinishVault
      BY <2>1, <2>3 DEF FinishMint, _unlockMint, At, MintOp
    <3>2. bank' = bank /\ indexed' = indexed /\ Top.pc = "ready"
      BY <3>1 DEF FinishVault, At, vaultVars
    <3>3. \A a \in Asset : Underway({"withdraw"}, a) = 0
      BY <3>2 DEF Underway, At
    <3>4. FieldsOK
      BY <1>1, FieldsOfCurrent DEF IInv, TypeOK
    <3>5. PICK l \in [Asset -> Nat], k \in [Asset -> Nat] :
            l = Top.pre.indexed[Top.box] /\ k = indexed[Top.box]
      BY <2>1, <2>3, <3>4 DEF Storage, FieldsOK
    <3>6. PICK m : m = [a \in Asset |-> l[a] - k[a] - Underway({"withdraw"}, a)]
      OBVIOUS
    <3>7. bank = Moved(Top.pre.bank, Self, Top.to, m)
      BY <1>1, <2>1, <3>5, <3>6 DEF CustodyInv, PaidSoFar
    <3>8. paid = [a \in Asset |-> l[a] - k[a]]
      BY <2>1, <2>3, <3>2, <3>5 DEF Current
    <3>9. \A a \in Asset : l[a] - k[a] - Underway({"withdraw"}, a) = l[a] - k[a]
      BY <3>3
    <3>10. m = paid
      BY <3>6, <3>8, <3>9
    <3> QED
      BY <2>1, <2>3, <3>2, <3>7, <3>10 DEF Current
  <2> QED
    BY <1>1, <2>2, <2>3, CommittingStep
<1>2. IInv /\ CustodyInv /\ [Next]_vars => [Pays]_vars
  BY <1>1
<1> QED
  BY <1>2, Inductive, CustodyInvariant, PTL DEF Spec, WithdrawalReachesItsPayee
=============================================================================
