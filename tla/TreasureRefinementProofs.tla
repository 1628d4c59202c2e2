---------------------- MODULE TreasureRefinementProofs ----------------------
(***************************************************************************)
(* The theorem that CryptoTreasure implements TreasureLedger: each of its  *)
(* transactions, with its loops, callbacks and reverts, is one step there, *)
(* or none.                                                                *)
(***************************************************************************)
EXTENDS TreasureCustodyProofs

-----------------------------------------------------------------------------
(* The beginning *)

\* A contract without boxes is an empty ledger.
LEMMA InitLedger == Init => Ledger!Init
<1> SUFFICES ASSUME Init PROVE Ledger!Init
  OBVIOUS
<1>1. Committed = Current
  BY DEF Init, Committed
<1>2. \A b \in Box : {x \in Holder : ApprovedOrOwnerIn(Committed, x, b)} = {}
  BY <1>1 DEF ApprovedOrOwnerIn, Current, Init
<1>3. \A b \in Box, a \in Asset : LockOwedTo(Committed, b, a) = 0
  BY <1>1 DEF LockOwedTo, Current, Init
<1>4. {b \in Box : Committed.storeRestricted[b]} = {}
  BY <1>1 DEF Current, Init
<1> QED
  BY <1>1, <1>2, <1>3, <1>4, BankAssumption
  DEF Ledger!Init, Ledger!Nothing, Current, Init

-----------------------------------------------------------------------------
(* The effect so far of the call in progress *)

\* What the call in progress has on its way, by its frame.
PaymentsTold ==
    stack # <<>> =>
        \A a \in Asset : Underway(Payments, a) = InFlight(stack[1], Payments, a)

LEMMA PaymentsAre == IInv => PaymentsTold
  BY InProgress DEF PaymentsTold, Underway, InFlight, At

LEMMA PaymentsNext == IInv' => PaymentsTold'
  BY PaymentsAre, PTL

\* Steps outside the functions do nothing for the call in progress.
LEMMA QuietEffect ==
  ASSUME IInv, IInv', EffectInv, Quiet
  PROVE  EffectInv'
<1> SUFFICES ASSUME stack' # <<>> PROVE EffectSoFar(stack[1])'
  BY DEF EffectInv
<1>1. PICK f : f = stack[1]
  OBVIOUS
<1>2. /\ stack # <<>> /\ stack' = stack /\ indexed' = indexed /\ bank' = bank
      /\ lockedDestructionEnd' = lockedDestructionEnd
  BY DEF Quiet, vaultVars
<1>3. EffectSoFar(f)
  BY <1>1, <1>2 DEF EffectInv
<1>4. \A a \in Asset : Underway(Payments, a)' = Underway(Payments, a)
  BY <1>2, PaymentsAre, PaymentsNext DEF PaymentsTold
<1>5. MovedSoFar(f)' = MovedSoFar(f)
  BY <1>2, <1>4 DEF MovedSoFar
<1>6. BalancesFollow(f)'
  BY <1>2, <1>3, <1>5 DEF EffectSoFar, BalancesFollow, PayerOf, PayeeOf
<1>7. EffectSoFar(f)'
  BY <1>2, <1>3, <1>6 DEF EffectSoFar, MovesWhole, OwnStandard
<1> QED
  BY <1>1, <1>2, <1>7
  DEF EffectSoFar, BalancesFollow, MovesWhole, MovedSoFar, PayerOf, PayeeOf

\* A function that is entered has moved nothing, or the ether of a store.
LEMMA EnterEffect ==
  ASSUME IInv, IInv', NEW f \in Frame, f.pre = Current, f.pc = "ready", Enter(f),
         UNCHANGED boxVars,
         f.op \in MintOp => f.to # <<>>,
         f.op \in VaultOp => f \in VaultFrame,
         f.op = "destroy" => f.box \notin destroyedBoxes,
         f.op # "store" => UNCHANGED <<indexed, bank>>,
         f.op = "store" =>
            \E c \in Call : /\ bank' = Moved(bank, f.caller, Self, c.moves)
                            /\ indexed' = Credit(indexed, f.box, c)
  PROVE  EffectInv'
<1>1. stack' # <<>> /\ stack'[1] = f
  BY EntersAlone
<1>2. FieldsOK /\ Self \in Holder
  BY FieldsOfCurrent DEF IInv, TypeOK, Holder
<1>3. \A a \in Asset : Underway(Payments, a)' = 0
  BY <1>1, PaymentsNext DEF PaymentsTold, InFlight
<1>4. /\ f.pre.bank = bank /\ f.pre.indexed = indexed
      /\ f.pre.lockedDestructionEnd = lockedDestructionEnd
      /\ f.pre.destroyedBoxes = destroyedBoxes
  BY DEF Current
<1>5. CASE f.op \notin Payments
  <2>1. UNCHANGED <<indexed, bank>>
    BY <1>5 DEF Payments
  <2> QED
    BY <1>1, <1>4, <1>5, <2>1
    DEF EffectInv, EffectSoFar, BalancesFollow, MovesWhole, boxVars, Payments
<1>6. CASE f.op \in Payments
  <2>1. f \in VaultFrame /\ f.box \in Box /\ f.caller \in Holder /\ f.to \in Holder
    BY <1>6 DEF Payments, VaultOp, VaultFrame, Holder
  <2>2. PayerOf(f) \in Holder /\ PayeeOf(f) \in Holder
    BY <1>2, <2>1 DEF PayerOf, PayeeOf
  <2>3. PICK m : m = MovedSoFar(f)'
    OBVIOUS
  <2>4. m = [a \in Asset |->
              (IF f.op = "store" THEN indexed'[f.box][a] - indexed[f.box][a]
                                 ELSE indexed[f.box][a] - indexed'[f.box][a]) - 0]
    BY <1>3, <1>4, <2>3 DEF MovedSoFar
  <2>5. \A a \in Asset : indexed[f.box][a] \in Nat
    BY <1>2, <2>1 DEF FieldsOK
  <2>6. bank' = Moved(bank, PayerOf(f), PayeeOf(f), m)
    <3>1. CASE f.op = "store"
      <4>1. PICK c \in Call : /\ bank' = Moved(bank, f.caller, Self, c.moves)
                              /\ indexed' = Credit(indexed, f.box, c)
        BY <3>1
      <4>2. ASSUME NEW a \in Asset PROVE m[a] = c.moves[a]
        <5>1. /\ indexed'[f.box][a] = indexed[f.box][a] + c.moves[a]
              /\ c.moves[a] \in Nat /\ indexed[f.box][a] \in Nat
          <6>1. PICK b \in Box : b = f.box
            BY <2>1
          <6>2. indexed' = Credit(indexed, b, c)
            BY <4>1, <6>1
          <6>3. indexed \in [Box -> [Asset -> Nat]] /\ b \in Box /\ c \in Call
            BY <1>2, <4>1, <6>1 DEF FieldsOK
          <6>4. /\ Credit(indexed, b, c)[b][a] = indexed[b][a] + c.moves[a]
                /\ c.moves[a] \in Nat /\ indexed[b][a] \in Nat
            BY <6>3, Written
          <6> QED
            BY <6>1, <6>2, <6>4
        <5> QED
          BY <2>4, <3>1, <5>1
      <4>3. m = c.moves
        BY <2>4, <4>2 DEF Call
      <4> QED
        BY <3>1, <4>1, <4>3 DEF PayerOf, PayeeOf
    <3>2. CASE f.op # "store"
      <4>1. \A a \in Asset : m[a] = 0
        BY <2>4, <2>5, <3>2
      <4>2. m \in [Asset -> Int]
        BY <2>4, <4>1
      <4>3. bank \in [Asset -> [Holder -> Nat]] /\ bank' = bank
        BY <1>2, <3>2 DEF FieldsOK
      <4>4. Moved(bank, PayerOf(f), PayeeOf(f), m) = bank
        BY <2>2, <4>1, <4>2, <4>3, MovedNothing
      <4> QED
        BY <4>3, <4>4
    <3> QED
      BY <3>1, <3>2
  <2>7. BalancesFollow(f)'
    BY <1>4, <1>6, <2>2, <2>3, <2>6 DEF BalancesFollow, PayerOf, PayeeOf
  <2>8. EffectSoFar(f)'
    BY <1>4, <1>6, <2>7 DEF EffectSoFar, MovesWhole, Payments, MintOp, boxVars
  <2> QED
    BY <1>1, <2>8
    DEF EffectInv, EffectSoFar, BalancesFollow, MovesWhole, MovedSoFar, PayerOf, PayeeOf
<1> QED
  BY <1>5, <1>6

\* The calls of the functions.
LEMMA EntryEffect ==
  ASSUME IInv, IInv', EffectInv, MintCall \/ VaultCall
  PROVE  EffectInv'
<1>1. CASE \E x \in Account, defs \in TypeBatches : addTypes(x, defs)
  BY <1>1, QuietStep, QuietEffect
<1>2. ASSUME NEW f \in MintFrame, f.pre = Current, f.pc = "ready", Enter(f),
             f.to # <<>>, UNCHANGED <<indexed, bank>>, UNCHANGED boxVars
      PROVE  EffectInv'
  <2>1. f \in Frame /\ f.op \notin VaultOp /\ f.op # "destroy" /\ f.op # "store"
    BY DEF Frame, MintFrame, MintOp, VaultOp
  <2> QED
    BY <1>2, <2>1, EnterEffect
<1>3. CASE VaultCall
  <2>1. PICK f \in VaultFrame, n \in Nat :
            /\ f.pre = Current /\ f.pc = "ready" /\ Enter(f)
            /\ UNCHANGED boxVars
            /\ f.op = "destroy" => f.box \notin destroyedBoxes
            /\ f.op # "store" => UNCHANGED <<indexed, bank>>
            /\ f.op = "store" =>
                  /\ bank' = Moved(bank, f.caller, Self, EthCall(n).moves)
                  /\ indexed' = Credit(indexed, f.box, EthCall(n))
    BY <1>3, VaultEntry
  <2>2. EthCall(n) \in Call
    BY OnlyType, AssetsAssumption DEF Call, EthCall
  <2>3. f \in Frame /\ f.op \notin MintOp
    BY DEF Frame, VaultFrame, MintOp, VaultOp
  <2> QED
    BY <2>1, <2>2, <2>3, EnterEffect
<1>4. CASE \E f \in MintFrame :
               /\ f.pre = Current /\ f.pc = "ready" /\ Enter(f)
               /\ f.to # <<>> /\ UNCHANGED <<indexed, bank>> /\ UNCHANGED boxVars
  BY <1>2, <1>4
<1> QED
  BY <1>1, <1>3, <1>4, MintEntry

\* A mint in progress moves no units.
LEMMA MintGoesOnEffect ==
  ASSUME IInv, MintInv, EffectInv, RecipientAccepts \/ \E b \in Box : MintNext(b)
  PROVE  EffectInv'
<1>0. PICK n : n = Len(Top.minted)
  OBVIOUS
<1>1. stack # <<>> /\ Top.op \in MintOp /\ UNCHANGED <<boxVars, bank>>
  BY <1>0, NextId, Accepted
<1>2. PICK g \in MintFrame :
        /\ stack' # <<>> /\ stack'[1] = g
        /\ g.op = Top.op /\ g.pre = Top.pre /\ g.to = Top.to
  BY <1>0, NextId, Accepted
<1>3. EffectSoFar(Top)
  BY <1>1, InProgress DEF EffectInv
<1>4. g.op \notin Payments /\ g.op # "transferBetweenBoxes" /\ g.op # "destroy"
  BY DEF MintFrame, MintOp, Payments
<1>5. bank' = g.pre.bank
  BY <1>1, <1>2, <1>3, <1>4 DEF EffectSoFar, BalancesFollow
<1>6. EffectSoFar(g)'
  BY <1>1, <1>2, <1>3, <1>4, <1>5
  DEF EffectSoFar, BalancesFollow, MovesWhole, boxVars
<1> QED
  BY <1>2, <1>4, <1>5, <1>6 DEF EffectInv, EffectSoFar, BalancesFollow, MovesWhole

\* What a move takes from the one box it gives to the other. Where requests
\* name tokens by their own standard, the 1 it writes for an NFT replaces
\* nothing: that NFT cannot be in both boxes.
LEMMA MovedWhole ==
  ASSUME IInv, RightsInv, CustodyInv, OwnStandard, MoveBetweenBoxes, NEW a \in Asset,
         NEW src, NEW dest, src = Top.box, dest = Top.dest
  PROVE  /\ indexed[src][a] \in Nat /\ indexed[dest][a] \in Nat
         /\ indexed'[src][a] + indexed'[dest][a] = indexed[src][a] + indexed[dest][a]
<1>1. PICK c \in Call : c = Top.calls[1]
  BY NextCall
<1>2. /\ Top.calls \in Seq(Call) /\ Top.calls # <<>> /\ src \in Box /\ dest \in Box
  BY NextCall
<1>3. FieldsOK /\ Amounts(a) /\ UnderwayTold /\ stack # <<>> /\ Top = stack[1]
  BY FieldsOfCurrent, AmountsOK, UnderwayIs, InProgress
  DEF IInv, TypeOK, AllAmounts, MoveBetweenBoxes, At
<1>4. PICK l : l = Debit(indexed, src, c)
  OBVIOUS
<1>5. InBox(src, c) /\ indexed' = Arrived(l, dest, c)
  BY <1>1, <1>4 DEF MoveBetweenBoxes
<1>6. indexed \in [Box -> [Asset -> Nat]] /\ c \in Call
  BY <1>1, <1>3 DEF FieldsOK
<1>7. /\ l \in [Box -> [Asset -> Nat]]
      /\ \A d \in Box \ {src} : l[d] = indexed[d]
      /\ l[src][a] = indexed[src][a] - c.moves[a]
      /\ c.moves[a] \in Nat /\ indexed[src][a] \in Nat /\ indexed[dest][a] \in Nat
      /\ c.moves[a] <= indexed[src][a]
  <2>1. /\ l \in [Box -> [Asset -> Nat]]
        /\ \A d \in Box \ {src} : l[d] = indexed[d]
    BY <1>2, <1>4, <1>5, <1>6, DebitType
  <2>2. l[src][a] = indexed[src][a] - c.moves[a]
    BY <1>2, <1>4, <1>6, Written
  <2>3. c.moves[a] \in Nat /\ c.moves[a] <= indexed[src][a]
    BY <1>2, <1>5, <1>6, InBoxEnough
  <2>4. indexed[src][a] \in Nat /\ indexed[dest][a] \in Nat
    BY <1>2, <1>6
  <2> QED
    BY <2>1, <2>2, <2>3, <2>4
<1>8. \A d \in Box \ {dest} : indexed'[d] = l[d]
  <2>1. dest \in Box /\ l \in [Box -> [Asset -> Nat]] /\ c \in Call
    BY <1>2, <1>6, <1>7
  <2>2. \A d \in Box \ {dest} : Arrived(l, dest, c)[d] = l[d]
    BY <2>1, ArrivedType
  <2> QED
    BY <1>5, <2>2
<1>9. indexed'[dest][a] = l[dest][a] + c.moves[a]
  <2>1. CASE c.kind # "erc721" \/ c.moves[a] = 0
    <3>1. /\ c.kind # "erc721" => Arrived(l, dest, c)[dest][a] = l[dest][a] + c.moves[a]
          /\ c.moves[a] = 0 => Arrived(l, dest, c)[dest][a] = l[dest][a]
          /\ l[dest][a] \in Nat
      BY <1>2, <1>6, <1>7, Written
    <3>2. Arrived(l, dest, c)[dest][a] = l[dest][a] + c.moves[a]
      BY <2>1, <3>1
    <3> QED
      BY <1>5, <3>2
  <2>2. CASE c.kind = "erc721" /\ c.moves[a] # 0
    <3>1. c.moves[a] = 1
      BY <1>6, <2>2, OneUnit
    <3>2. Arrived(l, dest, c)[dest][a] = 1 /\ l[dest][a] \in Nat
      BY <1>2, <1>6, <1>7, <2>2, Written
    <3>3. l[dest][a] = 0
      <4>1. Implemented(c)
        <5>1. 1 \in DOMAIN Top.calls
          BY <1>2, EmptySeq, LenProperties
        <5>2. WellAddressed(Top) /\ Top.op \in VaultOp
          BY <1>3 DEF RightsInv, ActsByRight, MoveBetweenBoxes, At, VaultOp
        <5> QED
          BY <1>1, <5>1, <5>2 DEF WellAddressed
      <4>2. Kind[a] = "erc721"
        BY <2>2, <4>1 DEF Implemented
      <4>3. indexed[src][a] = 1
        BY <1>5, <2>2 DEF InBox
      <4>4. Underway(Paying, a) = 0 /\ Underway(Storing, a) = 0
        BY <1>3 DEF UnderwayTold, InFlight, MoveBetweenBoxes, At
      <4>5. Held(indexed, a) <= 1
        <5>1. bank[a][Self] <= 1
          BY <4>2 DEF CustodyInv, OneHolder, Holder
        <5>2. Claims(a) <= Covers(a)
          BY DEF CustodyInv
        <5> QED
          BY <1>3, <4>4, <5>1, <5>2 DEF Amounts
      <4>6. CASE dest = src
        BY <1>7, <3>1, <4>3, <4>6
      <4>7. CASE dest # src
        <5>1. indexed[src][a] + indexed[dest][a] <= Held(indexed, a)
          BY <1>2, <1>6, <4>7, HeldBounds
        <5>2. l[dest] = indexed[dest]
          BY <1>2, <1>7, <4>7
        <5> QED
          BY <1>3, <3>2, <4>3, <4>5, <5>1, <5>2 DEF Amounts
      <4> QED
        BY <4>6, <4>7
    <3> QED
      BY <1>5, <3>1, <3>2, <3>3
  <2> QED
    BY <2>1, <2>2
<1>10. CASE dest = src
  BY <1>7, <1>9, <1>10
<1>11. CASE dest # src
  BY <1>2, <1>7, <1>8, <1>9, <1>11
<1> QED
  BY <1>7, <1>10, <1>11

\* What a step of the vault does to the units moved so far: a loop records
\* them in the box before they are on their way, a returning call moves them.
LEMMA MovedSoFarGoesOn ==
  ASSUME IInv, IInv', CreditBox \/ DebitBox \/ CallReturns \/ BeginUnlock,
         NEW g \in VaultFrame, stack' # <<>>, stack'[1] = g,
         g.op = Top.op, g.pre = Top.pre, g.box = Top.box,
         CreditBox \/ DebitBox => g.pc = "calling" /\ g.calls = Top.calls,
         CallReturns => g.pc = "ready", BeginUnlock => g.pc = "releasing",
         NEW m, m = MovedSoFar(Top), NEW k, k = MovedSoFar(g)',
         NEW a \in Asset
  PROVE  /\ m[a] \in Int /\ k[a] \in Int
         /\ ~CallReturns => k[a] = m[a]
         /\ CallReturns => k[a] = m[a] + Top.calls[1].moves[a]
<1>1. /\ stack # <<>> /\ Top = stack[1] /\ Top \in VaultFrame /\ Top.pre \in Storage
      /\ Top.box \in Box /\ Top.op \in Payments
  <2>1. stack # <<>> /\ Top.op \in VaultOp
    BY VaultProgress
  <2>2. Top.op \in Payments
    BY DEF CreditBox, DebitBox, CallReturns, BeginUnlock, At, Payments
  <2> QED
    BY <2>1, <2>2, InProgress DEF VaultFrame
<1>2. FieldsOK /\ FieldsOK'
  BY FieldsOfCurrent, FieldsOfCurrentNext DEF IInv, TypeOK
<1>3. PICK b \in Box, storing \in BOOLEAN : b = Top.box /\ storing = (Top.op = "store")
  BY <1>1
<1>4. PICK p, i, j, u, v :
        /\ p = Top.pre.indexed[b][a] /\ i = indexed[b][a] /\ j = indexed'[b][a]
        /\ u = Underway(Payments, a) /\ v = Underway(Payments, a)'
  OBVIOUS
<1>5. p \in Nat /\ i \in Nat /\ j \in Nat
  BY <1>1, <1>2, <1>4 DEF FieldsOK, Storage
<1>6. m[a] = (IF storing THEN i - p ELSE p - i) - u
  BY <1>3, <1>4 DEF MovedSoFar
<1>7. k[a] = (IF storing THEN j - p ELSE p - j) - v
  BY <1>3, <1>4 DEF MovedSoFar
<1>8. /\ u = IF Top.pc = "calling" THEN Top.calls[1].moves[a] ELSE 0
      /\ v = IF g.pc = "calling" THEN g.calls[1].moves[a] ELSE 0
  BY <1>1, <1>4, PaymentsAre, PaymentsNext DEF PaymentsTold, InFlight
<1>9. CASE CreditBox \/ DebitBox
  <2>1. PICK c \in Call : c = Top.calls[1]
    BY <1>9, NextCall
  <2>2. PICK n \in Nat : n = c.moves[a]
    BY <2>1 DEF Call
  <2>3. u = 0 /\ v = n
    BY <1>8, <1>9, <2>1, <2>2 DEF CreditBox, DebitBox, At
  <2>4. indexed \in [Box -> [Asset -> Nat]]
    BY <1>2 DEF FieldsOK
  <2>5. /\ Credit(indexed, b, c)[b][a] = i + n
        /\ Debit(indexed, b, c)[b][a] = i - n
    BY <1>4, <2>1, <2>2, <2>4, Written
  <2>6. j = IF storing THEN i + n ELSE i - n
    <3>1. CreditBox => storing /\ indexed' = Credit(indexed, b, c)
      BY <1>3, <2>1 DEF CreditBox, At
    <3>2. DebitBox => ~storing /\ indexed' = Debit(indexed, b, c)
      BY <1>3, <2>1 DEF DebitBox, At
    <3> QED
      BY <1>4, <1>9, <2>5, <3>1, <3>2
  <2>7. ~CallReturns
    BY <1>9 DEF CreditBox, DebitBox, CallReturns, At
  <2>8. m[a] \in Int /\ k[a] = m[a]
    <3>1. m[a] = IF storing THEN i - p ELSE p - i
      BY <1>5, <1>6, <2>3
    <3>2. k[a] = (IF storing THEN j - p ELSE p - j) - n
      BY <1>7, <2>3
    <3>3. CASE storing
      BY <1>5, <2>2, <2>6, <3>1, <3>2, <3>3
    <3>4. CASE ~storing
      BY <1>5, <2>2, <2>6, <3>1, <3>2, <3>4
    <3> QED
      BY <3>3, <3>4
  <2> QED
    BY <2>7, <2>8
<1>10. CASE CallReturns
  <2>1. PICK c \in Call : c = Top.calls[1]
    BY <1>10, NextCall
  <2>2. PICK n \in Nat : n = c.moves[a]
    BY <2>1 DEF Call
  <2>3. u = n /\ v = 0 /\ j = i
    BY <1>4, <1>8, <1>10, <2>1, <2>2 DEF CallReturns, At, vaultVars
  <2> QED
    BY <1>5, <1>6, <1>7, <1>10, <2>1, <2>2, <2>3
<1>11. CASE BeginUnlock
  <2>1. u = 0 /\ v = 0 /\ j = i
    BY <1>4, <1>8, <1>11 DEF BeginUnlock, At, vaultVars
  <2>2. ~CallReturns
    BY <1>11 DEF BeginUnlock, CallReturns, At
  <2> QED
    BY <1>5, <1>6, <1>7, <2>1, <2>2
<1> QED
  BY <1>9, <1>10, <1>11

\* The balances go on to follow the contents.
LEMMA BalancesGoOn ==
  ASSUME IInv, IInv', BalancesFollow(Top),
         CreditBox \/ DebitBox \/ CallReturns \/ BeginUnlock,
         NEW g \in VaultFrame, stack' # <<>>, stack'[1] = g,
         g.op = Top.op, g.pre = Top.pre, g.box = Top.box, g.caller = Top.caller,
         CreditBox \/ DebitBox =>
            g.pc = "calling" /\ g.to = Top.to /\ g.calls = Top.calls,
         CallReturns => g.pc = "ready" /\ g.to = Top.to,
         BeginUnlock => g.pc = "releasing"
  PROVE  BalancesFollow(g)'
<1>1. /\ stack # <<>> /\ Top = stack[1] /\ Top \in VaultFrame /\ Top.pre \in Storage
      /\ Top.op \in Payments
  <2>1. stack # <<>> /\ Top.op \in VaultOp
    BY VaultProgress
  <2>2. Top.op \in Payments
    BY DEF CreditBox, DebitBox, CallReturns, BeginUnlock, At, Payments
  <2> QED
    BY <2>1, <2>2, InProgress
<1>2. FieldsOK
  BY FieldsOfCurrent DEF IInv, TypeOK
<1>3. PICK m, k : m = MovedSoFar(Top) /\ k = MovedSoFar(g)'
  OBVIOUS
<1>4. PICK x \in Holder, bk \in [Asset -> [Holder -> Nat]] :
        x = PayerOf(Top) /\ bk = Top.pre.bank
  BY <1>1 DEF PayerOf, VaultFrame, Storage, Holder
<1>5. PICK to \in Holder :
        (Top.pc # "releasing" => to = PayeeOf(Top)) /\ bank = Moved(bk, x, to, m)
  BY <1>1, <1>3, <1>4 DEF BalancesFollow
<1>6. ASSUME NEW a \in Asset
      PROVE  /\ m[a] \in Int /\ k[a] \in Int
             /\ ~CallReturns => k[a] = m[a]
             /\ CallReturns => k[a] = m[a] + Top.calls[1].moves[a]
  BY <1>3, MovedSoFarGoesOn
<1>7. m \in [Asset -> Int] /\ k \in [Asset -> Int]
  <2>1. m = [a \in Asset |-> m[a]]
    BY <1>3 DEF MovedSoFar
  <2>2. k = [a \in Asset |-> k[a]]
    BY <1>3 DEF MovedSoFar
  <2> QED
    BY <1>6, <2>1, <2>2
<1>8. bank' = Moved(bk, x, to, k)
  <2>1. CASE ~CallReturns
    <3>1. m = k
      BY <1>6, <1>7, <2>1
    <3>2. bank' = bank
      BY <2>1 DEF CreditBox, DebitBox, BeginUnlock
    <3> QED
      BY <1>5, <3>1, <3>2
  <2>2. CASE CallReturns
    <3>1. PICK c \in Call : c = Top.calls[1]
      BY <2>2, NextCall
    <3>2. PICK n \in [Asset -> Int] : n = c.moves
      BY <3>1 DEF Call
    <3>3. to = PayeeOf(Top)
      BY <1>5, <2>2 DEF CallReturns, At
    <3>4. bank' = Moved(bank, x, to, n)
      BY <1>4, <2>2, <3>1, <3>2, <3>3 DEF CallReturns, PayerOf, PayeeOf
    <3>5. Adds(k, m, n)
      BY <1>6, <2>2, <3>1, <3>2 DEF Adds
    <3>6. PICK bl \in [Asset -> [Holder -> Nat]] : bl = bank
      BY <1>2 DEF FieldsOK
    <3>7. bl = Moved(bk, x, to, m)
      BY <1>5, <3>6
    <3>8. Arrives(bl, n, bk, k, x, to)
      BY <1>4, <1>5, <1>7, <3>2, <3>5, <3>6, <3>7, MovedTwice
    <3> QED
      BY <3>4, <3>6, <3>8 DEF Arrives
  <2> QED
    BY <2>1, <2>2
<1>9. g.pc # "releasing" => to = PayeeOf(g)
  <2>1. g.pc # "releasing" => CreditBox \/ DebitBox \/ CallReturns
    OBVIOUS
  <2>2. CreditBox \/ DebitBox \/ CallReturns => Top.pc # "releasing"
    BY DEF CreditBox, DebitBox, CallReturns, At
  <2> QED
    BY <1>5, <2>1, <2>2 DEF PayeeOf
<1> QED
  BY <1>1, <1>3, <1>4, <1>5, <1>8, <1>9 DEF BalancesFollow, PayerOf, PayeeOf

\* The steps of the vault, one after the other, add up to what the call is
\* to do.
LEMMA VaultGoesOnEffect ==
  ASSUME IInv, IInv', RightsInv, CustodyInv, EffectInv,
         CreditBox \/ DebitBox \/ MoveBetweenBoxes \/ CallReturns \/ BeginUnlock
  PROVE  EffectInv'
<1>1. /\ stack # <<>> /\ Top.op \in VaultOp /\ Top.op \notin MintOp
      /\ Top = stack[1] /\ Len(stack) = 1 /\ stack \in Seq(Frame)
      /\ Top \in VaultFrame /\ Top.pre \in Storage
  BY VaultProgress, InProgress
<1>2. PICK g \in VaultFrame :
        /\ ReplaceTop(g)
        /\ g.op = Top.op /\ g.pre = Top.pre /\ g.caller = Top.caller
        /\ g.box = Top.box /\ g.dest = Top.dest
        /\ CreditBox \/ DebitBox =>
              g.pc = "calling" /\ g.to = Top.to /\ g.calls = Top.calls
        /\ MoveBetweenBoxes \/ CallReturns => g.pc = "ready" /\ g.to = Top.to
        /\ BeginUnlock => g.pc = "releasing"
        /\ UNCHANGED boxVars
  BY VaultProgress DEF boxVars
<1>3. stack' # <<>> /\ stack'[1] = g
  BY <1>1, <1>2, Replaced DEF Frame
<1>4. EffectSoFar(Top) /\ BalancesFollow(Top)
  BY <1>1 DEF EffectInv, EffectSoFar
<1>5. BalancesFollow(g)'
  <2>1. CASE MoveBetweenBoxes
    <3>1. Top.op \notin Payments /\ bank' = bank
      BY <2>1 DEF MoveBetweenBoxes, At, Payments
    <3> QED
      BY <1>2, <1>4, <3>1 DEF BalancesFollow
  <2>2. CASE CreditBox \/ DebitBox \/ CallReturns \/ BeginUnlock
    BY <1>2, <1>3, <1>4, <2>2, BalancesGoOn
  <2> QED
    BY <2>1, <2>2
<1>6. MovesWhole(g)'
  <2> SUFFICES ASSUME OwnStandard, g.op = "transferBetweenBoxes", NEW a \in Asset
               PROVE  indexed'[g.box][a] + indexed'[g.dest][a] =
                        g.pre.indexed[g.box][a] + g.pre.indexed[g.dest][a]
    BY DEF MovesWhole, OwnStandard
  <2>1. MoveBetweenBoxes
    BY <1>2 DEF CreditBox, DebitBox, CallReturns, BeginUnlock, At
  <2>2. PICK src, dest : src = Top.box /\ dest = Top.dest
    OBVIOUS
  <2>3. indexed'[src][a] + indexed'[dest][a] = indexed[src][a] + indexed[dest][a]
    BY <2>1, <2>2, MovedWhole
  <2>4. indexed[src][a] + indexed[dest][a] =
          Top.pre.indexed[src][a] + Top.pre.indexed[dest][a]
    BY <1>2, <1>4, <2>2 DEF EffectSoFar, MovesWhole
  <2> QED
    BY <1>2, <2>2, <2>3, <2>4
<1>7. EffectSoFar(g)'
  BY <1>1, <1>2, <1>4, <1>5, <1>6 DEF EffectSoFar, boxVars
<1> QED
  BY <1>3, <1>7
  DEF EffectInv, EffectSoFar, BalancesFollow, MovesWhole, MovedSoFar, PayerOf, PayeeOf

\* Every step keeps what is said of the call in progress.
LEMMA NextEffect ==
  ASSUME IInv, IInv', RightsInv, MintInv, CustodyInv, EffectInv, [Next]_vars
  PROVE  EffectInv'
<1>1. CASE \/ UnguardedCall \/ Tick \/ UNCHANGED vars
           \/ \E x \in Account, a \in Donations : Donate(x, a)
  BY <1>1, QuietStep, QuietEffect
<1>2. CASE FinishMint \/ FinishVault \/ _unlockMint \/ Revert
  <2>1. stack # <<>> /\ Pop
    BY <1>2 DEF FinishMint, FinishVault, _unlockMint, Revert, Return, At
  <2> QED
    BY <2>1, NothingUnfinished DEF EffectInv
<1> QED
  BY <1>1, <1>2, EntryEffect, MintGoesOnEffect, VaultGoesOnEffect
  DEF Next, TransactionStep, MintStep, VaultStep

\* The balances show, at every moment of a transaction, exactly what the call
\* in progress has taken from its box or put into it.
THEOREM EffectInvariant == Spec => []EffectInv
<1>1. Init => EffectInv
  BY DEF Init, EffectInv
<1>2. IInv /\ IInv' /\ RightsInv /\ MintInv /\ CustodyInv /\ EffectInv /\ [Next]_vars
      => EffectInv'
  BY NextEffect
<1> QED
  BY <1>1, <1>2, Inductive, RightsInvariant, MintsInvariant, CustodyInvariant, PTL
  DEF Spec

\* All the invariants together, as a run checks them.
THEOREM WholeInvariant == Spec => []WholeInv
BY Inductive, RightsInvariant, MintsInvariant, CustodyInvariant, EffectInvariant, PTL
DEF WholeInv

-----------------------------------------------------------------------------
(* What any step leaves to the ledger's boxes *)

CommittedOK == Committed \in Storage /\ Fresh(Committed)

LEMMA CommittedSound == IInv => CommittedOK
<1> SUFFICES ASSUME IInv PROVE CommittedOK
  OBVIOUS
<1>1. CASE stack = <<>>
  BY <1>1 DEF Committed, CommittedOK, IInv, TypeOK
<1>2. CASE stack # <<>>
  BY <1>2, InProgress DEF Committed, CommittedOK, FrameOK
<1> QED
  BY <1>1, <1>2

LEMMA CommittedNext == IInv' => CommittedOK'
BY CommittedSound, PTL

\* Whoever owns a box is entitled to it.
LEMMA SomeoneEntitled ==
  ASSUME NEW s \in Storage, NEW b \in Box
  PROVE  {x \in Holder : ApprovedOrOwnerIn(s, x, b)} # {} <=> s.owner[b] # Nobody
<1>1. s.owner[b] \in Holder \cup {Nobody}
  BY DEF Storage
<1>2. ASSUME s.owner[b] # Nobody
      PROVE  s.owner[b] \in Holder /\ ApprovedOrOwnerIn(s, s.owner[b], b)
  BY <1>1, <1>2 DEF ApprovedOrOwnerIn
<1>3. ASSUME s.owner[b] = Nobody, NEW x \in Holder PROVE ~ApprovedOrOwnerIn(s, x, b)
  BY <1>3 DEF ApprovedOrOwnerIn
<1> QED
  BY <1>2, <1>3

\* The boxes a step mints.
NewIds == {b \in Box : Committed.owner[b] = Nobody /\ Committed'.owner[b] # Nobody}

\* What callbacks may change, and what a lock keeps them from changing.
LEMMA SettingsKept ==
  ASSUME IInv, IInv', MintInv, [Next]_vars, NEW New, New = NewIds
  PROVE  Ledger!Settings(New)
<1>1. PICK s, t, n : s = Committed /\ t = Committed' /\ n = now
  OBVIOUS
<1>2. s \in Storage /\ t \in Storage /\ Fresh(s) /\ Fresh(t) /\ n \in Nat
  <2>1. Fresh(Committed)' => Fresh(t)
    BY <1>1 DEF Fresh
  <2> QED
    BY <1>1, <2>1, CommittedSound, CommittedNext DEF CommittedOK, IInv, TypeOK
<1>3. ASSUME NEW b \in Box
      PROVE  /\ t.owner[b] # Nobody <=> (s.owner[b] # Nobody \/ b \in New)
             /\ s.unlockTimestamp[b] \in Nat
             /\ ~(s.unlockTimestamp[b] <= n) \/ ~(s.owner[b] # Nobody \/ b \in New) =>
                   /\ t.unlockTimestamp[b] = s.unlockTimestamp[b]
                   /\ t.storeRestricted[b] = s.storeRestricted[b]
  <2>1. s.owner[b] # Nobody => t.owner[b] # Nobody
    BY <1>1, TermsKept
  <2>2. b \in New <=> s.owner[b] = Nobody /\ t.owner[b] # Nobody
    BY <1>1 DEF NewIds
  <2>3. s.unlockTimestamp[b] \in Nat
    BY <1>2 DEF Storage
  <2>4. ~(s.unlockTimestamp[b] <= n) =>
            /\ t.unlockTimestamp[b] = s.unlockTimestamp[b]
            /\ t.storeRestricted[b] = s.storeRestricted[b]
    BY <1>1, <1>2, <2>3, LockedKept
  <2>5. ASSUME s.owner[b] = Nobody, t.owner[b] = Nobody
        PROVE  /\ t.unlockTimestamp[b] = s.unlockTimestamp[b]
               /\ t.storeRestricted[b] = s.storeRestricted[b]
    <3>1. s.storeRestricted[b] \in BOOLEAN /\ t.storeRestricted[b] \in BOOLEAN
      BY <1>2 DEF Storage
    <3> QED
      BY <1>2, <2>5, <3>1 DEF Fresh
  <2> QED
    BY <2>1, <2>2, <2>3, <2>4, <2>5
<1>4. \A b \in Box :
        /\ {x \in Holder : ApprovedOrOwnerIn(s, x, b)} # {} <=> s.owner[b] # Nobody
        /\ {x \in Holder : ApprovedOrOwnerIn(t, x, b)} # {} <=> t.owner[b] # Nobody
  BY <1>2, SomeoneEntitled
<1>5. \A b \in Box :
        {x \in Holder : ApprovedOrOwnerIn(Committed, x, b)}'
            = {x \in Holder : ApprovedOrOwnerIn(t, x, b)}
  BY <1>1 DEF ApprovedOrOwnerIn
<1> QED
  BY <1>1, <1>3, <1>4, <1>5
  DEF Ledger!Settings, Ledger!Unlocked, Ledger!Minted

\* A box that a step neither mints nor destroys is owed the same lock, and
\* may be destroyed from the same date on.
LEMMA BoxTermsKept ==
  ASSUME IInv, IInv', MintInv, [Next]_vars, NEW b \in Box, b \notin NewIds,
         NEW s, s = Committed, NEW t, t = Committed'
  PROVE  /\ t.lockedDestructionEnd[b] = s.lockedDestructionEnd[b]
         /\ (b \in t.destroyedBoxes <=> b \in s.destroyedBoxes) =>
               \A a \in Asset : LockOwedTo(t, b, a) = LockOwedTo(s, b, a)
<1>1. s \in Storage /\ t \in Storage /\ Fresh(s) /\ Fresh(t)
  <2>1. Fresh(Committed)' => Fresh(t)
    BY DEF Fresh
  <2> QED
    BY <2>1, CommittedSound, CommittedNext DEF CommittedOK
<1>2. CASE s.owner[b] = Nobody
  <2>1. t.owner[b] = Nobody
    BY <1>2 DEF NewIds
  <2> QED
    BY <1>1, <1>2, <2>1 DEF Fresh, LockOwedTo
<1>3. CASE s.owner[b] # Nobody
  <2>1. /\ t.owner[b] # Nobody /\ t.tokenTypes[b] = s.tokenTypes[b]
        /\ t.types[s.tokenTypes[b]] = s.types[s.tokenTypes[b]]
        /\ t.lockedDestructionEnd[b] = s.lockedDestructionEnd[b]
    BY <1>3, TermsKept
  <2> QED
    BY <1>3, <2>1 DEF LockOwedTo
<1> QED
  BY <1>2, <1>3

Owed == [b \in Box |-> [a \in Asset |-> LockOwedTo(Committed, b, a)]]

LEMMA OwedNext ==
  ASSUME NEW t, t = Committed'
  PROVE  Owed' = [b \in Box |-> [a \in Asset |-> LockOwedTo(t, b, a)]]
BY DEF Owed, LockOwedTo

\* The same of all boxes, where a step mints none.
LEMMA NothingMinted ==
  ASSUME IInv, IInv', MintInv, [Next]_vars, NewIds = {}
  PROVE  /\ Ledger!Settings({})
         /\ Committed'.lockedDestructionEnd = Committed.lockedDestructionEnd
         /\ Committed'.destroyedBoxes = Committed.destroyedBoxes => Owed' = Owed
<1>1. PICK s, t : s = Committed /\ t = Committed'
  OBVIOUS
<1>2. \A b \in Box : t.lockedDestructionEnd[b] = s.lockedDestructionEnd[b]
  BY <1>1, BoxTermsKept
<1>3. t.lockedDestructionEnd = s.lockedDestructionEnd
  <2>1. s \in Storage /\ t \in Storage
    BY <1>1, CommittedSound, CommittedNext DEF CommittedOK
  <2> QED
    BY <1>2, <2>1 DEF Storage
<1>4. ASSUME t.destroyedBoxes = s.destroyedBoxes PROVE Owed' = Owed
  <2>1. \A b \in Box : \A a \in Asset : LockOwedTo(t, b, a) = LockOwedTo(s, b, a)
    BY <1>1, <1>4, BoxTermsKept
  <2> QED
    BY <1>1, <2>1, OwedNext DEF Owed
<1> QED
  BY <1>1, <1>3, <1>4, SettingsKept

-----------------------------------------------------------------------------
(* Steps between transactions *)

\* Time passes between transactions only.
LEMMA TimeStands ==
  ASSUME IInv, [Next]_vars, ~Tick
  PROVE  now' = now
<1>1. CASE UnguardedCall \/ UNCHANGED vars
  BY <1>1 DEF UnguardedCall, Approve, SetApprovalForAll, TransferFrom, GrantRole,
              RevokeRole, lockBox, setStoreRestriction, vars
<1>2. CASE MintCall
  <2>1. \/ \E x \in Account, defs \in TypeBatches : addTypes(x, defs)
        \/ \E op, x, t, r, wanted, to : BeginMint(op, x, t, r, wanted, to)
    BY <1>2 DEF MintCall, safeMint, safeMintByType, safeBatchMintByType
  <2> QED
    BY <2>1 DEF addTypes, BeginMint
<1>3. CASE VaultCall
  <2>1. PICK op, x, b, dest, to, calls : BeginVault(op, x, b, dest, to, calls)
    BY <1>3 DEF VaultCall, store, withdraw, transferBetweenBoxes, destroy
  <2> QED
    BY <2>1 DEF BeginVault
<1>4. CASE TransactionStep
  <2>1. CASE MintStep \/ Revert
    BY <2>1 DEF MintStep, MintNext, RecipientAccepts, FinishMint, Revert
  <2>2. CASE CreditBox \/ DebitBox \/ MoveBetweenBoxes
    BY <2>2 DEF CreditBox, DebitBox, MoveBetweenBoxes
  <2>3. CASE CallReturns \/ FinishVault \/ BeginUnlock \/ _unlockMint
    BY <2>3 DEF CallReturns, FinishVault, BeginUnlock, _unlockMint
  <2> QED
    BY <1>4, <2>1, <2>2, <2>3 DEF TransactionStep, VaultStep
<1>5. CASE \E x \in Account, a \in Donations : Donate(x, a)
  BY <1>5 DEF Donate
<1> QED
  BY <1>1, <1>2, <1>3, <1>4, <1>5 DEF Next

\* What commits nothing does nothing, or is a step of the clock.
LEMMA NothingCommitted ==
  ASSUME IInv, [Next]_vars, Committed' = Committed
  PROVE  [Ledger!Next]_(Ledger!vars)
<1>1. CASE Tick
  <2>1. now' > now
    BY <1>1 DEF Tick, IInv, TypeOK
  <2>2. Ledger!Wait
    BY <2>1 DEF Ledger!Wait, LockOwedTo, ApprovedOrOwnerIn
  <2> QED
    BY <2>2 DEF Ledger!Next
<1>2. CASE ~Tick
  <2>1. now' = now
    BY <1>2, TimeStands
  <2> QED
    BY <2>1 DEF Ledger!vars, LockOwedTo, ApprovedOrOwnerIn
<1> QED
  BY <1>1, <1>2

\* Approvals, sales, types, locks and restrictions, and gifts of tokens.
LEMMA BetweenTransactions ==
  ASSUME IInv, IInv', MintInv, [Next]_vars,
         stack = <<>>, Quiet, Committed = Current, Committed' = Current'
  PROVE  [Ledger!Next]_(Ledger!vars)
<1>1. CASE Committed' = Committed
  BY <1>1, NothingCommitted
<1>2. CASE Committed' # Committed /\ bank' = bank
  <2>1. ~Tick
    BY <1>2 DEF Tick, Current, nftVars, typeVars, boxVars, vaultVars
  <2>2. NewIds = {}
    BY DEF NewIds, Quiet, Current
  <2>3. UNCHANGED <<Committed.indexed, Committed.bank, Committed.destroyedBoxes, now>>
    BY <1>2, <2>1, TimeStands DEF Quiet, Current, vaultVars
  <2>4. Ledger!Configure
    BY <2>2, <2>3, NothingMinted DEF Ledger!Configure, Owed
  <2> QED
    BY <2>4 DEF Ledger!Next
<1>3. CASE bank' # bank
  <2>1. PICK x \in Account, a \in Donations : Donate(x, a)
    BY <1>3 DEF Quiet
  <2>2. bank \in [Asset -> [Holder -> Nat]] /\ a \in Asset /\ x # Self
    BY <2>1, FieldsOfCurrent, DonationsInput, AccountsAssumption
    DEF IInv, TypeOK, FieldsOK
  <2>3. \A c \in Asset : Moved(bank, x, Self, Only(a, 1))[c]
                            = [bank EXCEPT ![a][x] = @ - 1, ![a][Self] = @ + 1][c]
    <3>1. PICK bk \in [Asset -> [Holder -> Nat]] : bk = bank
      BY <2>2
    <3> SUFFICES ASSUME NEW c \in Asset
                 PROVE  Moved(bk, x, Self, Only(a, 1))[c]
                          = [bk EXCEPT ![a][x] = @ - 1, ![a][Self] = @ + 1][c]
      BY <3>1
    <3>2. CASE c = a
      BY <2>2, <3>2 DEF Moved, Only, Holder
    <3>3. CASE c # a
      <4>1. [bk[c] EXCEPT ![x] = @ - 0, ![Self] = @ + 0] = bk[c]
        BY <2>2 DEF Holder
      <4> QED
        BY <2>2, <3>3, <4>1 DEF Moved, Only
    <3> QED
      BY <3>2, <3>3
  <2>4. bank' = [bank EXCEPT ![a][x] = @ - 1, ![a][Self] = @ + 1]
    <3>1. bank' = [c \in Asset |-> Moved(bank, x, Self, Only(a, 1))[c]]
      BY <2>1 DEF Donate, Moved
    <3> QED
      BY <2>2, <2>3, <3>1
  <2>5. UNCHANGED <<owner, approved, operators, types, tokenTypes, storeRestricted,
                    lockedDestructionEnd, unlockTimestamp, destroyedBoxes, indexed, now>>
    BY <2>1 DEF Donate, nftVars, typeVars, boxVars, vaultVars
  <2>6. Ledger!Receive(x, a)
    BY <2>4, <2>5 DEF Ledger!Receive, Current, LockOwedTo, ApprovedOrOwnerIn
  <2> QED
    BY <2>2, <2>6 DEF Ledger!Next
<1> QED
  BY <1>1, <1>2, <1>3

-----------------------------------------------------------------------------
(* Returns of the vault's functions *)

\* What they find, and what they commit.
LEMMA VaultReturns ==
  ASSUME IInv, RightsInv, MintInv, EffectInv, [Next]_vars, FinishVault \/ _unlockMint,
         NEW s, s = Committed, NEW t, t = Committed', NEW f, f = Top
  PROVE  /\ f \in VaultFrame /\ f.pre = s /\ s \in Storage
         /\ f.caller \in Account /\ f.caller \in Holder /\ Self \in Holder
         /\ f.box \in Box /\ f.dest \in Box /\ f.to \in Holder
         /\ indexed \in [Box -> [Asset -> Nat]] /\ bank \in [Asset -> [Holder -> Nat]]
         /\ t.indexed = indexed /\ t.destroyedBoxes = destroyedBoxes /\ t.bank = bank'
         /\ s.unlockTimestamp[f.box] <= now /\ s.unlockTimestamp[f.dest] <= now
         /\ DestroysByRight(f) /\ ActsByRight(f) /\ WellAddressed(f) /\ EffectSoFar(f)
         /\ NewIds = {} /\ now' = now
         /\ \A a \in Asset : Underway(Payments, a) = 0
<1>1. /\ stack # <<>> /\ Top.op \in VaultOp /\ Pop /\ Top.pc # "calling"
      /\ UNCHANGED <<vaultVars, now>>
  BY DEF FinishVault, _unlockMint, At, VaultOp, Return
<1>2. /\ f = stack[1] /\ f \in VaultFrame /\ FrameOK(f) /\ f.pre \in Storage
      /\ f.op \in VaultOp /\ f.op \notin MintOp
  BY <1>1, InProgress
<1>3. stack' = <<>>
  BY <1>1, NothingUnfinished
<1>4. s = f.pre /\ Committed' = Current'
  BY <1>1, <1>2, <1>3 DEF Committed
<1>5. /\ t.indexed = indexed /\ t.destroyedBoxes = destroyedBoxes /\ t.bank = bank'
  BY <1>1, <1>4 DEF Current, vaultVars
<1>6. NewIds = {}
  <2>1. ~FinishMint
    BY <1>2 DEF FinishMint, At
  <2> QED
    BY <2>1, NewBoxes DEF NewIds
<1>7. ActsByRight(f) /\ EffectSoFar(f)
  BY <1>1, <1>2 DEF RightsInv, EffectInv
<1>8. \A a \in Asset : Underway(Payments, a) = 0
  BY <1>1 DEF Underway, At
<1>9. indexed \in [Box -> [Asset -> Nat]] /\ bank \in [Asset -> [Holder -> Nat]]
  BY FieldsOfCurrent DEF IInv, TypeOK, FieldsOK
<1>10. s.unlockTimestamp[f.box] <= now /\ s.unlockTimestamp[f.dest] <= now
  BY <1>2, <1>4 DEF FrameOK, TouchesUnlocked
<1> QED
  BY <1>1, <1>2, <1>4, <1>5, <1>6, <1>7, <1>8, <1>9, <1>10
  DEF VaultFrame, Holder, FrameOK, ActsByRight

\* Between calls, what has moved is what the contents show.
LEMMA MovedInAll ==
  ASSUME NEW s \in Storage, NEW l \in [Box -> [Asset -> Nat]], NEW f, NEW b \in Box,
         f.pre = s, l = indexed, b = f.box,
         \A a \in Asset : Underway(Payments, a) = 0
  PROVE  MovedSoFar(f) = IF f.op = "store"
                         THEN [a \in Asset |-> l[b][a] - s.indexed[b][a]]
                         ELSE [a \in Asset |-> s.indexed[b][a] - l[b][a]]
<1>1. ASSUME NEW a \in Asset
      PROVE  /\ (l[b][a] - s.indexed[b][a]) - Underway(Payments, a)
                    = l[b][a] - s.indexed[b][a]
             /\ (s.indexed[b][a] - l[b][a]) - Underway(Payments, a)
                    = s.indexed[b][a] - l[b][a]
  <2>1. l[b][a] \in Nat /\ s.indexed[b][a] \in Nat
    BY DEF Storage
  <2> QED
    BY <2>1
<1> QED
  BY <1>1 DEF MovedSoFar

\* A store that returns has added what its caller paid.
LEMMA StoreDone ==
  ASSUME IInv, IInv', RightsInv, MintInv, EffectInv, [Next]_vars, OwnStandard,
         FinishVault, NEW f, f = Top, f.op = "store"
  PROVE  Ledger!Store(f.caller, f.box)
<1>1. PICK s, t, l : s = Committed /\ t = Committed' /\ l = indexed
  OBVIOUS
<1>2. /\ f \in VaultFrame /\ f.pre = s /\ s \in Storage
      /\ f.caller \in Account /\ f.caller \in Holder /\ Self \in Holder
      /\ f.box \in Box /\ l \in [Box -> [Asset -> Nat]]
      /\ t.indexed = l /\ t.destroyedBoxes = destroyedBoxes /\ t.bank = bank'
      /\ s.unlockTimestamp[f.box] <= now
      /\ DestroysByRight(f) /\ ActsByRight(f) /\ EffectSoFar(f)
      /\ NewIds = {} /\ now' = now
      /\ \A a \in Asset : Underway(Payments, a) = 0
  BY <1>1, VaultReturns
<1>3. PICK x, b : x = f.caller /\ b = f.box
  OBVIOUS
<1>4. f.dest = b
  BY <1>2, <1>3 DEF ActsByRight, WellAddressed, VaultOp
<1>5. /\ s.owner[b] # Nobody /\ b \notin s.destroyedBoxes
      /\ s.storeRestricted[b] => ApprovedOrOwnerIn(s, x, b)
  BY <1>2, <1>3, <1>4 DEF ActsByRight, GivesByRight
<1>6. /\ \A d \in Box \ {b} : l[d] = s.indexed[d]
      /\ \A a \in Asset : s.indexed[b][a] <= l[b][a]
  BY <1>1, <1>2, <1>3, <1>4 DEF ActsByRight, WritesItsBoxes
<1>7. bank' = Moved(s.bank, x, Self, [a \in Asset |-> l[b][a] - s.indexed[b][a]])
  <2>1. PICK m : m = MovedSoFar(f)
    OBVIOUS
  <2>2. bank = Moved(s.bank, x, Self, m)
    BY <1>2, <1>3, <2>1 DEF EffectSoFar, BalancesFollow, Payments, PayerOf, PayeeOf,
                            FinishVault, At
  <2>3. m = [a \in Asset |-> l[b][a] - s.indexed[b][a]]
    BY <1>1, <1>2, <1>3, <2>1, MovedInAll
  <2> QED
    BY <2>2, <2>3 DEF FinishVault
<1>8. destroyedBoxes = s.destroyedBoxes
  BY <1>2 DEF DestroysByRight
<1>9. /\ Ledger!Settings({}) /\ t.lockedDestructionEnd = s.lockedDestructionEnd
      /\ Owed' = Owed
  BY <1>1, <1>2, <1>8, NothingMinted
<1>10. \A a \in Asset : l[b][a] - s.indexed[b][a] >= 0
  <2> SUFFICES ASSUME NEW a \in Asset PROVE l[b][a] - s.indexed[b][a] >= 0
    OBVIOUS
  <2>1. l[b][a] \in Nat /\ s.indexed[b][a] \in Nat
    BY <1>2, <1>3 DEF Storage
  <2> QED
    BY <1>6, <2>1
<1>11. {y \in Holder : ApprovedOrOwnerIn(s, y, b)} # {}
  BY <1>2, <1>3, <1>5, SomeoneEntitled
<1>12. Ledger!Store(x, b)
  BY <1>1, <1>2, <1>3, <1>5, <1>6, <1>7, <1>8, <1>9, <1>10, <1>11
  DEF Ledger!Store, Ledger!Minted, Ledger!Unlocked, Ledger!Positive, Ledger!Gain,
      Ledger!OnlyContentsOf, Ledger!Given, Moved, Owed
<1> QED
  BY <1>3, <1>12

\* A withdrawal that returns has paid its payee what it took.
LEMMA WithdrawalDone ==
  ASSUME IInv, IInv', RightsInv, MintInv, EffectInv, [Next]_vars,
         FinishVault, NEW f, f = Top, f.op = "withdraw"
  PROVE  Ledger!Withdraw(f.caller, f.box, f.to)
<1>1. PICK s, t, l : s = Committed /\ t = Committed' /\ l = indexed
  OBVIOUS
<1>2. /\ f \in VaultFrame /\ f.pre = s /\ s \in Storage
      /\ f.caller \in Holder /\ f.box \in Box /\ l \in [Box -> [Asset -> Nat]]
      /\ t.indexed = l /\ t.destroyedBoxes = destroyedBoxes /\ t.bank = bank'
      /\ s.unlockTimestamp[f.box] <= now
      /\ DestroysByRight(f) /\ ActsByRight(f) /\ EffectSoFar(f)
      /\ NewIds = {} /\ now' = now
      /\ \A a \in Asset : Underway(Payments, a) = 0
  BY <1>1, VaultReturns
<1>3. PICK x, b, to : x = f.caller /\ b = f.box /\ to = f.to
  OBVIOUS
<1>4. f.dest = b
  BY <1>2, <1>3 DEF ActsByRight, WellAddressed, VaultOp
<1>5. x \in {y \in Holder : ApprovedOrOwnerIn(s, y, b)}
  BY <1>2, <1>3 DEF ActsByRight, TakesByRight
<1>6. /\ \A d \in Box \ {b} : l[d] = s.indexed[d]
      /\ \A a \in Asset : l[b][a] <= s.indexed[b][a]
  BY <1>1, <1>2, <1>3, <1>4 DEF ActsByRight, WritesItsBoxes
<1>7. bank' = Moved(s.bank, Self, to, [a \in Asset |-> s.indexed[b][a] - l[b][a]])
  <2>1. bank = Moved(s.bank, Self, to, MovedSoFar(f))
    BY <1>2, <1>3 DEF EffectSoFar, BalancesFollow, Payments, PayerOf, PayeeOf,
                      FinishVault, At
  <2>2. MovedSoFar(f) = [a \in Asset |-> s.indexed[b][a] - l[b][a]]
    BY <1>1, <1>2, <1>3, MovedInAll
  <2> QED
    BY <2>1, <2>2 DEF FinishVault
<1>8. destroyedBoxes = s.destroyedBoxes
  BY <1>2 DEF DestroysByRight
<1>9. /\ Ledger!Settings({}) /\ t.lockedDestructionEnd = s.lockedDestructionEnd
      /\ Owed' = Owed
  BY <1>1, <1>2, <1>8, NothingMinted
<1>10. \A a \in Asset : s.indexed[b][a] - l[b][a] >= 0
  <2> SUFFICES ASSUME NEW a \in Asset PROVE s.indexed[b][a] - l[b][a] >= 0
    OBVIOUS
  <2>1. l[b][a] \in Nat /\ s.indexed[b][a] \in Nat
    BY <1>2, <1>3 DEF Storage
  <2> QED
    BY <1>6, <2>1
<1>11. Ledger!Withdraw(x, b, to)
  BY <1>1, <1>2, <1>3, <1>5, <1>6, <1>7, <1>8, <1>9, <1>10
  DEF Ledger!Withdraw, Ledger!Unlocked, Ledger!Positive, Ledger!Loss,
      Ledger!OnlyContentsOf, Ledger!Given, Moved, Owed
<1> QED
  BY <1>3, <1>11

\* A transfer that returns has put into the one box what it took from the
\* other, and moved no balance.
LEMMA TransferDone ==
  ASSUME IInv, IInv', RightsInv, MintInv, EffectInv, [Next]_vars, OwnStandard,
         FinishVault, NEW f, f = Top, f.op = "transferBetweenBoxes"
  PROVE  Ledger!Transfer(f.caller, f.box, f.dest)
<1>1. PICK s, t, l : s = Committed /\ t = Committed' /\ l = indexed
  OBVIOUS
<1>2. /\ f \in VaultFrame /\ f.pre = s /\ s \in Storage
      /\ f.caller \in Holder /\ f.box \in Box /\ f.dest \in Box
      /\ l \in [Box -> [Asset -> Nat]]
      /\ t.indexed = l /\ t.destroyedBoxes = destroyedBoxes /\ t.bank = bank'
      /\ s.unlockTimestamp[f.box] <= now /\ s.unlockTimestamp[f.dest] <= now
      /\ DestroysByRight(f) /\ ActsByRight(f) /\ EffectSoFar(f)
      /\ NewIds = {} /\ now' = now
  BY <1>1, VaultReturns
<1>3. PICK x, src, dest : x = f.caller /\ src = f.box /\ dest = f.dest
  OBVIOUS
<1>4. x \in {y \in Holder : ApprovedOrOwnerIn(s, y, src)}
  BY <1>2, <1>3 DEF ActsByRight, TakesByRight
<1>5. /\ s.owner[dest] # Nobody /\ dest \notin s.destroyedBoxes
      /\ s.storeRestricted[dest] => x \in {y \in Holder : ApprovedOrOwnerIn(s, y, dest)}
  BY <1>2, <1>3 DEF ActsByRight, GivesByRight
<1>6. {y \in Holder : ApprovedOrOwnerIn(s, y, dest)} # {}
  BY <1>2, <1>3, <1>5, SomeoneEntitled
<1>7. \A d \in Box \ {src, dest} : l[d] = s.indexed[d]
  BY <1>1, <1>2, <1>3 DEF ActsByRight, WritesItsBoxes
<1>8. ASSUME NEW a \in Asset
      PROVE  /\ l[src][a] \in Nat /\ s.indexed[src][a] \in Nat
             /\ l[dest][a] \in Nat /\ s.indexed[dest][a] \in Nat
             /\ l[src][a] + l[dest][a] = s.indexed[src][a] + s.indexed[dest][a]
  <2>1. /\ l[src][a] \in Nat /\ s.indexed[src][a] \in Nat
        /\ l[dest][a] \in Nat /\ s.indexed[dest][a] \in Nat
    BY <1>2, <1>3 DEF Storage
  <2> QED
    BY <1>1, <1>2, <1>3, <2>1 DEF EffectSoFar, MovesWhole
<1>9. \A a \in Asset : s.indexed[src][a] - l[src][a] >= 0
  <2> SUFFICES ASSUME NEW a \in Asset PROVE s.indexed[src][a] - l[src][a] >= 0
    OBVIOUS
  <2>1. CASE src = dest
    BY <1>8, <2>1
  <2>2. CASE src # dest
    <3>1. l[src][a] <= s.indexed[src][a]
      BY <1>1, <1>2, <1>3, <2>2 DEF ActsByRight, WritesItsBoxes, Transfers
    <3> QED
      BY <1>8, <3>1
  <2> QED
    BY <2>1, <2>2
<1>10. [a \in Asset |-> l[dest][a] - s.indexed[dest][a]] =
          IF src = dest THEN [a \in Asset |-> 0]
                        ELSE [a \in Asset |-> s.indexed[src][a] - l[src][a]]
  <2>1. ASSUME NEW a \in Asset
        PROVE  /\ src = dest => l[dest][a] - s.indexed[dest][a] = 0
               /\ l[dest][a] - s.indexed[dest][a] = s.indexed[src][a] - l[src][a]
    <3>1. PICK i \in Nat, j \in Nat, k \in Nat, n \in Nat :
            /\ i = l[src][a] /\ j = l[dest][a]
            /\ k = s.indexed[src][a] /\ n = s.indexed[dest][a]
            /\ i + j = k + n
      BY <1>8
    <3>2. j - n = k - i /\ (i = j /\ k = n => j - n = 0)
      BY <3>1
    <3> QED
      BY <3>1, <3>2
  <2> QED
    BY <2>1
<1>11. bank' = s.bank
  BY <1>2 DEF EffectSoFar, BalancesFollow, Payments, FinishVault
<1>12. destroyedBoxes = s.destroyedBoxes
  BY <1>2 DEF DestroysByRight
<1>13. /\ Ledger!Settings({}) /\ t.lockedDestructionEnd = s.lockedDestructionEnd
       /\ Owed' = Owed
  BY <1>1, <1>2, <1>12, NothingMinted
<1>14. Ledger!Transfer(x, src, dest)
  BY <1>1, <1>2, <1>3, <1>4, <1>5, <1>6, <1>7, <1>9, <1>10, <1>11, <1>12, <1>13
  DEF Ledger!Transfer, Ledger!Unlocked, Ledger!Minted, Ledger!Positive, Ledger!Loss,
      Ledger!Gain, Ledger!Nothing, Ledger!OnlyContentsOf, Owed
<1> QED
  BY <1>3, <1>14

\* Giving, in the ledger, is what a token does.
LEMMA GivenIsMoved ==
  ASSUME NEW bk, NEW x, NEW y, NEW m
  PROVE  Ledger!Given(bk, x, y, m) = Moved(bk, x, y, m)
BY DEF Ledger!Given, Moved

\* A destruction that returns has paid out the contents, and then, to whom
\* the box belonged by then, the lock it was minted with.
LEMMA DestructionDone ==
  ASSUME IInv, IInv', RightsInv, MintInv, EffectInv, [Next]_vars,
         _unlockMint, NEW f, f = Top
  PROVE  \E to \in Holder : Ledger!Destroy(f.caller, f.box, to, f.to)
<1>1. PICK s, t, l : s = Committed /\ t = Committed' /\ l = indexed
  OBVIOUS
<1>2. /\ f \in VaultFrame /\ f.pre = s /\ s \in Storage
      /\ f.caller \in Holder /\ f.box \in Box /\ l \in [Box -> [Asset -> Nat]]
      /\ t.indexed = l /\ t.destroyedBoxes = destroyedBoxes /\ t.bank = bank'
      /\ s.unlockTimestamp[f.box] <= now
      /\ DestroysByRight(f) /\ ActsByRight(f) /\ EffectSoFar(f)
      /\ NewIds = {} /\ now' = now
      /\ \A a \in Asset : Underway(Payments, a) = 0
  BY <1>1, VaultReturns
<1>3. f.op = "destroy" /\ f.pc = "releasing" /\ stack # <<>> /\ f = stack[1]
  BY <1>2, InProgress DEF _unlockMint, At
<1>4. PICK x, b, heir : x = f.caller /\ b = f.box /\ heir = f.to
  OBVIOUS
<1>5. f.dest = b
  BY <1>2, <1>3, <1>4 DEF ActsByRight, WellAddressed, VaultOp
<1>6. x \in {y \in Holder : ApprovedOrOwnerIn(s, y, b)} /\ s.owner[b] # Nobody
  BY <1>2, <1>3, <1>4 DEF ActsByRight, TakesByRight, ApprovedOrOwnerIn
<1>7. /\ b \notin s.destroyedBoxes /\ s.lockedDestructionEnd[b] <= now
      /\ destroyedBoxes = s.destroyedBoxes \cup {b}
  BY <1>2, <1>3, <1>4 DEF EffectSoFar, DestroysByRight
<1>8. /\ \A d \in Box \ {b} : l[d] = s.indexed[d]
      /\ \A a \in Asset : l[b][a] <= s.indexed[b][a]
  BY <1>1, <1>2, <1>3, <1>4, <1>5 DEF ActsByRight, WritesItsBoxes
<1>9. PICK to \in Holder :
        bank = Moved(s.bank, Self, to, [a \in Asset |-> s.indexed[b][a] - l[b][a]])
  <2>1. PICK to \in Holder : bank = Moved(s.bank, Self, to, MovedSoFar(f))
    BY <1>2, <1>3 DEF EffectSoFar, BalancesFollow, Payments, PayerOf
  <2>2. MovedSoFar(f) = [a \in Asset |-> s.indexed[b][a] - l[b][a]]
    <3>1. MovedSoFar(f) = IF f.op = "store"
                          THEN [a \in Asset |-> l[b][a] - s.indexed[b][a]]
                          ELSE [a \in Asset |-> s.indexed[b][a] - l[b][a]]
      BY <1>1, <1>2, <1>4, MovedInAll
    <3>2. f.op # "store"
      BY <1>3
    <3> QED
      BY <3>1, <3>2
  <2> QED
    BY <2>1, <2>2
<1>10. bank' = Moved(bank, Self, heir, [a \in Asset |-> LockOwedTo(s, b, a)])
  <2>1. types[tokenTypes[b]] = s.types[s.tokenTypes[b]]
    <3>1. /\ t.tokenTypes[b] = s.tokenTypes[b]
          /\ t.types[s.tokenTypes[b]] = s.types[s.tokenTypes[b]]
      BY <1>1, <1>2, <1>4, <1>6, TermsKept
    <3>2. stack' = <<>>
      BY <1>3, NothingUnfinished DEF _unlockMint, Return
    <3>3. t.tokenTypes = tokenTypes /\ t.types = types
      BY <1>1, <3>2 DEF Committed, Current, _unlockMint, typeVars
    <3> QED
      BY <3>1, <3>3
  <2>2. PICK u : u = s.types[s.tokenTypes[b]]
    OBVIOUS
  <2>3. bank' = Moved(bank, Self, heir, Only(u.lockToken, u.lockAmount))
    BY <1>4, <2>1, <2>2 DEF _unlockMint
  <2>4. Only(u.lockToken, u.lockAmount) = [a \in Asset |-> LockOwedTo(s, b, a)]
    <3>1. \A a \in Asset : LockOwedTo(s, b, a) = IF a = u.lockToken THEN u.lockAmount ELSE 0
      BY <1>6, <1>7, <2>2 DEF LockOwedTo
    <3> QED
      BY <3>1 DEF Only
  <2> QED
    BY <2>3, <2>4
<1>11. Owed' = [Owed EXCEPT ![b] = [a \in Asset |-> 0]]
  <2>1. \A d \in Box \ {b} : \A a \in Asset : LockOwedTo(t, d, a) = LockOwedTo(s, d, a)
    <3> SUFFICES ASSUME NEW d \in Box \ {b}
                 PROVE  \A a \in Asset : LockOwedTo(t, d, a) = LockOwedTo(s, d, a)
      OBVIOUS
    <3>1. d \in t.destroyedBoxes <=> d \in s.destroyedBoxes
      BY <1>2, <1>7
    <3> QED
      BY <1>1, <1>2, <3>1, BoxTermsKept
  <2>2. \A a \in Asset : LockOwedTo(t, b, a) = 0
    BY <1>2, <1>7 DEF LockOwedTo
  <2>3. Owed' = [d \in Box |-> [a \in Asset |-> LockOwedTo(t, d, a)]]
    BY <1>1, OwedNext
  <2>4. \A d \in Box : Owed'[d] = IF d = b THEN [a \in Asset |-> 0] ELSE Owed[d]
    BY <1>1, <2>1, <2>2, <2>3 DEF Owed
  <2>5. Owed' = [d \in Box |-> Owed'[d]]
    BY <2>3
  <2>6. [Owed EXCEPT ![b] = [a \in Asset |-> 0]]
           = [d \in Box |-> IF d = b THEN [a \in Asset |-> 0] ELSE Owed[d]]
    BY DEF Owed
  <2> QED
    BY <2>4, <2>5, <2>6
<1>12. Ledger!Settings({}) /\ t.lockedDestructionEnd = s.lockedDestructionEnd
  BY <1>1, <1>2, NothingMinted
<1>13. \A a \in Asset : s.indexed[b][a] - l[b][a] >= 0
  <2> SUFFICES ASSUME NEW a \in Asset PROVE s.indexed[b][a] - l[b][a] >= 0
    OBVIOUS
  <2>1. l[b][a] \in Nat /\ s.indexed[b][a] \in Nat
    BY <1>2, <1>4 DEF Storage
  <2> QED
    BY <1>8, <2>1
<1>14. Ledger!Loss(b) = [a \in Asset |-> s.indexed[b][a] - l[b][a]]
  BY <1>1, <1>2 DEF Ledger!Loss
<1>15. bank' = Ledger!Given(Ledger!Given(s.bank, Self, to, Ledger!Loss(b)), Self, heir, Owed[b])
  BY <1>1, <1>2, <1>4, <1>9, <1>10, <1>14, GivenIsMoved DEF Owed
<1>16. Ledger!Destroy(x, b, to, heir)
  BY <1>1, <1>2, <1>4, <1>6, <1>7, <1>8, <1>11, <1>12, <1>13, <1>14, <1>15
  DEF Ledger!Destroy, Ledger!Unlocked, Ledger!Positive, Ledger!Nothing,
      Ledger!OnlyContentsOf, Owed
<1> QED
  BY <1>4, <1>16

-----------------------------------------------------------------------------
(* Returns of the mint functions *)

\* The ledger counts as the contract does.
LEMMA SameCount ==
  ASSUME NEW S
  PROVE  Ledger!Cardinality(S) = Cardinality(S)
BY DEF Ledger!Cardinality, Cardinality

\* A mint that returns has minted a box for each recipient, all on the same
\* terms, and its caller has paid the lock of each.
LEMMA MintDone ==
  ASSUME IInv, IInv', RightsInv, MintInv, EffectInv, [Next]_vars,
         FinishMint, NEW f, f = Top
  PROVE  Ledger!Mint(f.caller, MintedBy(f)) /\ MintedBy(f) \in SUBSET Box
<1>1. PICK s, t, n, u, M, x, lock :
        /\ s = Committed /\ t = Committed' /\ n = Len(f.to) /\ u = types[f.type]
        /\ M = MintedBy(f) /\ x = f.caller /\ lock = Only(u.lockToken, u.lockAmount)
  OBVIOUS
<1>2. /\ stack # <<>> /\ stack' = <<>> /\ f = stack[1] /\ f \in MintFrame
      /\ f.op \in MintOp /\ f.pre \in Storage /\ FrameOK(f)
      /\ UNCHANGED <<nftVars, typeVars, vaultVars>>
      /\ n \in Nat /\ IsFiniteSet(M) /\ Cardinality(M) = n /\ M \in SUBSET Box
  BY <1>1, MintReturns
<1>3. \A b \in M : /\ b \notin destroyedBoxes /\ owner[b] # Nobody
                   /\ tokenTypes[b] = f.type /\ f.pre.owner[b] = Nobody
  BY <1>1, MintReturns
<1>4. /\ MintLock(f.type, n) \in [Asset -> Int]
      /\ \A a \in Asset : lock[a] \in Nat /\ MintLock(f.type, n)[a] = lock[a] * n
  BY <1>1, MintReturns
<1>5. s = f.pre /\ s \in Storage /\ t = Current'
  BY <1>1, <1>2 DEF Committed
<1>6. f.op \notin VaultOp /\ f.op # "destroy" /\ ActsByRight(f) /\ EffectSoFar(f)
  BY <1>2, InProgress DEF RightsInv, EffectInv, MintOp
<1>7. M = NewIds
  <2>1. \A b \in NewIds : b \in M
    BY <1>1, NewBoxes DEF NewIds
  <2>2. \A b \in M : b \in NewIds
    BY <1>1, <1>2, <1>3, <1>5 DEF NewIds, Current, nftVars
  <2> QED
    BY <2>1, <2>2
<1>8. M # {}
  <2>1. f.to # <<>> /\ f.to \in Seq(Account)
    BY <1>2, <1>6 DEF EffectSoFar, MintFrame
  <2>2. n # 0
    BY <1>1, <2>1, EmptySeq
  <2> QED
    BY <1>2, <2>2, FS_EmptySet
<1>9. indexed' = s.indexed
  <2>1. \A b \in Box : indexed[b] = s.indexed[b]
    BY <1>5, <1>6 DEF ActsByRight, WritesItsBoxes
  <2>2. indexed \in [Box -> [Asset -> Nat]] /\ s.indexed \in [Box -> [Asset -> Nat]]
    BY <1>5, FieldsOfCurrent DEF IInv, TypeOK, FieldsOK, Storage
  <2> QED
    BY <1>2, <2>1, <2>2 DEF vaultVars
<1>10. destroyedBoxes' = s.destroyedBoxes
  BY <1>2, <1>5, <1>6 DEF FrameOK, DestroysByRight, vaultVars
<1>11. /\ t.indexed = s.indexed /\ t.destroyedBoxes = s.destroyedBoxes
       /\ t.bank = bank' /\ now' = now
  BY <1>5, <1>9, <1>10 DEF Current, FinishMint
<1>12. \A b \in M : Owed'[b] = lock
  <2> SUFFICES ASSUME NEW b \in M PROVE Owed'[b] = lock
    OBVIOUS
  <2>1. /\ t.owner[b] # Nobody /\ b \notin t.destroyedBoxes
        /\ t.types[t.tokenTypes[b]] = u
    BY <1>1, <1>2, <1>3, <1>5 DEF Current, nftVars, typeVars, vaultVars
  <2>2. \A a \in Asset : LockOwedTo(t, b, a) = IF a = u.lockToken THEN u.lockAmount ELSE 0
    BY <2>1 DEF LockOwedTo
  <2>3. Owed'[b] = [a \in Asset |-> LockOwedTo(t, b, a)]
    BY <1>1, <1>2, OwedNext
  <2> QED
    BY <1>1, <2>2, <2>3 DEF Only
<1>13. bank' = Moved(s.bank, x, Self, [a \in Asset |-> Cardinality(M) * lock[a]])
  <2>1. bank' = Moved(s.bank, x, Self, MintLock(f.type, n))
    <3>1. bank = s.bank
      BY <1>5, <1>6, <1>2 DEF EffectSoFar, BalancesFollow, Payments, MintOp
    <3> QED
      BY <1>1, <3>1 DEF FinishMint
  <2>2. \A a \in Asset : MintLock(f.type, n)[a] = Cardinality(M) * lock[a]
    <3> SUFFICES ASSUME NEW a \in Asset
                 PROVE  MintLock(f.type, n)[a] = Cardinality(M) * lock[a]
      OBVIOUS
    <3>1. PICK i \in Nat : i = lock[a]
      BY <1>4
    <3>2. i * n = n * i
      BY <1>2, <3>1
    <3> QED
      BY <1>2, <1>4, <3>1, <3>2
  <2>3. MintLock(f.type, n) = [a \in Asset |-> Cardinality(M) * lock[a]]
    <3>1. MintLock(f.type, n) = [a \in Asset |-> MintLock(f.type, n)[a]]
      BY <1>4
    <3> QED
      BY <2>2, <3>1
  <2> QED
    BY <2>1, <2>3
<1>14. \A b \in Box \ M : /\ Owed'[b] = Owed[b]
                          /\ t.lockedDestructionEnd[b] = s.lockedDestructionEnd[b]
  <2> SUFFICES ASSUME NEW b \in Box \ M
               PROVE  /\ Owed'[b] = Owed[b]
                      /\ t.lockedDestructionEnd[b] = s.lockedDestructionEnd[b]
    OBVIOUS
  <2>1. /\ t.lockedDestructionEnd[b] = s.lockedDestructionEnd[b]
        /\ \A a \in Asset : LockOwedTo(t, b, a) = LockOwedTo(s, b, a)
    BY <1>1, <1>7, <1>11, BoxTermsKept
  <2> QED
    BY <1>1, <2>1, OwedNext DEF Owed
<1>15. \A b, c \in M :
         /\ t.lockedDestructionEnd[b] = t.lockedDestructionEnd[c]
         /\ t.storeRestricted[b] = t.storeRestricted[c]
  <2>1. ASSUME NEW b \in M
        PROVE  /\ t.lockedDestructionEnd[b] =
                    IF u.lockedDestructionDuration # 0
                    THEN now + u.lockedDestructionDuration ELSE 0
               /\ t.storeRestricted[b] = f.restricted
    <3>1. lockedDestructionEnd[b] = 0
      BY <1>2, <1>3, <1>6, <2>1 DEF EffectSoFar, FrameOK, Fresh
    <3> QED
      BY <1>1, <1>2, <1>5, <2>1, <3>1 DEF FinishMint, RestrictionSetBy, Current
  <2> QED
    BY <2>1
<1>16. \A b \in M : {y \in Holder : ApprovedOrOwnerIn(s, y, b)} = {}
  BY <1>2, <1>3, <1>5, SomeoneEntitled
<1>17. Ledger!Settings(M)
  BY <1>7, SettingsKept
<1>18. \A b \in M : bank' = Ledger!Given(s.bank, x, Self,
                              [a \in Asset |-> Ledger!Cardinality(M) * Owed'[b][a]])
  BY <1>12, <1>13, GivenIsMoved, SameCount
<1>19. Ledger!Mint(x, M)
  <2>1. \A b \in M : ~Ledger!Minted(b)
    BY <1>1, <1>2, <1>16 DEF Ledger!Minted
  <2>2. \A b \in Box \ M :
          /\ Owed'[b] = Owed[b]
          /\ Committed'.lockedDestructionEnd[b] = Committed.lockedDestructionEnd[b]
    BY <1>1, <1>14
  <2>3. \A b, c \in M :
          /\ Owed'[b] = Owed'[c]
          /\ Committed'.lockedDestructionEnd[b] = Committed'.lockedDestructionEnd[c]
          /\ b \in {d \in Box : Committed.storeRestricted[d]}'
                <=> c \in {d \in Box : Committed.storeRestricted[d]}'
    BY <1>1, <1>2, <1>12, <1>15
  <2>4. \A b \in M :
          Committed'.bank = Ledger!Given(Committed.bank, x, Self,
                              [a \in Asset |-> Ledger!Cardinality(M) * Owed'[b][a]])
    BY <1>1, <1>11, <1>18
  <2>5. UNCHANGED <<Committed.indexed, Committed.destroyedBoxes, now>>
    BY <1>1, <1>11
  <2> QED
    BY <1>8, <1>17, <2>1, <2>2, <2>3, <2>4, <2>5 DEF Ledger!Mint, Owed
<1> QED
  BY <1>1, <1>2, <1>19

-----------------------------------------------------------------------------
(* The refinement *)

\* Every step of the contract is a step of the ledger, or none.
LEMMA LedgerStep ==
  ASSUME IInv, IInv', RightsInv, MintInv, EffectInv, [Next]_vars, OwnStandard
  PROVE  [Ledger!Next]_(Ledger!vars)
<1>1. \/ stack = <<>> /\ Quiet /\ Committed = Current /\ Committed' = Current'
      \/ Committed' = Committed
      \/ FinishMint \/ FinishVault \/ _unlockMint
  BY CommittingStep
<1>2. CASE stack = <<>> /\ Quiet /\ Committed = Current /\ Committed' = Current'
  BY <1>2, BetweenTransactions
<1>3. CASE Committed' = Committed
  BY <1>3, NothingCommitted
<1>4. CASE FinishVault \/ _unlockMint
  <2>1. PICK f : f = Top
    OBVIOUS
  <2>2. /\ f.caller \in Account /\ f.box \in Box /\ f.dest \in Box /\ f.to \in Holder
    BY <1>4, <2>1, VaultReturns
  <2>3. CASE FinishVault /\ f.op = "store"
    <3>1. Ledger!Store(f.caller, f.box)
      BY <2>1, <2>3, StoreDone
    <3> QED
      BY <2>2, <3>1 DEF Ledger!Next
  <2>4. CASE FinishVault /\ f.op = "withdraw"
    <3>1. Ledger!Withdraw(f.caller, f.box, f.to)
      BY <2>1, <2>4, WithdrawalDone
    <3>2. f.to \in Ledger!Holder
      BY <2>2 DEF Ledger!Holder, Holder
    <3> QED
      BY <2>2, <3>1, <3>2 DEF Ledger!Next
  <2>5. CASE FinishVault /\ f.op = "transferBetweenBoxes"
    <3>1. Ledger!Transfer(f.caller, f.box, f.dest)
      BY <2>1, <2>5, TransferDone
    <3> QED
      BY <2>2, <3>1 DEF Ledger!Next
  <2>6. CASE _unlockMint
    <3>1. PICK to \in Holder : Ledger!Destroy(f.caller, f.box, to, f.to)
      BY <2>1, <2>6, DestructionDone
    <3>2. to \in Ledger!Holder /\ f.to \in Ledger!Holder
      BY <2>2 DEF Ledger!Holder, Holder
    <3> QED
      BY <2>2, <3>1, <3>2 DEF Ledger!Next
  <2> QED
    BY <1>4, <2>1, <2>3, <2>4, <2>5, <2>6 DEF FinishVault, At
<1>5. CASE FinishMint
  <2>1. PICK f : f = Top
    OBVIOUS
  <2>2. Ledger!Mint(f.caller, MintedBy(f)) /\ MintedBy(f) \in SUBSET Box
    BY <1>5, <2>1, MintDone
  <2>3. f.caller \in Account
    BY <1>5, <2>1, InProgress DEF FinishMint, At, MintFrame
  <2> QED
    BY <2>2, <2>3 DEF Ledger!Next
<1> QED
  BY <1>1, <1>2, <1>3, <1>4, <1>5

\* CryptoTreasure implements the ledger: whatever is called back in between
\* and however often part of it fails, a transaction has the effect of one
\* step of the ledger, or none. It needs requests that name tokens by their
\* own standard: one that names an ERC1155 as an ERC721 loses units.
THEOREM ImplementsLedger ==
  ASSUME OwnStandard
  PROVE  Spec => RefinesLedger
<1>1. IInv /\ IInv' /\ RightsInv /\ MintInv /\ EffectInv /\ [Next]_vars
      => [Ledger!Next]_(Ledger!vars)
  BY LedgerStep
<1> QED
  BY <1>1, InitLedger, Inductive, RightsInvariant, MintsInvariant, EffectInvariant, PTL
  DEF Spec, RefinesLedger, Ledger!Spec
=============================================================================
