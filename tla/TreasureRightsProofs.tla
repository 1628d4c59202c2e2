------------------------ MODULE TreasureRightsProofs ------------------------
(***************************************************************************)
(* Theorems about what the transactions of CryptoTreasure may do: which    *)
(* ids they mint and under which conditions, and who may take from a box   *)
(* and give to it.                                                         *)
(***************************************************************************)
EXTENDS CryptoTreasureProofs, TreasureRefinement

-----------------------------------------------------------------------------
(* Steps that are not part of a nonReentrant function *)

\* A step that goes on with no function, enters none and leaves none. It may
\* give a box to another owner, change settings, add types, receive a gift.
Quiet ==
    /\ UNCHANGED <<stack, tokenTypes, lockedDestructionEnd, vaultVars>>
    /\ stack # <<>> => now' = now
    /\ \A b \in Box : owner'[b] # Nobody <=> owner[b] # Nobody
    /\ \A b \in Box : Self \notin Receivers /\ owner'[b] = Self => owner[b] = Self
    /\ \A t \in TypeId :
          \/ types'[t] = types[t]
          \/ /\ types[t].to = 0
             /\ types'[t].nextToMint = types'[t].from
             /\ types'[t].from <= types'[t].to
    /\ \/ bank' = bank
       \/ \E x \in Account, a \in Donations : stack = <<>> /\ Donate(x, a)

\* addTypes defines only types that are not defined yet, each with a range
\* that is not empty and is scanned from its start.
LEMMA addTypesQuiet ==
  ASSUME IInv, NEW x \in Account, NEW defs \in TypeBatches, addTypes(x, defs)
  PROVE  Quiet
<1>1. \A d \in defs : d \in TypeDefinition /\ ValidType(d)
  BY MintInputs DEF addTypes
<1>2. ASSUME NEW t \in TypeId
      PROVE  \/ types'[t] = types[t]
             \/ /\ types[t].to = 0
                /\ types'[t].nextToMint = types'[t].from
                /\ types'[t].from <= types'[t].to
  <2>1. CASE \E d \in defs : d.id = t
    <3> DEFINE d == CHOOSE e \in defs : e.id = t
    <3>1. d \in defs /\ d.id = t
      BY <2>1
    <3>2. types'[t] = TypeFrom(d)
      BY <2>1 DEF addTypes
    <3> HIDE DEF d
    <3>3. types[t].to = 0 /\ d.from < d.to /\ d.from \in Nat /\ d.to \in Nat
      BY <1>1, <3>1 DEF ValidType, TypeDefinition
    <3> QED
      BY <3>2, <3>3 DEF TypeFrom
  <2>2. CASE ~ \E d \in defs : d.id = t
    BY <2>2 DEF addTypes
  <2> QED
    BY <2>1, <2>2
<1> QED
  BY <1>2 DEF addTypes, Quiet, nftVars, boxVars, vaultVars

\* Every step outside the functions is of this sort.
LEMMA QuietStep ==
  ASSUME IInv,
         \/ UnguardedCall
         \/ \E x \in Account, defs \in TypeBatches : addTypes(x, defs)
         \/ Tick
         \/ \E x \in Account, a \in Donations : Donate(x, a)
         \/ UNCHANGED vars
  PROVE  Quiet
<1>1. FieldsOK
  BY FieldsOfCurrent DEF IInv, TypeOK
<1>2. ASSUME UNCHANGED <<stack, typeVars, lockedDestructionEnd, vaultVars, owner>>,
             stack # <<>> => now' = now,
             \/ bank' = bank
             \/ \E x \in Account, a \in Donations : stack = <<>> /\ Donate(x, a)
      PROVE  Quiet
  BY <1>2 DEF Quiet, typeVars
<1>3. ASSUME NEW x \in Account, NEW to \in Receivers, NEW b \in Box,
             TransferFrom(x, to, b)
      PROVE  Quiet
  <2>1. /\ owner[b] # Nobody /\ to # Nobody
        /\ owner' = [owner EXCEPT ![b] = to]
    BY <1>3, OwnershipInputs, AccountsAssumption
    DEF TransferFrom, _isApprovedOrOwner, ApprovedOrOwnerIn, Current, Holder
  <2>2. /\ \A c \in Box : owner'[c] # Nobody <=> owner[c] # Nobody
        /\ \A c \in Box : Self \notin Receivers /\ owner'[c] = Self => owner[c] = Self
    BY <1>1, <2>1 DEF FieldsOK
  <2> QED
    BY <1>3, <2>2 DEF TransferFrom, Quiet, typeVars, boxVars, vaultVars
<1>4. CASE UnguardedCall
  <2>1. PICK x \in Account :
          \/ \E to \in Approvees, b \in Box : Approve(x, to, b)
          \/ \E p \in OperatorPairs, approval \in BOOLEAN :
                SetApprovalForAll(x, p[2], approval)
          \/ \E to \in Receivers, b \in Box : TransferFrom(x, to, b)
          \/ \E y \in RoleAccounts : GrantRole(x, y) \/ RevokeRole(x, y)
          \/ \E b \in Box :
                \/ \E t \in LockTimes : lockBox(x, b, t)
                \/ \E r \in Restrictions : setStoreRestriction(x, b, r)
    BY <1>4 DEF UnguardedCall
  <2>2. CASE \E to \in Receivers, b \in Box : TransferFrom(x, to, b)
    BY <1>3, <2>2
  <2>3. CASE UNCHANGED <<stack, now, bank, typeVars, lockedDestructionEnd, vaultVars, owner>>
    BY <1>2, <2>3
  <2> QED
    BY <2>1, <2>2, <2>3
    DEF Approve, SetApprovalForAll, GrantRole, RevokeRole, lockBox,
        setStoreRestriction, boxVars, nftVars
<1>5. CASE Tick
  BY <1>2, <1>5 DEF Tick, boxVars, nftVars
<1>6. CASE UNCHANGED vars
  BY <1>2, <1>6 DEF vars, boxVars, nftVars
<1>7. ASSUME NEW x \in Account, NEW a \in Donations, Donate(x, a) PROVE Quiet
  BY <1>2, <1>7 DEF Donate, boxVars, nftVars
<1> QED
  BY <1>4, <1>5, <1>6, <1>7, addTypesQuiet

-----------------------------------------------------------------------------
(* Mints: the invariant *)

\* A contract without types and boxes.
LEMMA InitMint == Init => MintInv
  BY EmptySeq
  DEF Init, MintInv, Catalogue, AllInRange, Unfinished, Current

\* What the frame in progress looks like.
LEMMA InProgress ==
  ASSUME IInv, stack # <<>>
  PROVE  /\ Top = stack[1] /\ Top \in Frame /\ Len(stack) = 1
         /\ stack \in Seq(Frame) /\ FrameOK(Top) /\ Top.pre \in Storage
         /\ Top.op \in MintOp => Top \in MintFrame /\ Top.op \notin VaultOp
         /\ Top.op \in VaultOp => Top \in VaultFrame /\ Top.op \notin MintOp
         /\ Top.op \in MintOp \/ Top.op \in VaultOp
  BY OnlyFrame, TopFrame
  DEF IInv, TypeOK, GuardHolds, Frame, VaultFrame, MintFrame, MintOp, VaultOp

\* The ids of a mint, as a set.
LEMMA MintedElements ==
  ASSUME NEW f \in MintFrame
  PROVE  /\ f.minted \in Seq(Box) /\ Len(f.minted) \in Nat
         /\ DOMAIN f.minted = 1 .. Len(f.minted)
         /\ \A i \in DOMAIN f.minted : f.minted[i] \in Box /\ f.minted[i] \in MintedBy(f)
  BY ElementOfSeq, LenProperties DEF MintFrame, MintedBy

\* Quiet steps leave types in use, boxes and ids alone.
LEMMA MintQuiet ==
  ASSUME IInv, MintInv, Quiet
  PROVE  MintInv'
<1>1. FieldsOK
  BY FieldsOfCurrent DEF IInv, TypeOK
<1>2. Catalogue(Current)'
  BY <1>1 DEF MintInv, Catalogue, Quiet, Current
<1>3. Unfinished' = Unfinished
  BY DEF Quiet, Unfinished, MintedBy
<1>4. \A t \in TypeId : types[t].to # 0 => types'[t] = types[t]
  BY DEF Quiet
<1>5. AllInRange(Current, Unfinished)'
  <2> SUFFICES ASSUME NEW b \in Box \ Unfinished, owner'[b] # Nobody
               PROVE  InRange(types'[tokenTypes'[b]], b)
    BY <1>3 DEF AllInRange, Current
  <2>1. InRange(types[tokenTypes[b]], b) /\ tokenTypes[b] \in TypeId
    BY <1>1 DEF MintInv, AllInRange, Current, Quiet, FieldsOK
  <2> QED
    BY <1>4, <2>1 DEF InRange, Quiet
<1>6. stack' = stack
  BY DEF Quiet
<1>7. ASSUME NEW f, f = stack[1], stack # <<>>
      PROVE  MintsInOrder(f)'
  <2>1. f \in Frame /\ f.pre \in Storage /\ (f.op \in MintOp => f \in MintFrame)
    BY <1>7, InProgress
  <2>2. MintsInOrder(f)
    BY <1>7 DEF MintInv
  <2>3. KeepsMinted(f)'
    BY <1>3, <1>4, <2>1, <2>2 DEF KeepsMinted, MintsInOrder, Quiet
  <2>4. ASSUME f.op \in MintOp PROVE MintUnderWay(f)'
    <3>1. types'[f.type] = types[f.type]
      BY <1>4, <2>1, <2>2, <2>4 DEF MintsInOrder, MintUnderWay, KeepsMinted, MintFrame
    <3>2. UNCHANGED <<tokenTypes, now>>
      BY <1>7 DEF Quiet
    <3> QED
      BY <2>2, <2>4, <3>1, <3>2 DEF MintsInOrder, MintUnderWay
  <2> QED
    BY <2>2, <2>3, <2>4 DEF MintsInOrder, Catalogue, AllInRange
<1> QED
  BY <1>2, <1>5, <1>6, <1>7 DEF MintInv

\* A function that is entered has changed nothing yet.
LEMMA MintEnter ==
  ASSUME IInv, MintInv, NEW f \in Frame, f.pre = Current, Enter(f),
         UNCHANGED <<nftVars, typeVars, boxVars>>,
         f.op \in MintOp => f \in MintFrame /\ f.minted = <<>> /\ MintUnderWay(f)',
         f.op \in MintOp \/ f.op \in VaultOp
  PROVE  MintInv'
<1>1. stack = <<>> /\ stack'[1] = f /\ stack' # <<>>
  BY EnterIdle, Pushed DEF Enter
<1>2. Unfinished = {} /\ Unfinished' = {}
  BY <1>1, EmptySeq DEF Unfinished, MintedBy
<1>3. Catalogue(Current) /\ AllInRange(Current, {})
  BY <1>2 DEF MintInv
<1>4. Catalogue(Current)' /\ AllInRange(Current, {})'
  BY <1>3 DEF Catalogue, AllInRange, Current, nftVars, typeVars
<1>5. KeepsMinted(f)'
  BY <1>2 DEF KeepsMinted, Current, nftVars, typeVars, boxVars
<1>6. MintsInOrder(f)'
  BY <1>3, <1>5 DEF MintsInOrder, Catalogue, AllInRange
<1> QED
  BY <1>1, <1>2, <1>4, <1>6 DEF MintInv

\* The frame a mint function starts with, after its first checks.
LEMMA BeginMintMints ==
  ASSUME IInv, MintInv, NEW x \in Account, NEW t \in TypeId, NEW r \in BOOLEAN,
         NEW op \in MintOp, NEW wanted \in SUBSET Box, NEW to \in Seq(Account),
         to # <<>>, BeginMint(op, x, t, r, wanted, to),
         op = "safeMint" => \A b \in wanted : InRange(types[t], b),
         op = "safeMintByType" => types[t].mintStartTimestamp <= now,
         op = "safeBatchMintByType" => x \in admins
  PROVE  MintInv'
<1>0. PICK f : f = [op |-> op, caller |-> x, type |-> t, restricted |-> r,
                    wanted |-> wanted, to |-> to, minted |-> <<>>, pc |-> "ready",
                    pre |-> Current]
  OBVIOUS
<1>1. f \in MintFrame /\ f.minted = <<>> /\ f.pre = Current /\ f.op \in MintOp
  BY <1>0, EmptySeq DEF IInv, TypeOK, MintFrame
<1>2. /\ Enter(f)
      /\ UNCHANGED <<nftVars, admins, typeVars, boxVars, vaultVars, now>>
      /\ types[t].to # 0
  BY <1>0 DEF BeginMint
<1>3. MintUnderWay(f)'
  <2>1. Len(<<>>) = 0 /\ Len(to) \in Nat /\ DOMAIN <<>> = {}
    BY EmptySeq, LenProperties
  <2>2. /\ f.type = t /\ f.wanted = wanted /\ f.caller = x /\ f.op = op /\ f.pc = "ready"
        /\ f.to = to /\ f.pre.types = types /\ f.pre.admins = admins
    BY <1>0 DEF Current
  <2> QED
    BY <1>1, <1>2, <2>1, <2>2 DEF MintUnderWay, typeVars
<1> QED
  BY <1>1, <1>2, <1>3, MintEnter DEF Frame

\* The calls of the mint functions and of addTypes.
LEMMA MintCallMints ==
  ASSUME IInv, MintInv, MintCall
  PROVE  MintInv'
<1>1. PICK x \in Account :
        \/ \E defs \in TypeBatches : addTypes(x, defs)
        \/ \E to \in Recipients, t \in TypeId, r \in MintRestrictions :
              \/ \E b \in Box : Len(to) = 1 /\ safeMint(x, to[1], b, t, r)
              \/ Len(to) = 1 /\ safeMintByType(x, to[1], t, r)
              \/ safeBatchMintByType(x, to, t, r)
  BY DEF MintCall
<1>2. CASE \E defs \in TypeBatches : addTypes(x, defs)
  BY <1>2, QuietStep, MintQuiet
<1>3. ASSUME NEW to \in Recipients, NEW t \in TypeId, NEW r \in MintRestrictions,
             \/ \E b \in Box : Len(to) = 1 /\ safeMint(x, to[1], b, t, r)
             \/ Len(to) = 1 /\ safeMintByType(x, to[1], t, r)
             \/ safeBatchMintByType(x, to, t, r)
      PROVE  MintInv'
  <2>1. to \in Seq(Account) /\ to # <<>> /\ r \in BOOLEAN
    BY MintInputs
  <2>2. Len(to) = 1 => <<to[1]>> \in Seq(Account) /\ <<to[1]>> # <<>>
    BY <2>1, ElementOfSeq
  <2>3. CASE \E b \in Box : Len(to) = 1 /\ safeMint(x, to[1], b, t, r)
    <3>1. PICK b \in Box : Len(to) = 1 /\ safeMint(x, to[1], b, t, r)
      BY <2>3
    <3>2. BeginMint("safeMint", x, t, r, {b}, <<to[1]>>)
      BY <3>1 DEF safeMint
    <3>3. \A c \in {b} : InRange(types[t], c)
      BY <3>1 DEF safeMint, BeginMint, InRange
    <3> QED
      BY <2>1, <2>2, <3>1, <3>2, <3>3, BeginMintMints DEF MintOp
  <2>4. CASE Len(to) = 1 /\ safeMintByType(x, to[1], t, r)
    BY <2>1, <2>2, <2>4, BeginMintMints DEF safeMintByType, MintOp
  <2>5. CASE safeBatchMintByType(x, to, t, r)
    BY <2>1, <2>5, BeginMintMints DEF safeBatchMintByType, MintOp
  <2> QED
    BY <1>3, <2>3, <2>4, <2>5
<1> QED
  BY <1>1, <1>2, <1>3

\* The frame each of the four operations starts with.
LEMMA VaultFrameEntered ==
  ASSUME IInv, VaultCall
  PROVE  \E f \in VaultFrame :
            /\ f.op \in VaultOp /\ f.op \notin MintOp
            /\ f.pre = Current /\ f.pc = "ready" /\ Enter(f)
            /\ UNCHANGED <<nftVars, admins, typeVars, boxVars, now>>
<1>1. PICK op \in VaultOp, x \in Account, b \in Box, dest \in Box, to \in Holder,
           calls \in Seq(Call) : BeginVault(op, x, b, dest, to, calls)
  <2>1. PICK x \in Account, b \in Box, req \in Requests :
          \/ store(x, b, req)
          \/ \E to \in Payees : withdraw(x, b, to, req)
          \/ \E dest \in Box : transferBetweenBoxes(x, b, dest, req)
          \/ \E to \in Payees : destroy(x, b, to, req)
    BY DEF VaultCall
  <2> DEFINE calls == <<EthCall(req.eth)>> \o req.tokens
  <2>2. req.tokens \in Seq(Call) /\ calls \in Seq(Call)
    BY RequestCalls
  <2>3. x \in Holder /\ \A to \in Payees : to \in Holder
    BY VaultInputs DEF Holder
  <2>4. \/ BeginVault("store", x, b, b, x, req.tokens)
        \/ \E to \in Payees : BeginVault("withdraw", x, b, b, to, calls)
        \/ \E dest \in Box : BeginVault("transferBetweenBoxes", x, b, dest, x, calls)
        \/ \E to \in Payees : BeginVault("destroy", x, b, b, to, calls)
    BY <2>1 DEF store, withdraw, transferBetweenBoxes, destroy
  <2> HIDE DEF calls
  <2> QED
    BY <2>2, <2>3, <2>4 DEF VaultOp
<1> DEFINE f == [op |-> op, caller |-> x, box |-> b, dest |-> dest, to |-> to,
                 calls |-> calls, pc |-> "ready", pre |-> Current]
<1>2. f \in VaultFrame
  BY DEF IInv, TypeOK, VaultFrame
<1>3. /\ f.op \in VaultOp /\ f.op \notin MintOp
      /\ f.pre = Current /\ f.pc = "ready" /\ Enter(f)
      /\ UNCHANGED <<nftVars, admins, typeVars, boxVars, now>>
  BY <1>1 DEF BeginVault, VaultOp, MintOp
<1> HIDE DEF f
<1> QED
  BY <1>2, <1>3

\* The calls of the four operations mint nothing.
LEMMA VaultCallMints ==
  ASSUME IInv, MintInv, VaultCall
  PROVE  MintInv'
  BY VaultFrameEntered, MintEnter DEF Frame

\* A vault operation that goes on keeps its name, caller and boxes, and
\* writes to contents and balances at most. Only BeginUnlock names another
\* payee.
LEMMA VaultProgress ==
  ASSUME IInv,
         CreditBox \/ DebitBox \/ MoveBetweenBoxes \/ CallReturns \/ BeginUnlock
  PROVE  /\ stack # <<>> /\ Top.op \in VaultOp
         /\ \E g \in VaultFrame :
               /\ ReplaceTop(g)
               /\ g.op = Top.op /\ g.pre = Top.pre /\ g.caller = Top.caller
               /\ g.box = Top.box /\ g.dest = Top.dest
               /\ g.calls = Top.calls \/ (Top.calls # <<>> /\ g.calls = Tail(Top.calls))
               /\ CreditBox \/ DebitBox =>
                     g.pc = "calling" /\ g.to = Top.to /\ g.calls = Top.calls
               /\ MoveBetweenBoxes \/ CallReturns => g.pc = "ready" /\ g.to = Top.to
               /\ BeginUnlock => g.pc = "releasing" /\ g.to = owner[Top.box]
               /\ UNCHANGED <<nftVars, admins, typeVars, boxVars, destroyedBoxes,
                              entered, now>>
<1>1. stack # <<>> /\ Top.op \in VaultOp
  BY DEF CreditBox, DebitBox, MoveBetweenBoxes, CallReturns, BeginUnlock, At, VaultOp
<1>2. /\ Top \in VaultFrame /\ FrameOK(Top) /\ Top.calls \in Seq(Call)
      /\ Top.box \in Box
  BY <1>1, InProgress DEF VaultFrame
<1>3. Top.calls # <<>> => Tail(Top.calls) \in Seq(Call)
  BY <1>2, HeadTailProperties
<1>4. CASE CreditBox \/ DebitBox
  <2> DEFINE g == [Top EXCEPT !.pc = "calling"]
  <2>1. g \in VaultFrame /\ g.calls = Top.calls
    BY <1>2 DEF VaultFrame
  <2>2. ReplaceTop(g)
    BY <1>4 DEF CreditBox, DebitBox
  <2>3. ~(MoveBetweenBoxes \/ CallReturns \/ BeginUnlock)
    BY <1>4 DEF CreditBox, DebitBox, MoveBetweenBoxes, CallReturns, BeginUnlock, At
  <2> QED
    BY <1>1, <1>2, <1>4, <2>1, <2>2, <2>3 DEF CreditBox, DebitBox, VaultFrame
<1>5. CASE MoveBetweenBoxes
  <2> DEFINE g == [Top EXCEPT !.calls = Tail(@)]
  <2>1. Top.calls # <<>> /\ ReplaceTop(g) /\ Top.pc = "ready"
    BY <1>5 DEF MoveBetweenBoxes, At
  <2>2. g \in VaultFrame /\ g.calls = Tail(Top.calls)
    BY <1>2, <1>3, <2>1 DEF VaultFrame
  <2>3. ~(CreditBox \/ DebitBox \/ BeginUnlock)
    BY <1>5 DEF CreditBox, DebitBox, MoveBetweenBoxes, BeginUnlock, At
  <2> QED
    BY <1>1, <1>2, <1>5, <2>1, <2>2, <2>3 DEF MoveBetweenBoxes, VaultFrame
<1>6. CASE CallReturns
  <2> DEFINE g == [Top EXCEPT !.pc = "ready", !.calls = Tail(@)]
  <2>1. Top.calls # <<>>
    BY <1>1, <1>2, <1>6 DEF CallReturns, At, FrameOK, HasNext
  <2>2. ReplaceTop(g) /\ g \in VaultFrame /\ g.calls = Tail(Top.calls)
    BY <1>2, <1>3, <1>6, <2>1 DEF CallReturns, VaultFrame
  <2>3. ~(CreditBox \/ DebitBox \/ BeginUnlock)
    BY <1>6 DEF CreditBox, DebitBox, CallReturns, BeginUnlock, At
  <2> QED
    BY <1>1, <1>2, <1>6, <2>1, <2>2, <2>3 DEF CallReturns, VaultFrame, vaultVars
<1>7. CASE BeginUnlock
  <2> DEFINE g == [Top EXCEPT !.pc = "releasing", !.to = owner[Top.box]]
  <2>1. owner[Top.box] \in Holder
    BY <1>1, <1>2, FieldsOfCurrent DEF FrameOK, TargetsExist, FieldsOK, IInv, TypeOK
  <2>2. ReplaceTop(g) /\ g \in VaultFrame /\ g.calls = Top.calls
    BY <1>2, <1>7, <2>1 DEF BeginUnlock, VaultFrame
  <2>3. ~(CreditBox \/ DebitBox \/ MoveBetweenBoxes \/ CallReturns)
    BY <1>7 DEF CreditBox, DebitBox, MoveBetweenBoxes, CallReturns, BeginUnlock, At
  <2> QED
    BY <1>1, <1>2, <1>7, <2>2, <2>3 DEF BeginUnlock, VaultFrame, vaultVars
<1> QED
  BY <1>4, <1>5, <1>6, <1>7

\* The loops of the vault mint nothing.
LEMMA VaultGoesOnMints ==
  ASSUME IInv, MintInv,
         CreditBox \/ DebitBox \/ MoveBetweenBoxes \/ CallReturns \/ BeginUnlock
  PROVE  MintInv'
<1>1. /\ stack # <<>> /\ Top.op \in VaultOp
      /\ Top = stack[1] /\ Len(stack) = 1 /\ stack \in Seq(Frame)
      /\ Top.op \notin MintOp
  BY VaultProgress, InProgress
<1>2. PICK g \in VaultFrame :
        /\ ReplaceTop(g) /\ g.op = Top.op /\ g.pre = Top.pre
        /\ UNCHANGED <<nftVars, typeVars, boxVars, now>>
  BY VaultProgress
<1>3. stack' # <<>> /\ stack'[1] = g
  BY <1>1, <1>2, Replaced DEF Frame
<1>4. Unfinished = {} /\ Unfinished' = {}
  BY <1>1, <1>2, <1>3 DEF Unfinished
<1>5. MintsInOrder(Top)
  BY <1>1 DEF MintInv
<1>6. MintsInOrder(g)'
  BY <1>1, <1>2, <1>4, <1>5
  DEF MintsInOrder, KeepsMinted, Catalogue, AllInRange, nftVars, typeVars, boxVars
<1>7. Catalogue(Current)' /\ AllInRange(Current, Unfinished)'
  BY <1>2, <1>4 DEF MintInv, Catalogue, AllInRange, Current, nftVars, typeVars
<1> QED
  BY <1>3, <1>6, <1>7 DEF MintInv

\* The next id: free, and in the range of the type. For safeMint that was
\* checked on entry; the others scan from the start of the range, and where
\* the scan does not move the start itself is free.
LEMMA NextInRange ==
  ASSUME IInv, MintInv, NEW b \in Box, MintNext(b)
  PROVE  InRange(types[Top.type], b)
<1>1. stack # <<>> /\ Top.op \in MintOp
  BY DEF MintNext, At
<1>2. /\ Top \in MintFrame /\ MintUnderWay(Top) /\ KeepsMinted(Top)
      /\ Top.type \in TypeId
  BY <1>1, InProgress DEF MintInv, MintsInOrder, MintFrame
<1>3. CASE Top.op = "safeMint"
  BY <1>2, <1>3 DEF MintNext, MintUnderWay
<1>4. CASE Top.op # "safeMint"
  <2> DEFINE t == types[Top.type]
  <2>1. t.to # 0
    BY <1>2 DEF MintUnderWay, KeepsMinted
  <2>2. t.nextToMint = t.from /\ t.from <= t.to
    BY <1>2, <2>1 DEF MintInv, Catalogue, Current
  <2>3. t.nextToMint <= b /\ (b # t.nextToMint => b <= t.to)
    BY <1>4 DEF MintNext, IsNextFree
  <2> HIDE DEF t
  <2>4. InRange(t, b)
    BY <2>1, <2>2, <2>3 DEF InRange
  <2> QED
    BY <2>4 DEF t
<1> QED
  BY <1>3, <1>4

\* One more id.
LEMMA MintedAppended ==
  ASSUME NEW f \in MintFrame, NEW g \in MintFrame, NEW b \in Box,
         g.minted = Append(f.minted, b), NEW n, n = Len(f.minted)
  PROVE  /\ MintedBy(g) = MintedBy(f) \cup {b}
         /\ n \in Nat /\ Len(g.minted) = n + 1
         /\ DOMAIN f.minted = 1 .. n /\ DOMAIN g.minted = 1 .. (n + 1)
         /\ \A i \in 1 .. n : g.minted[i] = f.minted[i] /\ f.minted[i] \in Box
         /\ g.minted[n + 1] = b
         /\ \A i \in 1 .. n : f.minted[i] \in MintedBy(f)
<1>1. /\ n \in Nat /\ Len(g.minted) = n + 1
      /\ DOMAIN f.minted = 1 .. n /\ DOMAIN g.minted = 1 .. (n + 1)
      /\ \A i \in 1 .. n : g.minted[i] = f.minted[i] /\ f.minted[i] \in Box
      /\ g.minted[n + 1] = b
      /\ \A i \in 1 .. n : f.minted[i] \in MintedBy(f)
  BY MintedElements, AppendProperties DEF MintFrame
<1>2. MintedBy(g) = MintedBy(f) \cup {b}
  <2>1. 1 .. (n + 1) = 1 .. n \cup {n + 1}
    BY <1>1
  <2>2. MintedBy(g) = {g.minted[i] : i \in 1 .. n} \cup {b}
    BY <1>1, <2>1 DEF MintedBy
  <2>3. {g.minted[i] : i \in 1 .. n} = MintedBy(f)
    BY <1>1 DEF MintedBy
  <2> QED
    BY <2>2, <2>3
<1> QED
  BY <1>1, <1>2

\* What giving the next id writes.
LEMMA NextId ==
  ASSUME IInv, NEW b \in Box, MintNext(b)
  PROVE  /\ stack # <<>> /\ Top.op \in MintOp /\ Top.pc = "ready"
         /\ owner[b] = Nobody /\ owner'[b] \in Account
         /\ \A c \in Box \ {b} : owner'[c] = owner[c]
         /\ \A c \in Box \ {b} : tokenTypes'[c] = tokenTypes[c]
         /\ Top.op # "safeBatchMintByType" => tokenTypes'[b] = Top.type
         /\ UNCHANGED <<types, boxVars, vaultVars, bank, now>>
         /\ Unfinished = MintedBy(Top) /\ Unfinished' = MintedBy(Top) \cup {b}
         /\ b \notin MintedBy(Top)
         /\ \E g \in MintFrame :
               /\ stack' # <<>> /\ stack'[1] = g
               /\ g.op = Top.op /\ g.pre = Top.pre /\ g.caller = Top.caller
               /\ g.type = Top.type /\ g.wanted = Top.wanted /\ g.to = Top.to
               /\ g.minted = Append(Top.minted, b) /\ g.pc = "calling"
<1>1. stack # <<>> /\ Top.op \in MintOp /\ Top.pc = "ready"
  BY DEF MintNext, At
<1>2. /\ Top \in MintFrame /\ FrameOK(Top) /\ Top = stack[1] /\ Len(stack) = 1
      /\ stack \in Seq(Frame) /\ Top.pre \in Storage
  BY <1>1, InProgress
<1>3. FieldsOK
  BY FieldsOfCurrent DEF IInv, TypeOK
<1>4. PICK g : g = [Top EXCEPT !.minted = Append(@, b), !.pc = "calling"]
  OBVIOUS
<1>5. /\ g \in MintFrame
      /\ g.op = Top.op /\ g.pre = Top.pre /\ g.caller = Top.caller
      /\ g.type = Top.type /\ g.wanted = Top.wanted /\ g.to = Top.to
      /\ g.minted = Append(Top.minted, b) /\ g.pc = "calling"
  <2>1. Append(Top.minted, b) \in Seq(Box)
    BY <1>2, AppendProperties DEF MintFrame
  <2> QED
    BY <1>2, <1>4, <2>1 DEF MintFrame
<1>6. ReplaceTop(g) /\ UNCHANGED <<types, boxVars, vaultVars, bank, now>>
  BY <1>4 DEF MintNext
<1>7. stack' # <<>> /\ stack'[1] = g
  BY <1>2, <1>5, <1>6, Replaced DEF Frame
<1>8. Unfinished = MintedBy(Top) /\ Unfinished' = MintedBy(Top) \cup {b}
  <2>0. PICK n : n = Len(Top.minted)
    OBVIOUS
  <2>1. MintedBy(g) = MintedBy(Top) \cup {b}
    BY <1>2, <1>5, <2>0, MintedAppended
  <2> QED
    BY <1>1, <1>2, <1>5, <1>7, <2>1 DEF Unfinished, MintedBy
<1> DEFINE n == Len(Top.minted)
<1>9. Top.to[n + 1] \in Account
  <2>1. /\ Top.to \in Seq(Account) /\ Len(Top.to) \in Nat /\ n < Len(Top.to)
        /\ n \in Nat
    BY <1>1, <1>2, LenProperties DEF MintFrame, FrameOK, HasNext, n
  <2>2. n + 1 \in 1 .. Len(Top.to)
    BY <2>1
  <2> QED
    BY <2>1, <2>2, ElementOfSeq
<1> HIDE DEF n
<1>10. /\ owner[b] = Nobody /\ owner'[b] \in Account
       /\ \A c \in Box \ {b} : owner'[c] = owner[c]
       /\ \A c \in Box \ {b} : tokenTypes'[c] = tokenTypes[c]
       /\ Top.op # "safeBatchMintByType" => tokenTypes'[b] = Top.type
  BY <1>3, <1>9, AccountsAssumption DEF MintNext, FieldsOK, _exists, n
<1>11. b \notin MintedBy(Top)
  BY <1>1, <1>2, <1>10 DEF FrameOK, TargetsExist
<1> QED
  BY <1>1, <1>5, <1>6, <1>7, <1>8, <1>10, <1>11

\* A mint gives its next id.
LEMMA MintNextMints ==
  ASSUME IInv, MintInv, NEW b \in Box, MintNext(b)
  PROVE  MintInv'
<1>1. /\ stack # <<>> /\ Top.op \in MintOp /\ Top.pc = "ready"
      /\ types' = types /\ UNCHANGED boxVars /\ now' = now
      /\ b \notin MintedBy(Top)
  BY NextId
<1>2. /\ Top \in MintFrame /\ FrameOK(Top) /\ Top = stack[1] /\ Top.pre \in Storage
  BY <1>1, InProgress
<1>3. MintsInOrder(Top) /\ KeepsMinted(Top) /\ MintUnderWay(Top)
  BY <1>1, <1>2 DEF MintInv, MintsInOrder
<1>4. PICK g \in MintFrame :
        /\ stack' # <<>> /\ stack'[1] = g
        /\ g.op = Top.op /\ g.pre = Top.pre /\ g.caller = Top.caller
        /\ g.type = Top.type /\ g.wanted = Top.wanted /\ g.to = Top.to
        /\ g.minted = Append(Top.minted, b) /\ g.pc = "calling"
  BY NextId
<1> DEFINE n == Len(Top.minted)
<1>n. n = Len(Top.minted)
  OBVIOUS
<1> HIDE DEF n
<1>5. /\ n \in Nat /\ Len(g.minted) = n + 1
      /\ DOMAIN Top.minted = 1 .. n /\ DOMAIN g.minted = 1 .. (n + 1)
      /\ \A i \in 1 .. n : g.minted[i] = Top.minted[i] /\ Top.minted[i] \in Box
      /\ g.minted[n + 1] = b
      /\ \A i \in 1 .. n : Top.minted[i] \in MintedBy(Top)
  <2>1. PICK f \in MintFrame : f = Top
    BY <1>2
  <2>2. g.minted = Append(f.minted, b) /\ n = Len(f.minted)
    BY <1>4, <1>n, <2>1
  <2>3. /\ n \in Nat /\ Len(g.minted) = n + 1
        /\ DOMAIN f.minted = 1 .. n /\ DOMAIN g.minted = 1 .. (n + 1)
        /\ \A i \in 1 .. n : g.minted[i] = f.minted[i] /\ f.minted[i] \in Box
        /\ g.minted[n + 1] = b
        /\ \A i \in 1 .. n : f.minted[i] \in MintedBy(f)
    BY <2>2, MintedAppended
  <2> QED
    BY <2>1, <2>3
<1>6. Unfinished = MintedBy(Top) /\ Unfinished' = MintedBy(Top) \cup {b}
  BY NextId
<1>7. /\ owner[b] = Nobody /\ owner'[b] # Nobody
      /\ \A c \in Box \ {b} : owner'[c] = owner[c]
      /\ \A c \in Box \ {b} : tokenTypes'[c] = tokenTypes[c]
      /\ Top.op # "safeBatchMintByType" => tokenTypes'[b] = Top.type
  BY NextId, AccountsAssumption
<1>8. Catalogue(Current)' /\ AllInRange(Current, Unfinished)'
  <2>1. Catalogue(Current)'
    BY <1>1 DEF MintInv, Catalogue, Current
  <2>2. ASSUME NEW c \in Box \ Unfinished', owner'[c] # Nobody
        PROVE  InRange(types'[tokenTypes'[c]], c)
    <3>1. c \in Box \ Unfinished /\ c # b
      BY <1>6
    <3>2. owner'[c] = owner[c] /\ tokenTypes'[c] = tokenTypes[c]
      BY <1>7, <3>1
    <3> QED
      BY <1>1, <2>2, <3>1, <3>2 DEF MintInv, AllInRange, Current
  <2> QED
    BY <2>1, <2>2 DEF AllInRange, Current
<1>9. Top.pre.owner[b] = Nobody
  BY <1>3, <1>7 DEF KeepsMinted
<1>10. KeepsMinted(g)'
  BY <1>3, <1>4, <1>1, <1>6, <1>7, <1>9 DEF KeepsMinted, boxVars
<1>11. ASSUME NEW i \in DOMAIN g.minted
       PROVE  /\ g.pre.owner[g.minted[i]] = Nobody
              /\ InRange(types'[g.type], g.minted[i])
              /\ \/ tokenTypes'[g.minted[i]] = g.type
                 \/ i = Len(g.minted) /\ g.pc = "calling"
              /\ \A j \in DOMAIN g.minted : g.minted[i] = g.minted[j] => i = j
  <2>1. CASE i = n + 1
    <3>1. InRange(types'[g.type], b)
      BY <1>4, <1>1, NextInRange
    <3>2. ASSUME NEW j \in DOMAIN g.minted, b = g.minted[j] PROVE j = n + 1
      BY <1>5, <1>1, <3>2
    <3> QED
      BY <1>4, <1>5, <1>9, <2>1, <3>1, <3>2
  <2>2. CASE i # n + 1
    <3>1. i \in 1 .. n /\ g.minted[i] = Top.minted[i] /\ g.minted[i] # b
      BY <1>5, <1>1, <2>2
    <3>2. tokenTypes[Top.minted[i]] = Top.type
      BY <1>1, <1>3, <1>5, <3>1 DEF MintUnderWay
    <3>3. ASSUME NEW j \in DOMAIN g.minted, g.minted[i] = g.minted[j]
          PROVE  i = j
      <4>1. j \in 1 .. n /\ g.minted[j] = Top.minted[j]
        BY <1>5, <3>1, <3>3
      <4> QED
        BY <1>3, <1>5, <3>1, <3>3, <4>1 DEF MintUnderWay
    <3> QED
      BY <1>3, <1>1, <1>4, <1>5, <1>7, <3>1, <3>2, <3>3 DEF MintUnderWay
  <2> QED
    BY <2>1, <2>2
<1>12. MintUnderWay(g)'
  <2>1. n + 1 <= Len(Top.to) /\ g.minted # <<>>
    BY <1>1, <1>2, <1>5, EmptySeq, LenProperties DEF FrameOK, HasNext, MintFrame, n
  <2> QED
    BY <1>3, <1>1, <1>4, <1>5, <1>11, <2>1 DEF MintUnderWay
<1>13. MintsInOrder(g)'
  BY <1>3, <1>4, <1>10, <1>12 DEF MintsInOrder, Catalogue, AllInRange
<1> QED
  BY <1>4, <1>8, <1>13 DEF MintInv

\* What the acceptance of an id writes: its type, and where the mint goes on.
LEMMA Accepted ==
  ASSUME IInv, MintInv, RecipientAccepts, NEW n, n = Len(Top.minted)
  PROVE  /\ stack # <<>> /\ Top.op \in MintOp /\ Top.pc = "calling"
         /\ UNCHANGED <<owner, types, boxVars, vaultVars, bank, now>>
         /\ n \in Nat /\ DOMAIN Top.minted = 1 .. n
         /\ \A i \in 1 .. n : Top.minted[i] \in Box /\ Top.minted[i] \in MintedBy(Top)
         /\ tokenTypes'[Top.minted[n]] = Top.type
         /\ \A c \in Box \ {Top.minted[n]} : tokenTypes'[c] = tokenTypes[c]
         /\ Top.minted[n] \in MintedBy(Top)
         /\ Unfinished = MintedBy(Top) /\ Unfinished' = MintedBy(Top)
         /\ \E g \in MintFrame :
               /\ stack' # <<>> /\ stack'[1] = g
               /\ g.op = Top.op /\ g.pre = Top.pre /\ g.caller = Top.caller
               /\ g.type = Top.type /\ g.wanted = Top.wanted /\ g.to = Top.to
               /\ g.minted = Top.minted
               /\ g.pc = IF Len(Top.minted) < Len(Top.to) THEN "ready" ELSE "locking"
<1>1. stack # <<>> /\ Top.op \in MintOp /\ Top.pc = "calling"
  BY DEF RecipientAccepts, At
<1>2. /\ Top \in MintFrame /\ FrameOK(Top) /\ Top = stack[1] /\ Len(stack) = 1
      /\ stack \in Seq(Frame) /\ Top.pre \in Storage
  BY <1>1, InProgress
<1>3. MintUnderWay(Top)
  BY <1>1, <1>2 DEF MintInv, MintsInOrder
<1>4. FieldsOK
  BY FieldsOfCurrent DEF IInv, TypeOK
<1>5. PICK g : g = [Top EXCEPT !.pc =
                      IF Len(Top.minted) < Len(Top.to) THEN "ready" ELSE "locking"]
  OBVIOUS
<1>6. /\ g \in MintFrame
      /\ g.op = Top.op /\ g.pre = Top.pre /\ g.caller = Top.caller
      /\ g.type = Top.type /\ g.wanted = Top.wanted /\ g.to = Top.to
      /\ g.minted = Top.minted
      /\ g.pc = IF Len(Top.minted) < Len(Top.to) THEN "ready" ELSE "locking"
  BY <1>2, <1>5 DEF MintFrame
<1>7. ReplaceTop(g) /\ UNCHANGED <<owner, types, boxVars, vaultVars, bank, now>>
  BY <1>5 DEF RecipientAccepts, nftVars
<1>8. stack' # <<>> /\ stack'[1] = g
  BY <1>2, <1>6, <1>7, Replaced DEF Frame
<1>9. /\ n \in Nat /\ n # 0 /\ DOMAIN Top.minted = 1 .. n
      /\ \A i \in 1 .. n : Top.minted[i] \in Box /\ Top.minted[i] \in MintedBy(Top)
  BY <1>2, <1>3, <1>1, MintedElements, EmptySeq DEF MintUnderWay
<1>10. /\ tokenTypes'[Top.minted[n]] = Top.type
       /\ \A c \in Box \ {Top.minted[n]} : tokenTypes'[c] = tokenTypes[c]
       /\ Top.minted[n] \in MintedBy(Top)
  <2>1. n \in 1 .. n
    BY <1>9
  <2>2. Top.minted[n] \in Box /\ Top.minted[n] \in MintedBy(Top)
    BY <1>9, <2>1
  <2>3. tokenTypes' = [tokenTypes EXCEPT ![Top.minted[n]] = Top.type]
    BY DEF RecipientAccepts
  <2> QED
    BY <1>4, <2>2, <2>3 DEF FieldsOK
<1>11. Unfinished = MintedBy(Top) /\ Unfinished' = MintedBy(Top)
  BY <1>1, <1>2, <1>6, <1>8 DEF Unfinished, MintedBy
<1> QED
  BY <1>1, <1>6, <1>7, <1>8, <1>9, <1>10, <1>11

\* The recipient's acceptance records the type of its NFT, in a batch for
\* the first time.
LEMMA RecipientAcceptsMints ==
  ASSUME IInv, MintInv, RecipientAccepts
  PROVE  MintInv'
<1>0. PICK n : n = Len(Top.minted)
  OBVIOUS
<1>1. stack # <<>> /\ Top.op \in MintOp /\ Top.pc = "calling"
  BY DEF RecipientAccepts, At
<1>2. Top \in MintFrame /\ Top = stack[1]
  BY <1>1, InProgress
<1>3. MintsInOrder(Top) /\ KeepsMinted(Top) /\ MintUnderWay(Top)
  BY <1>1, <1>2 DEF MintInv, MintsInOrder
<1>6. PICK g \in MintFrame :
         /\ stack' # <<>> /\ stack'[1] = g
         /\ g.op = Top.op /\ g.pre = Top.pre /\ g.caller = Top.caller
         /\ g.type = Top.type /\ g.wanted = Top.wanted /\ g.to = Top.to
         /\ g.minted = Top.minted
         /\ g.pc = IF Len(Top.minted) < Len(Top.to) THEN "ready" ELSE "locking"
  BY Accepted
<1>7. UNCHANGED <<owner, types, boxVars, now>>
  BY <1>0, Accepted
<1>8. stack' # <<>> /\ stack'[1] = g
  BY <1>6
<1>9. /\ n \in Nat /\ DOMAIN Top.minted = 1 .. n
      /\ \A i \in 1 .. n : Top.minted[i] \in Box /\ Top.minted[i] \in MintedBy(Top)
      /\ n \in 1 .. n
  <2>1. /\ n \in Nat /\ DOMAIN Top.minted = 1 .. n
        /\ \A i \in 1 .. n : Top.minted[i] \in Box /\ Top.minted[i] \in MintedBy(Top)
    BY <1>0, Accepted
  <2>2. n # 0
    BY <1>0, <1>1, <1>2, <1>3, EmptySeq DEF MintFrame, MintUnderWay
  <2> QED
    BY <2>1, <2>2
<1>10. /\ tokenTypes'[Top.minted[n]] = Top.type
       /\ \A c \in Box \ {Top.minted[n]} : tokenTypes'[c] = tokenTypes[c]
       /\ Top.minted[n] \in MintedBy(Top)
  BY <1>0, Accepted
<1>11. Unfinished = MintedBy(Top) /\ Unfinished' = MintedBy(Top)
  BY <1>0, Accepted
<1>12. Catalogue(Current)' /\ AllInRange(Current, Unfinished)'
  BY <1>7, <1>10, <1>11 DEF MintInv, Catalogue, AllInRange, Current
<1>13. Top.pre.owner[Top.minted[n]] = Nobody
  BY <1>3, <1>9 DEF MintUnderWay
<1>14. KeepsMinted(g)'
  BY <1>3, <1>6, <1>7, <1>10, <1>11, <1>13 DEF KeepsMinted, boxVars
<1>15. MintUnderWay(g)'
  <2>1. \A i \in DOMAIN g.minted : tokenTypes'[g.minted[i]] = g.type
    <3> SUFFICES ASSUME NEW i \in 1 .. n PROVE tokenTypes'[Top.minted[i]] = Top.type
      BY <1>6, <1>9
    <3>1. CASE i = n
      BY <1>10, <3>1
    <3>2. CASE i # n
      BY <1>0, <1>1, <1>3, <1>9, <1>10, <3>2 DEF MintUnderWay
    <3> QED
      BY <3>1, <3>2
  <2>2. g.pc = "locking" => Len(g.minted) = Len(g.to)
    <3>1. Len(Top.minted) \in Nat /\ Len(Top.to) \in Nat
      BY <1>2, LenProperties DEF MintFrame
    <3> QED
      BY <1>3, <1>6, <3>1 DEF MintUnderWay
  <2> QED
    BY <1>3, <1>6, <1>7, <2>1, <2>2 DEF MintUnderWay
<1>16. MintsInOrder(g)'
  BY <1>3, <1>6, <1>14, <1>15 DEF MintsInOrder, Catalogue, AllInRange
<1> QED
  BY <1>8, <1>12, <1>16 DEF MintInv

\* A function that returns or reverts leaves no mint unfinished.
LEMMA NothingUnfinished ==
  ASSUME IInv, stack # <<>>, Pop
  PROVE  stack' = <<>> /\ Unfinished' = {}
  BY InProgress, Popped DEF Unfinished

\* When the mint returns, each of its ids is recorded with the type of the
\* mint, in whose range it is.
LEMMA FinishMintMints ==
  ASSUME IInv, MintInv, FinishMint
  PROVE  MintInv'
<1>1. stack # <<>> /\ Top.op \in MintOp /\ Top.pc = "locking"
  BY DEF FinishMint, At
<1>2. Top \in MintFrame /\ Top = stack[1]
  BY <1>1, InProgress
<1>3. MintUnderWay(Top)
  BY <1>1, <1>2 DEF MintInv, MintsInOrder
<1>4. stack' = <<>> /\ Unfinished' = {}
  BY <1>1, NothingUnfinished DEF FinishMint, Return
<1>5. Unfinished = MintedBy(Top)
  BY <1>1, <1>2 DEF Unfinished
<1>6. ASSUME NEW b \in MintedBy(Top) PROVE InRange(types[tokenTypes[b]], b)
  <2>1. PICK i \in DOMAIN Top.minted : b = Top.minted[i]
    BY DEF MintedBy
  <2> QED
    BY <1>1, <1>3, <2>1 DEF MintUnderWay
<1>7. AllInRange(Current, Unfinished)'
  BY <1>4, <1>5, <1>6 DEF FinishMint, MintInv, AllInRange, Current, nftVars, typeVars
<1>8. Catalogue(Current)'
  BY DEF FinishMint, MintInv, Catalogue, Current, typeVars
<1> QED
  BY <1>4, <1>7, <1>8 DEF MintInv

\* The vault's functions return without having minted.
LEMMA FinishVaultMints ==
  ASSUME IInv, MintInv, FinishVault \/ _unlockMint
  PROVE  MintInv'
<1>1. stack # <<>> /\ Top.op \in VaultOp /\ Pop /\ UNCHANGED <<nftVars, typeVars>>
  BY DEF FinishVault, _unlockMint, At, Return, VaultOp
<1>2. Top = stack[1] /\ Top.op \notin MintOp
  BY <1>1, InProgress
<1>3. stack' = <<>> /\ Unfinished' = {} /\ Unfinished = {}
  BY <1>1, <1>2, NothingUnfinished DEF Unfinished
<1> QED
  BY <1>1, <1>3
  DEF MintInv, Catalogue, AllInRange, Current, nftVars, typeVars

\* A revert puts back a storage in which all ids were in their ranges.
LEMMA RevertMints ==
  ASSUME IInv, MintInv, Revert
  PROVE  MintInv'
<1>1. stack # <<>> /\ Pop /\ Restore(Top.pre)
  BY DEF Revert
<1>2. Top.pre \in Storage /\ MintsInOrder(Top)
  BY <1>1, InProgress DEF MintInv
<1>3. stack' = <<>> /\ Unfinished' = {}
  BY <1>1, NothingUnfinished
<1> QED
  BY <1>1, <1>2, <1>3
  DEF MintInv, MintsInOrder, Catalogue, AllInRange, Current, Restore

\* Every step keeps the mint invariant.
LEMMA NextMints ==
  ASSUME IInv, MintInv, [Next]_vars
  PROVE  MintInv'
<1>1. CASE \/ UnguardedCall \/ Tick \/ UNCHANGED vars
           \/ \E x \in Account, a \in Donations : Donate(x, a)
  BY <1>1, QuietStep, MintQuiet
<1>2. CASE MintCall \/ VaultCall
  BY <1>2, MintCallMints, VaultCallMints
<1>3. CASE MintStep
  BY <1>3, MintNextMints, RecipientAcceptsMints, FinishMintMints DEF MintStep
<1>4. CASE VaultStep
  BY <1>4, VaultGoesOnMints, FinishVaultMints DEF VaultStep
<1>5. CASE Revert
  BY <1>5, RevertMints
<1> QED
  BY <1>1, <1>2, <1>3, <1>4, <1>5 DEF Next, TransactionStep

\* The mint invariant holds at any moment of any transaction.
THEOREM MintsInvariant == Spec => []MintInv
<1>1. Init => MintInv
  BY InitMint
<1>2. IInv /\ MintInv /\ [Next]_vars => MintInv'
  BY NextMints
<1> QED
  BY <1>1, <1>2, Inductive, PTL DEF Spec

-----------------------------------------------------------------------------
(* Mints: the promises *)

\* Every box has a type that was added, and an id in the range of its type,
\* for any list of types, overlapping or not, and any order of the mints.
THEOREM MintsStayInRange == Spec => []MintedInRange
<1>1. MintInv => MintedInRange
  <2> SUFFICES ASSUME MintInv PROVE MintedInRange
    OBVIOUS
  <2>1. CASE stack = <<>>
    BY <2>1
    DEF MintInv, AllInRange, InRange, Unfinished, MintedInRange, Committed
  <2>2. CASE stack # <<>>
    BY <2>2
    DEF MintInv, MintsInOrder, AllInRange, InRange, MintedInRange, Committed
  <2> QED
    BY <2>1, <2>2
<1> QED
  BY <1>1, MintsInvariant, PTL

-----------------------------------------------------------------------------
(* What is committed, and by which step *)

\* The committed storage changes in a quiet step between transactions or
\* when a function returns, and in no other step.
LEMMA CommittingStep ==
  ASSUME IInv, [Next]_vars
  PROVE  \/ stack = <<>> /\ Quiet /\ Committed = Current /\ Committed' = Current'
         \/ Committed' = Committed
         \/ /\ FinishMint \/ FinishVault \/ _unlockMint
            /\ stack # <<>> /\ Committed = Top.pre /\ Committed' = Current'
            /\ Top = stack[1] /\ Top.pre \in Storage
<1>1. ASSUME Quiet
      PROVE  \/ stack = <<>> /\ Quiet /\ Committed = Current /\ Committed' = Current'
             \/ Committed' = Committed
  BY <1>1 DEF Quiet, Committed
<1>2. ASSUME NEW op, NEW x, NEW t, NEW r, NEW wanted, NEW to,
             BeginMint(op, x, t, r, wanted, to)
      PROVE  Committed' = Committed
  BY <1>2, EnterCommits DEF BeginMint
<1>3. CASE MintCall
  <2>1. \/ \E x \in Account, defs \in TypeBatches : addTypes(x, defs)
        \/ \E op, x, t, r, wanted, to : BeginMint(op, x, t, r, wanted, to)
    BY <1>3 DEF MintCall, safeMint, safeMintByType, safeBatchMintByType
  <2> QED
    BY <1>1, <1>2, <2>1, QuietStep
<1>4. CASE VaultCall
  BY <1>4, VaultFrameEntered, EnterCommits
<1>5. CASE FinishMint \/ FinishVault \/ _unlockMint
  <2>1. stack # <<>> /\ Pop
    BY <1>5 DEF FinishMint, FinishVault, _unlockMint, At, Return
  <2>2. stack' = <<>> /\ Top = stack[1] /\ Top.pre \in Storage
    BY <2>1, InProgress, NothingUnfinished
  <2> QED
    BY <1>5, <2>1, <2>2 DEF Committed
<1>6. CASE TransactionStep
  BY <1>5, <1>6, ReturnsOrKeeps
<1>7. CASE \/ UnguardedCall \/ Tick \/ UNCHANGED vars
           \/ \E x \in Account, a \in Donations : Donate(x, a)
  BY <1>1, <1>7, QuietStep
<1> QED
  BY <1>3, <1>4, <1>6, <1>7 DEF Next

\* The boxes a transaction mints are those of its mint function.
LEMMA NewBoxes ==
  ASSUME IInv, MintInv, [Next]_vars, NEW b \in Box,
         Committed.owner[b] = Nobody, Committed'.owner[b] # Nobody
  PROVE  /\ FinishMint /\ stack # <<>> /\ Top = stack[1] /\ Top \in MintFrame
         /\ b \in MintedBy(Top) /\ MintUnderWay(Top) /\ Top.pc = "locking"
         /\ tokenTypes[b] = Top.type
         /\ Committed = Top.pre /\ Committed' = Current'
<1>1. \/ stack = <<>> /\ Quiet /\ Committed = Current /\ Committed' = Current'
      \/ Committed' = Committed
      \/ /\ FinishMint \/ FinishVault \/ _unlockMint
         /\ stack # <<>> /\ Committed = Top.pre /\ Committed' = Current'
         /\ Top = stack[1] /\ Top.pre \in Storage
  BY CommittingStep
<1>2. ~(stack = <<>> /\ Quiet /\ Committed = Current /\ Committed' = Current')
  BY DEF Quiet, Current
<1>3. /\ FinishMint \/ FinishVault \/ _unlockMint
      /\ stack # <<>> /\ Committed = Top.pre /\ Committed' = Current'
      /\ Top = stack[1]
  BY <1>1, <1>2
<1>4. owner'[b] = owner[b]
  BY <1>3 DEF FinishMint, FinishVault, _unlockMint, nftVars
<1>5. Top.pre.owner[b] = Nobody /\ owner[b] # Nobody
  BY <1>3, <1>4 DEF Current
<1>6. MintsInOrder(Top)
  BY <1>3 DEF MintInv
<1>7. b \in Unfinished
  BY <1>5, <1>6 DEF MintsInOrder, KeepsMinted
<1>8. Top.op \in MintOp /\ b \in MintedBy(Top) /\ MintUnderWay(Top)
  BY <1>3, <1>6, <1>7 DEF Unfinished, MintsInOrder
<1>9. FinishMint /\ Top.pc = "locking"
  BY <1>3, <1>8 DEF FinishVault, _unlockMint, FinishMint, At, MintOp
<1>10. tokenTypes[b] = Top.type
  <2>1. PICK i \in DOMAIN Top.minted : b = Top.minted[i]
    BY <1>8 DEF MintedBy
  <2> QED
    BY <1>8, <1>9, <2>1 DEF MintUnderWay
<1> QED
  BY <1>3, <1>8, <1>9, <1>10, InProgress

\* Mints that are not an admin's leave the reserved ids alone and wait for
\* the start date, although the role, the reserve and the date are checked
\* at different moments of the three functions, with calls to the recipient
\* and the token in between.
THEOREM MintPolicy == Spec => MintPolicyKept
<1> DEFINE Kept ==
      \A b \in Box :
          Committed.owner[b] = Nobody /\ Committed'.owner[b] # Nobody =>
              LET t == Committed'.types[Committed'.tokenTypes[b]] IN
              \/ stack[1].caller \in Committed.admins \cup Committed'.admins
              \/ b <= t.lastIdNotReserved /\ t.mintStartTimestamp <= now
<1>1. ASSUME IInv, MintInv, [Next]_vars PROVE Kept
  <2> SUFFICES ASSUME NEW b \in Box,
                      Committed.owner[b] = Nobody, Committed'.owner[b] # Nobody
               PROVE  LET t == Committed'.types[Committed'.tokenTypes[b]] IN
                      \/ stack[1].caller \in Committed.admins \cup Committed'.admins
                      \/ b <= t.lastIdNotReserved /\ t.mintStartTimestamp <= now
    OBVIOUS
  <2>1. /\ FinishMint /\ Top = stack[1] /\ Top \in MintFrame
        /\ b \in MintedBy(Top) /\ MintUnderWay(Top)
        /\ tokenTypes[b] = Top.type
        /\ Committed = Top.pre /\ Committed' = Current'
    BY <1>1, NewBoxes
  <2>2. /\ Committed'.types[Committed'.tokenTypes[b]] = types[Top.type]
        /\ Committed'.admins = admins
    BY <2>1 DEF FinishMint, Current, typeVars
  <2>3. MintAllowed(Top)
    BY <2>1 DEF FinishMint
  <2>4. Top.op \in MintOp
    BY <2>1 DEF MintFrame
  <2>5. \/ Top.caller \in Top.pre.admins \cup admins
        \/ b <= types[Top.type].lastIdNotReserved
    BY <2>1, <2>3 DEF MintAllowed, MintUnderWay
  <2>6. \/ types[Top.type].mintStartTimestamp <= now
        \/ Top.caller \in Top.pre.admins
    BY <2>1, <2>3, <2>4 DEF MintAllowed, MintUnderWay, MintOp
  <2> QED
    BY <2>1, <2>2, <2>5, <2>6
<1>2. IInv /\ MintInv /\ [Next]_vars => [Kept]_vars
  BY <1>1
<1> QED
  BY <1>2, Inductive, MintsInvariant, PTL DEF Spec, MintPolicyKept

\* No step changes what a committed box was minted with.
LEMMA TermsKept ==
  ASSUME IInv, MintInv, [Next]_vars, NEW b \in Box, Committed.owner[b] # Nobody
  PROVE  /\ Committed'.owner[b] # Nobody
         /\ Committed'.tokenTypes[b] = Committed.tokenTypes[b]
         /\ Committed'.types[Committed.tokenTypes[b]]
               = Committed.types[Committed.tokenTypes[b]]
         /\ Committed'.lockedDestructionEnd[b] = Committed.lockedDestructionEnd[b]
<1>1. FieldsOK
  BY FieldsOfCurrent DEF IInv, TypeOK
<1>2. CASE stack = <<>> /\ Quiet /\ Committed = Current /\ Committed' = Current'
  <2>1. owner[b] # Nobody /\ tokenTypes[b] \in TypeId
    BY <1>1, <1>2 DEF Current, FieldsOK
  <2>2. types[tokenTypes[b]].to # 0
    BY <1>2, <2>1
    DEF MintInv, AllInRange, InRange, Unfinished, Current
  <2>3. types'[tokenTypes[b]] = types[tokenTypes[b]]
    BY <1>2, <2>1, <2>2 DEF Quiet
  <2> QED
    BY <1>2, <2>1, <2>3 DEF Quiet, Current
<1>3. CASE Committed' = Committed
  BY <1>3
<1>4. CASE /\ FinishMint \/ FinishVault \/ _unlockMint
           /\ stack # <<>> /\ Committed = Top.pre /\ Committed' = Current'
           /\ Top = stack[1] /\ Top.pre \in Storage
  <2>1. MintsInOrder(Top) /\ KeepsMinted(Top) /\ Top.pre.owner[b] # Nobody
    BY <1>4 DEF MintInv, MintsInOrder
  <2>2. /\ owner[b] # Nobody /\ tokenTypes[b] = Top.pre.tokenTypes[b]
        /\ lockedDestructionEnd[b] = Top.pre.lockedDestructionEnd[b]
    BY <2>1 DEF KeepsMinted
  <2>3. types[Top.pre.tokenTypes[b]] = Top.pre.types[Top.pre.tokenTypes[b]]
    <3>1. Top.pre.types[Top.pre.tokenTypes[b]].to # 0
      BY <2>1 DEF MintsInOrder, AllInRange, InRange
    <3>2. Top.pre.tokenTypes[b] \in TypeId
      BY <1>4 DEF Storage
    <3> QED
      BY <2>1, <3>1, <3>2 DEF KeepsMinted
  <2>4. lockedDestructionEnd'[b] = lockedDestructionEnd[b]
    <3>1. CASE FinishMint
      <4>1. Top.op \in MintOp
        BY <3>1 DEF FinishMint, At
      <4>2. MintUnderWay(Top)
        BY <2>1, <4>1 DEF MintsInOrder
      <4>3. b \notin MintedBy(Top)
        BY <2>1, <4>2 DEF MintUnderWay, MintedBy
      <4> QED
        BY <3>1, <4>3 DEF FinishMint
    <3>2. CASE FinishVault \/ _unlockMint
      BY <3>2 DEF FinishVault, _unlockMint, boxVars
    <3> QED
      BY <1>4, <3>1, <3>2
  <2>5. UNCHANGED <<owner, tokenTypes, types>>
    BY <1>4 DEF FinishMint, FinishVault, _unlockMint, nftVars, typeVars
  <2> QED
    BY <1>4, <2>2, <2>3, <2>4, <2>5 DEF Current
<1> QED
  BY <1>2, <1>3, <1>4, CommittingStep

\* No later mint, addTypes or call made in between changes what a box was
\* minted with.
THEOREM TermsFixed == Spec => TermsAreFixed
<1> DEFINE Fixed ==
      \A b \in Box : Committed.owner[b] # Nobody =>
          /\ Committed'.owner[b] # Nobody
          /\ Committed'.tokenTypes[b] = Committed.tokenTypes[b]
          /\ Committed'.types[Committed.tokenTypes[b]]
                = Committed.types[Committed.tokenTypes[b]]
          /\ Committed'.lockedDestructionEnd[b]
                = Committed.lockedDestructionEnd[b]
<1>1. IInv /\ MintInv /\ [Next]_vars => [Fixed]_vars
  BY TermsKept
<1> QED
  BY <1>1, Inductive, MintsInvariant, PTL DEF Spec, TermsAreFixed

\* A new box is restricted exactly if its minter asked for it, whatever its
\* recipient set when it was called.
THEOREM MinterDecides == Spec => MinterSetsRestriction
<1> DEFINE Decided ==
      \A b \in Box :
          Committed.owner[b] = Nobody /\ Committed'.owner[b] # Nobody =>
              Committed'.storeRestricted[b] = stack[1].restricted
<1>1. ASSUME IInv, MintInv, [Next]_vars PROVE Decided
  <2> SUFFICES ASSUME NEW b \in Box,
                      Committed.owner[b] = Nobody, Committed'.owner[b] # Nobody
               PROVE  Committed'.storeRestricted[b] = stack[1].restricted
    OBVIOUS
  <2>1. /\ FinishMint /\ Top = stack[1] /\ b \in MintedBy(Top)
        /\ Committed' = Current'
    BY <1>1, NewBoxes
  <2> QED
    BY <2>1 DEF FinishMint, RestrictionSetBy, Current
<1>2. IInv /\ MintInv /\ [Next]_vars => [Decided]_vars
  BY <1>1
<1> QED
  BY <1>2, Inductive, MintsInvariant, PTL DEF Spec, MinterSetsRestriction

-----------------------------------------------------------------------------
(* Contents, call by call *)

\* What a box holds of what a call names.
LEMMA InBoxEnough ==
  ASSUME indexed \in [Box -> [Asset -> Nat]], NEW b \in Box, NEW c \in Call,
         InBox(b, c), NEW a \in Asset
  PROVE  c.moves[a] \in Nat /\ c.moves[a] <= indexed[b][a]
<1>1. c.moves[a] \in Nat
  BY DEF Call
<1>2. CASE c.kind = "erc721" /\ c.moves[a] # 0
  <2>1. PICK u \in Asset : c.moves = Only(u, 1)
    BY <1>2 DEF Call
  <2>2. c.moves[a] = 1
    BY <1>2, <2>1 DEF Only
  <2> QED
    BY <1>2, <2>2 DEF InBox
<1>3. CASE ~(c.kind = "erc721" /\ c.moves[a] # 0)
  BY <1>1, <1>3 DEF InBox
<1> QED
  BY <1>1, <1>2, <1>3

\* A call of an NFT names one unit.
LEMMA OneUnit ==
  ASSUME NEW c \in Call, NEW a \in Asset, c.kind = "erc721", c.moves[a] # 0
  PROVE  c.moves[a] = 1
<1>1. PICK u \in Asset : c.moves = Only(u, 1)
  BY DEF Call
<1> QED
  BY <1>1 DEF Only

\* What the three writes to a box do to it.
LEMMA Written ==
  ASSUME NEW l \in [Box -> [Asset -> Nat]], NEW b \in Box, NEW c \in Call,
         NEW a \in Asset
  PROVE  /\ Credit(l, b, c)[b][a] = l[b][a] + c.moves[a]
         /\ Debit(l, b, c)[b][a] = l[b][a] - c.moves[a]
         /\ c.kind # "erc721" => Arrived(l, b, c)[b][a] = l[b][a] + c.moves[a]
         /\ c.kind = "erc721" /\ c.moves[a] # 0 => Arrived(l, b, c)[b][a] = 1
         /\ c.moves[a] = 0 => Arrived(l, b, c)[b][a] = l[b][a]
         /\ c.moves[a] \in Nat /\ l[b][a] \in Nat
  BY DEF Credit, Debit, Arrived, Call

\* Where tokens are named by their own standard, no write records an NFT
\* twice in a box, and what arrives in a box never replaces more than it
\* brings.
LEMMA WrittenOnce ==
  ASSUME NEW l \in [Box -> [Asset -> Nat]], NEW b \in Box, NEW c \in Call,
         Implemented(c), NEW a \in Asset, Kind[a] = "erc721" => l[b][a] <= 1
  PROVE  /\ l[b][a] <= Arrived(l, b, c)[b][a]
         /\ Kind[a] = "erc721" => Arrived(l, b, c)[b][a] <= 1
         /\ Kind[a] = "erc721" /\ (c.moves[a] # 0 => l[b][a] = 0) =>
               Credit(l, b, c)[b][a] <= 1
<1>1. /\ c.moves[a] \in Nat /\ l[b][a] \in Nat
      /\ c.moves[a] # 0 => Kind[a] = c.kind
  BY Written DEF Implemented
<1>2. CASE c.moves[a] = 0
  BY <1>1, <1>2, Written
<1>3. CASE c.moves[a] # 0 /\ c.kind = "erc721"
  BY <1>1, <1>3, OneUnit, Written
<1>4. CASE c.moves[a] # 0 /\ c.kind # "erc721"
  BY <1>1, <1>4, Written
<1> QED
  BY <1>2, <1>3, <1>4

-----------------------------------------------------------------------------
(* Rights: the invariant *)

\* Nothing is recorded, and no call is in progress.
LEMMA InitRights == Init => RightsInv
  BY DEF Init, RightsInv, NoDoubles, Current

\* Steps that write to no box and go on with what they find.
LEMMA QuietRights ==
  ASSUME IInv, RightsInv, UNCHANGED <<stack, indexed>>
  PROVE  RightsInv'
<1>1. ASSUME NEW f, f = stack[1], stack # <<>> PROVE ActsByRight(f)'
  <2>1. ActsByRight(f)
    BY <1>1 DEF RightsInv
  <2>2. WritesItsBoxes(f)'
    BY <2>1 DEF ActsByRight, WritesItsBoxes
  <2> QED
    BY <2>1, <2>2
    DEF ActsByRight, TakesByRight, GivesByRight, WellAddressed, NoDoubles,
        ApprovedOrOwnerIn
<1>2. (OwnStandard => NoDoubles(Current))'
  BY DEF RightsInv, NoDoubles, Current, OwnStandard
<1> QED
  BY <1>1, <1>2 DEF RightsInv

\* A function that is entered, with its guards just tested.
LEMMA EnterRights ==
  ASSUME IInv, RightsInv, NEW f \in Frame, f.pre = Current, Enter(f),
         TakesByRight(f), GivesByRight(f), WellAddressed(f),
         f.op # "store" => indexed' = indexed,
         f.op = "store" =>
            /\ f.box \in Box /\ f.dest = f.box
            /\ \A b \in Box \ {f.box} : indexed'[b] = indexed[b]
            /\ \A a \in Asset : indexed[f.box][a] <= indexed'[f.box][a]
            /\ \A a \in Asset : Kind[a] = "erc721" =>
                                   indexed'[f.box][a] = indexed[f.box][a]
  PROVE  RightsInv'
<1>1. stack = <<>> /\ stack'[1] = f /\ stack' # <<>>
  BY EnterIdle, Pushed DEF Enter
<1>2. FieldsOK
  BY FieldsOfCurrent DEF IInv, TypeOK
<1>3. OwnStandard => NoDoubles(f.pre) /\ NoDoubles(Current)'
  BY <1>2 DEF RightsInv, NoDoubles, Current, FieldsOK
<1>4. f.pre.indexed = indexed
  BY DEF Current
<1>5. \A b \in Box, a \in Asset : indexed[b][a] <= indexed[b][a]
  BY <1>2 DEF FieldsOK
<1>6. WritesItsBoxes(f)'
  <2>1. \A b \in Box : indexed'[b] # indexed[b] =>
           f.op \in VaultOp /\ b \in {f.box, f.dest}
    BY DEF VaultOp
  <2>2. f.op = "store" => \A a \in Asset : indexed[f.dest][a] <= indexed'[f.dest][a]
    OBVIOUS
  <2>3. f.op \in VaultOp => f.box \in Box /\ f.dest \in Box
    BY DEF Frame, VaultFrame, MintFrame, VaultOp, MintOp
  <2>4. f.op # "store" /\ f.op \in VaultOp =>
           \A a \in Asset : /\ indexed[f.dest][a] <= indexed'[f.dest][a]
                            /\ indexed'[f.box][a] <= indexed[f.box][a]
    BY <1>5, <2>3
  <2> QED
    BY <1>4, <2>1, <2>2, <2>4 DEF WritesItsBoxes, Transfers, VaultOp
<1>7. ActsByRight(f)'
  BY <1>3, <1>6
  DEF ActsByRight, TakesByRight, GivesByRight, WellAddressed, NoDoubles,
      ApprovedOrOwnerIn
<1> QED
  BY <1>1, <1>3, <1>7 DEF RightsInv, OwnStandard

\* A request names its tokens, and ether is ether.
LEMMA RequestNames ==
  ASSUME NEW req \in Requests, OwnStandard
  PROVE  /\ \A i \in DOMAIN req.tokens : Implemented(req.tokens[i])
         /\ LET calls == <<EthCall(req.eth)>> \o req.tokens IN
            \A i \in DOMAIN calls : Implemented(calls[i])
<1> DEFINE calls == <<EthCall(req.eth)>> \o req.tokens
<1>1. \A i \in DOMAIN req.tokens : Implemented(req.tokens[i])
  BY DEF OwnStandard
<1>2. Implemented(EthCall(req.eth))
  BY AssetsAssumption DEF Implemented, EthCall, Only
<1>3. <<EthCall(req.eth)>> \in Seq(Call) /\ req.tokens \in Seq(Call)
  BY RequestCalls
<1>4. ASSUME NEW i \in DOMAIN calls PROVE Implemented(calls[i])
  <2>1. /\ Len(calls) = 1 + Len(req.tokens) /\ Len(req.tokens) \in Nat
        /\ DOMAIN calls = 1 .. Len(calls) /\ DOMAIN req.tokens = 1 .. Len(req.tokens)
        /\ \A j \in 1 .. Len(calls) :
              calls[j] = IF j <= 1 THEN <<EthCall(req.eth)>>[j] ELSE req.tokens[j - 1]
    BY <1>3, ConcatProperties, LenProperties
  <2>2. CASE i = 1
    BY <1>2, <2>1, <2>2
  <2>3. CASE i # 1
    <3>1. i - 1 \in DOMAIN req.tokens /\ calls[i] = req.tokens[i - 1]
      BY <2>1, <2>3
    <3> QED
      BY <1>1, <3>1
  <2> QED
    BY <2>2, <2>3
<1> QED
  BY <1>1, <1>4

\* The guards of the four operations, for the storage when they begin.
LEMMA VaultCallRights ==
  ASSUME IInv, RightsInv, VaultCall
  PROVE  RightsInv'
<1>1. PICK x \in Account, b \in Box, req \in Requests :
        \/ store(x, b, req)
        \/ \E to \in Payees : withdraw(x, b, to, req)
        \/ \E dest \in Box : transferBetweenBoxes(x, b, dest, req)
        \/ \E to \in Payees : destroy(x, b, to, req)
  BY DEF VaultCall
<1>2. FieldsOK
  BY FieldsOfCurrent DEF IInv, TypeOK
<1> DEFINE calls == <<EthCall(req.eth)>> \o req.tokens
<1>3. /\ req.tokens \in Seq(Call) /\ calls \in Seq(Call)
      /\ EthCall(req.eth) \in Call /\ x \in Holder
  BY RequestCalls DEF Holder
<1>4. OwnStandard => /\ \A i \in DOMAIN req.tokens : Implemented(req.tokens[i])
                     /\ \A i \in DOMAIN calls : Implemented(calls[i])
  BY RequestNames
<1> HIDE DEF calls
<1>5. ASSUME NEW op \in VaultOp, NEW dest \in Box, NEW to \in Holder,
             NEW cs \in Seq(Call), NEW f \in VaultFrame,
             f = [op |-> op, caller |-> x, box |-> b, dest |-> dest, to |-> to,
                  calls |-> cs, pc |-> "ready", pre |-> Current]
      PROVE  /\ f \in Frame /\ f.pre = Current /\ f.op = op /\ f.caller = x
             /\ f.box = b /\ f.dest = dest /\ f.calls = cs
  BY <1>5 DEF Frame
<1>6. ASSUME NEW op \in VaultOp, NEW dest \in Box, NEW to \in Holder,
             NEW cs \in Seq(Call)
      PROVE  [op |-> op, caller |-> x, box |-> b, dest |-> dest, to |-> to,
              calls |-> cs, pc |-> "ready", pre |-> Current] \in VaultFrame
  BY DEF IInv, TypeOK, VaultFrame
<1>7. CASE store(x, b, req)
  <2>0. PICK f : f = [op |-> "store", caller |-> x, box |-> b, dest |-> b, to |-> x,
                      calls |-> req.tokens, pc |-> "ready", pre |-> Current]
    OBVIOUS
  <2>1. /\ f \in Frame /\ f.pre = Current /\ f.op = "store" /\ f.caller = x
        /\ f.box = b /\ f.dest = b /\ f.calls = req.tokens
    BY <1>3, <1>5, <1>6, <2>0 DEF VaultOp
  <2>2. Enter(f) /\ _beforeStore(x, b) /\ indexed' = Credit(indexed, b, EthCall(req.eth))
    BY <1>7, <2>0 DEF store, BeginVault
  <2>3. TakesByRight(f) /\ GivesByRight(f) /\ WellAddressed(f)
    BY <1>4, <2>1, <2>2
    DEF TakesByRight, GivesByRight, WellAddressed, _beforeStore,
        onlyNotDestroyedBox, _exists, _isApprovedOrOwner, Current
  <2>4. \A d \in Box \ {b} : indexed'[d] = indexed[d]
    BY <1>2, <1>3, <2>2, CreditType DEF FieldsOK
  <2>5. ASSUME NEW a \in Asset
        PROVE  /\ indexed[b][a] <= indexed'[b][a]
               /\ Kind[a] = "erc721" => indexed'[b][a] = indexed[b][a]
    <3>1. /\ indexed'[b][a] = indexed[b][a] + EthCall(req.eth).moves[a]
          /\ EthCall(req.eth).moves[a] \in Nat /\ indexed[b][a] \in Nat
      BY <1>2, <1>3, <2>2, Written DEF FieldsOK
    <3>2. Kind[a] = "erc721" => EthCall(req.eth).moves[a] = 0
      BY AssetsAssumption DEF EthCall, Only
    <3> QED
      BY <3>1, <3>2
  <2> QED
    BY <2>1, <2>2, <2>3, <2>4, <2>5, EnterRights
<1>8. ASSUME NEW to \in Payees, withdraw(x, b, to, req) PROVE RightsInv'
  <2>0. PICK f : f = [op |-> "withdraw", caller |-> x, box |-> b, dest |-> b, to |-> to,
                      calls |-> calls, pc |-> "ready", pre |-> Current]
    OBVIOUS
  <2>1. /\ f \in Frame /\ f.pre = Current /\ f.op = "withdraw" /\ f.caller = x
        /\ f.box = b /\ f.dest = b /\ f.calls = calls
    BY <1>3, <1>5, <1>6, <2>0, VaultInputs DEF VaultOp
  <2>2. Enter(f) /\ _beforeWithdraw(x, b) /\ UNCHANGED indexed
    BY <1>8, <2>0 DEF withdraw, BeginVault, vaultVars, calls
  <2>3. TakesByRight(f) /\ GivesByRight(f) /\ WellAddressed(f)
    BY <1>4, <2>1, <2>2
    DEF TakesByRight, GivesByRight, WellAddressed, _beforeWithdraw,
        _isApprovedOrOwner
  <2> QED
    BY <2>1, <2>2, <2>3, EnterRights
<1>9. ASSUME NEW dest \in Box, transferBetweenBoxes(x, b, dest, req) PROVE RightsInv'
  <2>0. PICK f : f = [op |-> "transferBetweenBoxes", caller |-> x, box |-> b,
                      dest |-> dest, to |-> x, calls |-> calls, pc |-> "ready",
                      pre |-> Current]
    OBVIOUS
  <2>1. /\ f \in Frame /\ f.pre = Current /\ f.op = "transferBetweenBoxes"
        /\ f.caller = x /\ f.box = b /\ f.dest = dest /\ f.calls = calls
    BY <1>3, <1>5, <1>6, <2>0 DEF VaultOp
  <2>2. /\ Enter(f) /\ _beforeWithdraw(x, b) /\ _beforeStore(x, dest)
        /\ UNCHANGED indexed
    BY <1>9, <2>0 DEF transferBetweenBoxes, BeginVault, vaultVars, calls
  <2>3. TakesByRight(f) /\ GivesByRight(f) /\ WellAddressed(f)
    BY <1>4, <2>1, <2>2
    DEF TakesByRight, GivesByRight, WellAddressed, _beforeWithdraw, _beforeStore,
        onlyNotDestroyedBox, _exists, _isApprovedOrOwner, Current
  <2> QED
    BY <2>1, <2>2, <2>3, EnterRights
<1>10. ASSUME NEW to \in Payees, destroy(x, b, to, req) PROVE RightsInv'
  <2>0. PICK f : f = [op |-> "destroy", caller |-> x, box |-> b, dest |-> b, to |-> to,
                      calls |-> calls, pc |-> "ready", pre |-> Current]
    OBVIOUS
  <2>1. /\ f \in Frame /\ f.pre = Current /\ f.op = "destroy" /\ f.caller = x
        /\ f.box = b /\ f.dest = b /\ f.calls = calls
    BY <1>3, <1>5, <1>6, <2>0, VaultInputs DEF VaultOp
  <2>2. Enter(f) /\ _beforeDestroy(x, b) /\ UNCHANGED indexed
    BY <1>10, <2>0 DEF destroy, BeginVault, calls
  <2>3. TakesByRight(f) /\ GivesByRight(f) /\ WellAddressed(f)
    BY <1>4, <2>1, <2>2
    DEF TakesByRight, GivesByRight, WellAddressed, _beforeDestroy,
        _isApprovedOrOwner
  <2> QED
    BY <2>1, <2>2, <2>3, EnterRights
<1> QED
  BY <1>1, <1>7, <1>8, <1>9, <1>10

\* A mint has no contents to take or give.
LEMMA MintCallRights ==
  ASSUME IInv, RightsInv, MintCall
  PROVE  RightsInv'
<1>1. \/ \E x \in Account, defs \in TypeBatches : addTypes(x, defs)
      \/ \E op \in MintOp, x \in Account, t \in TypeId, r \in BOOLEAN,
            wanted \in SUBSET Box, to \in Seq(Account) :
            BeginMint(op, x, t, r, wanted, to)
  <2>1. PICK x \in Account :
          \/ \E defs \in TypeBatches : addTypes(x, defs)
          \/ \E to \in Recipients, t \in TypeId, r \in MintRestrictions :
                \/ \E b \in Box : Len(to) = 1 /\ safeMint(x, to[1], b, t, r)
                \/ Len(to) = 1 /\ safeMintByType(x, to[1], t, r)
                \/ safeBatchMintByType(x, to, t, r)
    BY DEF MintCall
  <2>2. ASSUME NEW to \in Recipients, NEW t \in TypeId, NEW r \in MintRestrictions,
               \/ \E b \in Box : Len(to) = 1 /\ safeMint(x, to[1], b, t, r)
               \/ Len(to) = 1 /\ safeMintByType(x, to[1], t, r)
               \/ safeBatchMintByType(x, to, t, r)
        PROVE  \E op \in MintOp, q \in BOOLEAN, wanted \in SUBSET Box,
                  rs \in Seq(Account) : BeginMint(op, x, t, q, wanted, rs)
    <3>1. to \in Seq(Account) /\ to # <<>> /\ r \in BOOLEAN
      BY MintInputs
    <3>2. Len(to) = 1 => <<to[1]>> \in Seq(Account)
      <4>1. Len(to) = 1 => to[1] \in Account
        BY <3>1, ElementOfSeq
      <4> QED
        BY <4>1
    <3>3. \/ \E b \in Box : Len(to) = 1 /\ BeginMint("safeMint", x, t, r, {b}, <<to[1]>>)
          \/ Len(to) = 1 /\ BeginMint("safeMintByType", x, t, r, Box, <<to[1]>>)
          \/ BeginMint("safeBatchMintByType", x, t, r, Box, to)
      BY <2>2 DEF safeMint, safeMintByType, safeBatchMintByType
    <3>4. \A b \in Box : {b} \in SUBSET Box
      OBVIOUS
    <3> QED
      BY <3>1, <3>2, <3>3, <3>4 DEF MintOp
  <2> QED
    BY <2>1, <2>2
<1>2. CASE \E x \in Account, defs \in TypeBatches : addTypes(x, defs)
  BY <1>2, QuietStep, QuietRights DEF Quiet, vaultVars
<1>3. ASSUME NEW op \in MintOp, NEW x \in Account, NEW t \in TypeId,
             NEW r \in BOOLEAN, NEW wanted \in SUBSET Box, NEW to \in Seq(Account),
             BeginMint(op, x, t, r, wanted, to)
      PROVE  RightsInv'
  <2>0. PICK f : f = [op |-> op, caller |-> x, type |-> t, restricted |-> r,
                      wanted |-> wanted, to |-> to, minted |-> <<>>, pc |-> "ready",
                      pre |-> Current]
    OBVIOUS
  <2>1. f \in Frame /\ f.pre = Current /\ f.op \in MintOp
    BY <2>0, EmptySeq DEF IInv, TypeOK, MintFrame, Frame
  <2>2. Enter(f) /\ indexed' = indexed
    BY <1>3, <2>0 DEF BeginMint, vaultVars
  <2>3. TakesByRight(f) /\ GivesByRight(f) /\ WellAddressed(f) /\ f.op # "store"
    BY <2>1 DEF TakesByRight, GivesByRight, WellAddressed, MintOp, VaultOp
  <2> QED
    BY <2>1, <2>2, <2>3, EnterRights
<1> QED
  BY <1>1, <1>2, <1>3

\* The calls left of a list are named as the list was.
LEMMA RestNamed ==
  ASSUME NEW s \in Seq(Call), s # <<>>, \A i \in DOMAIN s : Implemented(s[i])
  PROVE  \A i \in DOMAIN Tail(s) : Implemented(Tail(s)[i])
<1>1. /\ Len(s) \in Nat /\ Len(s) # 0 /\ DOMAIN s = 1 .. Len(s)
      /\ Len(Tail(s)) = Len(s) - 1 /\ DOMAIN Tail(s) = 1 .. Len(Tail(s))
      /\ \A i \in 1 .. Len(Tail(s)) : Tail(s)[i] = s[i + 1]
  BY EmptySeq, LenProperties, HeadTailProperties
<1> SUFFICES ASSUME NEW i \in DOMAIN Tail(s) PROVE Implemented(Tail(s)[i])
  OBVIOUS
<1>2. i + 1 \in DOMAIN s /\ Tail(s)[i] = s[i + 1]
  BY <1>1
<1> QED
  BY <1>2

\* What the loops do to the boxes of their call, and to no other.
LEMMA LoopWrites ==
  ASSUME IInv, RightsInv, CreditBox \/ DebitBox \/ MoveBetweenBoxes
  PROVE  /\ Top.box \in Box /\ Top.dest \in Box
         /\ \A d \in Box \ {Top.box, Top.dest} : indexed'[d] = indexed[d]
         /\ CreditBox /\ Top.box = Top.dest => \A a \in Asset :
               /\ indexed[Top.dest][a] <= indexed'[Top.dest][a]
               /\ OwnStandard /\ Kind[a] = "erc721" => indexed'[Top.dest][a] <= 1
         /\ DebitBox => \A a \in Asset : indexed'[Top.box][a] <= indexed[Top.box][a]
         /\ MoveBetweenBoxes /\ Top.box # Top.dest => \A a \in Asset :
               /\ indexed'[Top.box][a] <= indexed[Top.box][a]
               /\ OwnStandard => indexed[Top.dest][a] <= indexed'[Top.dest][a]
         /\ MoveBetweenBoxes /\ OwnStandard => \A a \in Asset :
               Kind[a] = "erc721" => indexed'[Top.dest][a] <= 1
<1>1. stack # <<>> /\ Top.op \in VaultOp /\ Top.calls # <<>>
  BY DEF CreditBox, DebitBox, MoveBetweenBoxes, At, VaultOp
<1>2. /\ Top.box \in Box /\ Top.dest \in Box /\ Top.calls \in Seq(Call)
      /\ Top = stack[1]
  BY <1>1, InProgress DEF VaultFrame
<1>3. PICK c \in Call : c = Top.calls[1]
  BY <1>1, <1>2, EmptySeq, ElementOfSeq
<1>4. OwnStandard => Implemented(c)
  <2>1. 1 \in DOMAIN Top.calls
    BY <1>1, <1>2, EmptySeq, LenProperties
  <2> QED
    BY <1>1, <1>2, <1>3, <2>1 DEF RightsInv, ActsByRight, WellAddressed
<1>5. FieldsOK
  BY FieldsOfCurrent DEF IInv, TypeOK
<1>6. OwnStandard => \A b \in Box, a \in Asset : Kind[a] = "erc721" => indexed[b][a] <= 1
  BY DEF RightsInv, NoDoubles, Current
<1>7. CASE CreditBox
  <2>1. /\ indexed' = Credit(indexed, Top.box, c)
        /\ c.kind = "erc721" =>
              \A a \in Asset : c.moves[a] # 0 => indexed[Top.box][a] = 0
        /\ Top.op = "store"
    BY <1>3, <1>7 DEF CreditBox, At
  <2>2. \A d \in Box \ {Top.box} : indexed'[d] = indexed[d]
    BY <1>2, <1>5, <2>1, CreditType DEF FieldsOK
  <2>3. ASSUME NEW a \in Asset
        PROVE  /\ indexed[Top.box][a] <= indexed'[Top.box][a]
               /\ OwnStandard /\ Kind[a] = "erc721" => indexed'[Top.box][a] <= 1
    <3>1. /\ indexed'[Top.box][a] = indexed[Top.box][a] + c.moves[a]
          /\ c.moves[a] \in Nat /\ indexed[Top.box][a] \in Nat
      BY <1>2, <1>5, <2>1, Written DEF FieldsOK
    <3>2. ASSUME OwnStandard, Kind[a] = "erc721" PROVE indexed'[Top.box][a] <= 1
      <4>1. c.moves[a] # 0 => c.kind = "erc721"
        BY <1>4, <3>2 DEF Implemented
      <4> QED
        BY <1>2, <1>4, <1>5, <1>6, <2>1, <3>2, <4>1, WrittenOnce DEF FieldsOK
    <3> QED
      BY <3>1, <3>2
  <2>4. ~DebitBox /\ ~MoveBetweenBoxes
    BY <2>1 DEF DebitBox, MoveBetweenBoxes, At
  <2> QED
    BY <1>2, <2>2, <2>3, <2>4
<1>8. CASE DebitBox
  <2>1. /\ indexed' = Debit(indexed, Top.box, c) /\ InBox(Top.box, c)
        /\ Top.op \in {"withdraw", "destroy"}
    BY <1>3, <1>8 DEF DebitBox, At
  <2>2. \A d \in Box \ {Top.box} : indexed'[d] = indexed[d]
    BY <1>2, <1>5, <2>1, DebitType DEF FieldsOK
  <2>3. ASSUME NEW a \in Asset PROVE indexed'[Top.box][a] <= indexed[Top.box][a]
    <3>1. /\ indexed'[Top.box][a] = indexed[Top.box][a] - c.moves[a]
          /\ c.moves[a] \in Nat /\ indexed[Top.box][a] \in Nat
      <4>1. indexed \in [Box -> [Asset -> Nat]]
        BY <1>5 DEF FieldsOK
      <4>2. /\ Debit(indexed, Top.box, c)[Top.box][a] = indexed[Top.box][a] - c.moves[a]
            /\ c.moves[a] \in Nat /\ indexed[Top.box][a] \in Nat
        BY <1>2, <4>1, Written
      <4> QED
        BY <2>1, <4>2
    <3> QED
      BY <3>1
  <2>4. ~CreditBox /\ ~MoveBetweenBoxes
    BY <2>1 DEF CreditBox, MoveBetweenBoxes, At
  <2> QED
    BY <1>2, <2>2, <2>3, <2>4
<1>9. CASE MoveBetweenBoxes
  <2> DEFINE l == Debit(indexed, Top.box, c)
  <2>1. /\ indexed' = Arrived(l, Top.dest, c) /\ InBox(Top.box, c)
        /\ Top.op = "transferBetweenBoxes"
    BY <1>3, <1>9 DEF MoveBetweenBoxes, At
  <2>2. /\ l \in [Box -> [Asset -> Nat]]
        /\ \A d \in Box \ {Top.box} : l[d] = indexed[d]
        /\ \A a \in Asset : l[Top.box][a] <= indexed[Top.box][a]
    <3>1. /\ l \in [Box -> [Asset -> Nat]]
          /\ \A d \in Box \ {Top.box} : l[d] = indexed[d]
      BY <1>2, <1>3, <1>5, <2>1, DebitType DEF FieldsOK
    <3>2. ASSUME NEW a \in Asset PROVE l[Top.box][a] <= indexed[Top.box][a]
      <4>1. /\ l[Top.box][a] = indexed[Top.box][a] - c.moves[a]
            /\ c.moves[a] \in Nat /\ indexed[Top.box][a] \in Nat
        <5>1. indexed \in [Box -> [Asset -> Nat]] /\ Top.box \in Box
          BY <1>2, <1>5 DEF FieldsOK
        <5> QED
          BY <5>1, Written
      <4> QED
        BY <4>1
    <3> QED
      BY <3>1, <3>2
  <2> HIDE DEF l
  <2>3. \A d \in Box \ {Top.dest} : indexed'[d] = l[d]
    <3>1. \A d \in Box \ {Top.dest} : Arrived(l, Top.dest, c)[d] = l[d]
      <4>1. l \in [Box -> [Asset -> Nat]] /\ Top.dest \in Box
        BY <1>2, <2>2
      <4> QED
        BY <4>1, ArrivedType
    <3> QED
      BY <2>1, <3>1
  <2>4. ASSUME OwnStandard, NEW a \in Asset
        PROVE  /\ l[Top.dest][a] <= indexed'[Top.dest][a]
               /\ Kind[a] = "erc721" => indexed'[Top.dest][a] <= 1
    <3>1. Kind[a] = "erc721" => l[Top.dest][a] <= 1
      <4>1. CASE Top.dest = Top.box
        BY <1>2, <1>5, <1>6, <2>2, <2>4, <4>1 DEF FieldsOK
      <4>2. CASE Top.dest # Top.box
        BY <1>2, <1>6, <2>2, <2>4, <4>2
      <4> QED
        BY <4>1, <4>2
    <3> QED
      BY <1>2, <1>4, <2>1, <2>2, <2>4, <3>1, WrittenOnce
  <2>5. ~CreditBox /\ ~DebitBox
    BY <2>1 DEF CreditBox, DebitBox, At
  <2> QED
    BY <1>2, <2>2, <2>3, <2>4, <2>5
<1> QED
  BY <1>7, <1>8, <1>9

\* The vault's steps write where and in which direction their call may.
LEMMA VaultGoesOnRights ==
  ASSUME IInv, RightsInv,
         CreditBox \/ DebitBox \/ MoveBetweenBoxes \/ CallReturns \/ BeginUnlock
  PROVE  RightsInv'
<1>1. /\ stack # <<>> /\ Top.op \in VaultOp
      /\ Top = stack[1] /\ Len(stack) = 1 /\ stack \in Seq(Frame)
      /\ Top.op \notin MintOp /\ Top.box \in Box /\ Top.dest \in Box
      /\ Top.calls \in Seq(Call) /\ Top.pre \in Storage
  BY VaultProgress, InProgress DEF VaultFrame
<1>2. PICK g \in VaultFrame :
        /\ ReplaceTop(g) /\ g.op = Top.op /\ g.pre = Top.pre
        /\ g.caller = Top.caller /\ g.box = Top.box /\ g.dest = Top.dest
        /\ g.calls = Top.calls \/ (Top.calls # <<>> /\ g.calls = Tail(Top.calls))
  BY VaultProgress
<1>3. stack' # <<>> /\ stack'[1] = g
  BY <1>1, <1>2, Replaced DEF Frame
<1>4. ActsByRight(Top)
  BY <1>1 DEF RightsInv
<1>5. FieldsOK /\ FieldsOK'
  <2>1. IInv'
    BY LoopInv, CallInv
  <2> QED
    BY <2>1, FieldsOfCurrent, FieldsOfCurrentNext DEF IInv, TypeOK
<1>6. WellAddressed(g)
  BY <1>1, <1>2, <1>4, RestNamed DEF ActsByRight, WellAddressed
<1>7. \/ CreditBox /\ Top.op = "store"
      \/ DebitBox /\ Top.op \in {"withdraw", "destroy"}
      \/ MoveBetweenBoxes /\ Top.op = "transferBetweenBoxes"
      \/ indexed' = indexed
  BY DEF CreditBox, DebitBox, MoveBetweenBoxes, CallReturns, BeginUnlock, At, vaultVars
<1>8. Top.op # "transferBetweenBoxes" => Top.box = Top.dest
  BY <1>1, <1>4 DEF ActsByRight, WellAddressed
<1>9. OwnStandard => NoDoubles(Current)'
  <2> SUFFICES ASSUME OwnStandard, NEW b \in Box, NEW a \in Asset, Kind[a] = "erc721"
               PROVE  indexed'[b][a] <= 1
    BY DEF NoDoubles, Current
  <2>1. indexed[b][a] <= 1 /\ indexed[b][a] \in Nat /\ indexed'[b][a] \in Nat
    BY <1>5 DEF RightsInv, NoDoubles, Current, FieldsOK
  <2>2. CASE indexed' = indexed
    BY <2>1, <2>2
  <2>3. CASE b \notin {Top.box, Top.dest} /\ (CreditBox \/ DebitBox \/ MoveBetweenBoxes)
    <3>1. indexed'[b] = indexed[b]
      BY <2>3, LoopWrites
    <3> QED
      BY <2>1, <3>1
  <2>4. CASE b = Top.dest /\ (CreditBox \/ MoveBetweenBoxes)
    <3>1. CreditBox => Top.box = Top.dest
      BY <1>8 DEF CreditBox, At
    <3>2. CreditBox /\ Top.box = Top.dest => indexed'[Top.dest][a] <= 1
      BY LoopWrites
    <3>3. MoveBetweenBoxes => indexed'[Top.dest][a] <= 1
      BY LoopWrites
    <3> QED
      BY <2>4, <3>1, <3>2, <3>3
  <2>5. CASE b = Top.box /\ (DebitBox \/ (MoveBetweenBoxes /\ Top.box # Top.dest))
    <3>1. indexed'[b][a] <= indexed[b][a]
      BY <2>5, LoopWrites
    <3> QED
      BY <2>1, <3>1
  <2>6. CASE CreditBox /\ Top.op = "store"
    BY <1>8, <2>3, <2>4, <2>6
  <2>7. CASE DebitBox /\ Top.op \in {"withdraw", "destroy"}
    BY <1>8, <2>3, <2>5, <2>7
  <2>8. CASE MoveBetweenBoxes
    BY <2>3, <2>4, <2>5, <2>8
  <2> QED
    BY <1>7, <2>2, <2>6, <2>7, <2>8
<1>10. WritesItsBoxes(g)'
  <2>1. \A b \in Box : indexed'[b] # g.pre.indexed[b] =>
           g.op \in VaultOp /\ b \in {g.box, g.dest}
    BY <1>1, <1>2, <1>4, <1>7, LoopWrites DEF ActsByRight, WritesItsBoxes
  <2>2. /\ Top.pre.indexed \in [Box -> [Asset -> Nat]]
        /\ indexed \in [Box -> [Asset -> Nat]] /\ indexed' \in [Box -> [Asset -> Nat]]
    BY <1>1, <1>5 DEF Storage, FieldsOK
  <2>3. ASSUME OwnStandard, g.op = "store" \/ Transfers(g), NEW a \in Asset
        PROVE  g.pre.indexed[g.dest][a] <= indexed'[g.dest][a]
    <3>1. Top.pre.indexed[Top.dest][a] <= indexed[Top.dest][a]
      BY <1>2, <1>4, <2>3 DEF ActsByRight, WritesItsBoxes, Transfers
    <3>2. indexed[Top.dest][a] <= indexed'[Top.dest][a]
      <4>1. CASE CreditBox /\ Top.op = "store"
        BY <1>8, <4>1, LoopWrites
      <4>2. CASE MoveBetweenBoxes /\ Top.op = "transferBetweenBoxes"
        BY <1>2, <2>3, <4>2, LoopWrites DEF Transfers
      <4>3. CASE indexed' = indexed
        BY <1>1, <2>2, <4>3
      <4> QED
        BY <1>2, <1>7, <2>3, <4>1, <4>2, <4>3 DEF Transfers
    <3> QED
      BY <1>1, <1>2, <2>2, <3>1, <3>2
  <2>4. ASSUME g.op \in {"withdraw", "destroy"} \/ Transfers(g), NEW a \in Asset
        PROVE  indexed'[g.box][a] <= g.pre.indexed[g.box][a]
    <3>1. indexed[Top.box][a] <= Top.pre.indexed[Top.box][a]
      BY <1>2, <1>4, <2>4 DEF ActsByRight, WritesItsBoxes, Transfers
    <3>2. indexed'[Top.box][a] <= indexed[Top.box][a]
      <4>1. CASE DebitBox
        BY <4>1, LoopWrites
      <4>2. CASE MoveBetweenBoxes /\ Top.op = "transferBetweenBoxes"
        BY <1>2, <2>4, <4>2, LoopWrites DEF Transfers
      <4>3. CASE indexed' = indexed
        BY <1>1, <2>2, <4>3
      <4> QED
        BY <1>2, <1>7, <2>4, <4>1, <4>2, <4>3 DEF Transfers
    <3> QED
      BY <1>1, <1>2, <2>2, <3>1, <3>2
  <2> QED
    BY <2>1, <2>3, <2>4 DEF WritesItsBoxes, Transfers, OwnStandard
<1>11. ActsByRight(g)'
  BY <1>2, <1>4, <1>6, <1>10
  DEF ActsByRight, TakesByRight, GivesByRight, WellAddressed, NoDoubles,
      ApprovedOrOwnerIn
<1> QED
  BY <1>3, <1>9, <1>11 DEF RightsInv, OwnStandard

\* A mint in progress writes to no contents.
LEMMA MintGoesOnRights ==
  ASSUME IInv, RightsInv, RecipientAccepts \/ \E b \in Box : MintNext(b)
  PROVE  RightsInv'
<1>1. stack # <<>> /\ Top.op \in MintOp /\ indexed' = indexed
  BY DEF RecipientAccepts, MintNext, At, vaultVars
<1>2. /\ Top = stack[1] /\ Len(stack) = 1 /\ stack \in Seq(Frame)
      /\ Top \in MintFrame /\ Top.op \notin VaultOp
  BY <1>1, InProgress
<1>3. PICK g : ReplaceTop(g) /\ g.op = Top.op /\ g.pre = Top.pre
  <2>1. CASE RecipientAccepts
    <3> DEFINE pc == IF Len(Top.minted) < Len(Top.to) THEN "ready" ELSE "locking"
    <3>1. ReplaceTop([Top EXCEPT !.pc = pc])
      BY <2>1 DEF RecipientAccepts
    <3> HIDE DEF pc
    <3>2. /\ [Top EXCEPT !.pc = pc].op = Top.op
          /\ [Top EXCEPT !.pc = pc].pre = Top.pre
      BY <1>2 DEF MintFrame
    <3> QED
      BY <3>1, <3>2
  <2>2. ASSUME NEW b \in Box, MintNext(b)
        PROVE  \E g : ReplaceTop(g) /\ g.op = Top.op /\ g.pre = Top.pre
    <3>1. ReplaceTop([Top EXCEPT !.minted = Append(@, b), !.pc = "calling"])
      BY <2>2 DEF MintNext
    <3>2. /\ [Top EXCEPT !.minted = Append(@, b), !.pc = "calling"].op = Top.op
          /\ [Top EXCEPT !.minted = Append(@, b), !.pc = "calling"].pre = Top.pre
      BY <1>2 DEF MintFrame
    <3> QED
      BY <3>1, <3>2
  <2> QED
    BY <2>1, <2>2
<1>4. stack' # <<>> /\ stack'[1] = g
  <2>1. stack' = [stack EXCEPT ![1] = g] /\ DOMAIN stack = {1}
    BY <1>2, <1>3 DEF ReplaceTop
  <2>2. stack'[1] = g /\ DOMAIN stack' = {1}
    BY <2>1
  <2> QED
    BY <2>2
<1>5. ActsByRight(Top)
  BY <1>1, <1>2 DEF RightsInv
<1>6. g.op \notin VaultOp
  BY <1>2, <1>3
<1>7. TakesByRight(g)' /\ GivesByRight(g)' /\ WellAddressed(g)'
  BY <1>6 DEF TakesByRight, GivesByRight, WellAddressed, VaultOp
<1>8. WritesItsBoxes(g)'
  BY <1>1, <1>2, <1>3, <1>5, <1>6
  DEF ActsByRight, WritesItsBoxes, Transfers, VaultOp
<1>9. ActsByRight(g)'
  BY <1>3, <1>5, <1>7, <1>8 DEF ActsByRight, NoDoubles
<1>10. (OwnStandard => NoDoubles(Current))'
  BY <1>1 DEF RightsInv, NoDoubles, Current, OwnStandard
<1> QED
  BY <1>4, <1>9, <1>10 DEF RightsInv

\* Returns write to no contents, a revert puts back those it remembers.
LEMMA ReturnRights ==
  ASSUME IInv, RightsInv, FinishMint \/ FinishVault \/ _unlockMint \/ Revert
  PROVE  RightsInv'
<1>1. stack # <<>> /\ Pop
  BY DEF FinishMint, FinishVault, _unlockMint, Revert, At, Return
<1>2. stack' = <<>> /\ Top = stack[1]
  BY <1>1, NothingUnfinished, InProgress
<1>3. indexed' = indexed \/ indexed' = Top.pre.indexed
  BY DEF FinishMint, FinishVault, _unlockMint, Revert, Restore, vaultVars
<1>4. ActsByRight(Top)
  BY <1>1, <1>2 DEF RightsInv
<1> QED
  BY <1>2, <1>3, <1>4 DEF RightsInv, ActsByRight, NoDoubles, Current, OwnStandard

\* Every step keeps the invariant of rights.
LEMMA NextRights ==
  ASSUME IInv, RightsInv, [Next]_vars
  PROVE  RightsInv'
<1>1. CASE \/ UnguardedCall \/ Tick \/ UNCHANGED vars
           \/ \E x \in Account, a \in Donations : Donate(x, a)
  BY <1>1, QuietStep, QuietRights DEF Quiet, vaultVars
<1>2. CASE MintCall \/ VaultCall
  BY <1>2, MintCallRights, VaultCallRights
<1>3. CASE MintStep
  BY <1>3, MintGoesOnRights, ReturnRights DEF MintStep
<1>4. CASE VaultStep
  BY <1>4, VaultGoesOnRights, ReturnRights DEF VaultStep
<1>5. CASE Revert
  BY <1>5, ReturnRights
<1> QED
  BY <1>1, <1>2, <1>3, <1>4, <1>5 DEF Next, TransactionStep

\* The invariant of rights holds at any moment of any transaction.
THEOREM RightsInvariant == Spec => []RightsInv
<1>1. Init => RightsInv
  BY InitRights
<1>2. IInv /\ RightsInv /\ [Next]_vars => RightsInv'
  BY NextRights
<1> QED
  BY <1>1, <1>2, Inductive, PTL DEF Spec

-----------------------------------------------------------------------------
(* Rights: the promises *)

\* The step that commits other contents than there were is the return of a
\* vault function, and these are the contents it has written.
LEMMA ContentsCommitted ==
  ASSUME IInv, RightsInv, [Next]_vars, NEW b \in Box,
         Committed'.indexed[b] # Committed.indexed[b]
  PROVE  /\ stack # <<>> /\ Top = stack[1] /\ ActsByRight(Top)
         /\ Committed = Top.pre /\ Committed'.indexed = indexed
         /\ Top.op \in VaultOp /\ Top.box \in Box /\ Top.dest \in Box
         /\ b \in {Top.box, Top.dest}
         /\ indexed[b] \in [Asset -> Nat] /\ Top.pre.indexed[b] \in [Asset -> Nat]
<1>1. \/ stack = <<>> /\ Quiet /\ Committed = Current /\ Committed' = Current'
      \/ Committed' = Committed
      \/ /\ FinishMint \/ FinishVault \/ _unlockMint
         /\ stack # <<>> /\ Committed = Top.pre /\ Committed' = Current'
         /\ Top = stack[1] /\ Top.pre \in Storage
  BY CommittingStep
<1>2. ~(stack = <<>> /\ Quiet /\ Committed = Current /\ Committed' = Current')
  BY DEF Quiet, Current, vaultVars
<1>3. /\ FinishMint \/ FinishVault \/ _unlockMint
      /\ stack # <<>> /\ Committed = Top.pre /\ Committed' = Current'
      /\ Top = stack[1] /\ Top.pre \in Storage
  BY <1>1, <1>2
<1>4. Committed'.indexed = indexed
  BY <1>3 DEF FinishMint, FinishVault, _unlockMint, vaultVars, Current
<1>5. ActsByRight(Top)
  BY <1>3 DEF RightsInv
<1>6. Top.op \in VaultOp /\ b \in {Top.box, Top.dest}
  BY <1>3, <1>4, <1>5 DEF ActsByRight, WritesItsBoxes
<1>7. Top.box \in Box /\ Top.dest \in Box
  BY <1>3, <1>6, InProgress DEF VaultFrame
<1>8. indexed[b] \in [Asset -> Nat] /\ Top.pre.indexed[b] \in [Asset -> Nat]
  BY <1>3, FieldsOfCurrent DEF IInv, TypeOK, FieldsOK, Storage
<1> QED
  BY <1>3, <1>4, <1>5, <1>6, <1>7, <1>8

\* Whatever runs inside the transaction, what it adds to a box comes from a
\* store or a transfer that the state of that box and the rights of the
\* caller allowed when the transaction began.
THEOREM EntersByRight == Spec => ContentsEnterByRight
<1> DEFINE ByRight ==
      \A b \in Box, a \in Asset :
          Committed'.indexed[b][a] > Committed.indexed[b][a] =>
              /\ Committed.owner[b] # Nobody
              /\ b \notin Committed.destroyedBoxes
              /\ Committed.storeRestricted[b] =>
                    ApprovedOrOwnerIn(Committed, stack[1].caller, b)
<1>1. ASSUME IInv, RightsInv, [Next]_vars PROVE ByRight
  <2> SUFFICES ASSUME NEW b \in Box, NEW a \in Asset,
                      Committed'.indexed[b][a] > Committed.indexed[b][a]
               PROVE  /\ Committed.owner[b] # Nobody
                      /\ b \notin Committed.destroyedBoxes
                      /\ Committed.storeRestricted[b] =>
                            ApprovedOrOwnerIn(Committed, stack[1].caller, b)
    OBVIOUS
  <2>1. Committed'.indexed[b] # Committed.indexed[b]
    <3>1. Committed \in Storage
      BY <1>1, InProgress DEF Committed, IInv, TypeOK
    <3>2. Committed.indexed[b][a] \in Nat
      BY <3>1 DEF Storage
    <3> QED
      BY <3>2
  <2>2. /\ stack # <<>> /\ Top = stack[1] /\ ActsByRight(Top)
        /\ Committed = Top.pre /\ Committed'.indexed = indexed
        /\ Top.op \in VaultOp /\ Top.box \in Box /\ Top.dest \in Box
        /\ b \in {Top.box, Top.dest}
        /\ indexed[b] \in [Asset -> Nat] /\ Top.pre.indexed[b] \in [Asset -> Nat]
    BY <1>1, <2>1, ContentsCommitted
  <2>3. indexed[b][a] > Top.pre.indexed[b][a]
    BY <2>2
  <2>4. ~(Top.op \in {"withdraw", "destroy"})
    BY <2>2, <2>3 DEF ActsByRight, WritesItsBoxes, WellAddressed
  <2>5. b = Top.dest
    BY <2>2, <2>3, <2>4 DEF ActsByRight, WritesItsBoxes, WellAddressed, Transfers
  <2>6. Top.op \in {"store", "transferBetweenBoxes"}
    BY <2>2, <2>4 DEF VaultOp
  <2> QED
    BY <2>2, <2>5, <2>6 DEF ActsByRight, GivesByRight
<1>2. IInv /\ RightsInv /\ [Next]_vars => [ByRight]_vars
  BY <1>1
<1> QED
  BY <1>2, Inductive, RightsInvariant, PTL DEF Spec, ContentsEnterByRight

\* Whatever runs inside the transaction, only one that is sent by the owner
\* of a box or someone approved for it, when it began, takes anything out of
\* the box. It needs requests that name tokens by their own standard: one
\* that names an ERC1155 as an ERC721 overwrites what its destination held.
THEOREM LeavesByRight ==
  ASSUME OwnStandard
  PROVE  Spec => ContentsLeaveByRight
<1> DEFINE ByRight ==
      \A b \in Box, a \in Asset :
          Committed'.indexed[b][a] < Committed.indexed[b][a] =>
              stack # <<>> /\ ApprovedOrOwnerIn(Committed, stack[1].caller, b)
<1>1. ASSUME IInv, RightsInv, [Next]_vars PROVE ByRight
  <2> SUFFICES ASSUME NEW b \in Box, NEW a \in Asset,
                      Committed'.indexed[b][a] < Committed.indexed[b][a]
               PROVE  stack # <<>> /\ ApprovedOrOwnerIn(Committed, stack[1].caller, b)
    OBVIOUS
  <2>1. Committed'.indexed[b] # Committed.indexed[b]
    <3>1. Committed \in Storage
      BY <1>1, InProgress DEF Committed, IInv, TypeOK
    <3>2. Committed.indexed[b][a] \in Nat
      BY <3>1 DEF Storage
    <3> QED
      BY <3>2
  <2>2. /\ stack # <<>> /\ Top = stack[1] /\ ActsByRight(Top)
        /\ Committed = Top.pre /\ Committed'.indexed = indexed
        /\ Top.op \in VaultOp /\ Top.box \in Box /\ Top.dest \in Box
        /\ b \in {Top.box, Top.dest}
        /\ indexed[b] \in [Asset -> Nat] /\ Top.pre.indexed[b] \in [Asset -> Nat]
    BY <1>1, <2>1, ContentsCommitted
  <2>3. indexed[b][a] < Top.pre.indexed[b][a]
    BY <2>2
  <2>4. Top.op # "store"
    BY <2>2, <2>3 DEF ActsByRight, WritesItsBoxes, WellAddressed
  <2>5. b = Top.box
    BY <2>2, <2>3, <2>4 DEF ActsByRight, WritesItsBoxes, WellAddressed, Transfers
  <2>6. Top.op \in {"withdraw", "transferBetweenBoxes", "destroy"}
    BY <2>2, <2>4 DEF VaultOp
  <2> QED
    BY <2>2, <2>5, <2>6 DEF ActsByRight, TakesByRight
<1>2. IInv /\ RightsInv /\ [Next]_vars => [ByRight]_vars
  BY <1>1
<1> QED
  BY <1>2, Inductive, RightsInvariant, PTL DEF Spec, ContentsLeaveByRight
=============================================================================
