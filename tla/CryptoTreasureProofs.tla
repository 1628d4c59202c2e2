------------------------ MODULE CryptoTreasureProofs ------------------------
(***************************************************************************)
(* Theorems about CryptoTreasure for every value of its constants: every   *)
(* set of accounts, boxes, assets and arguments the assumptions allow.     *)
(***************************************************************************)
EXTENDS TreasureInvariant, SequenceTheorems, TLAPS

Frame == VaultFrame \cup MintFrame

-----------------------------------------------------------------------------
(* Storage, field by field *)

FieldsOK ==
    /\ owner \in [Box -> Holder \cup {Nobody}]
    /\ approved \in [Box -> Holder \cup {Nobody}]
    /\ operators \in SUBSET (Account \X Holder)
    /\ admins \in SUBSET Account
    /\ types \in [TypeId -> TypeInfo]
    /\ tokenTypes \in [Box -> TypeId]
    /\ storeRestricted \in [Box -> BOOLEAN]
    /\ lockedDestructionEnd \in [Box -> Nat]
    /\ unlockTimestamp \in [Box -> Nat]
    /\ destroyedBoxes \in SUBSET Box
    /\ indexed \in [Box -> [Asset -> Nat]]
    /\ entered \in BOOLEAN
    /\ bank \in [Asset -> [Holder -> Nat]]

\* The record of the variables is a storage when each of them has its type.
LEMMA FieldsOfCurrent == Current \in Storage <=> FieldsOK
  BY DEF Current, Storage, FieldsOK

\* The same after a step.
LEMMA FieldsOfCurrentNext == (Current \in Storage)' <=> FieldsOK'
  BY DEF Current, Storage, FieldsOK

\* A revert leaves every variable with its type.
LEMMA RestoredFields ==
  ASSUME NEW s \in Storage, Restore(s)
  PROVE  FieldsOK'
  BY DEF Restore, Storage, FieldsOK

-----------------------------------------------------------------------------
(* The stack, of at most one frame *)

\* The only frame is the one on top.
LEMMA OnlyFrame ==
  ASSUME stack \in Seq(Frame), Len(stack) <= 1, stack # <<>>
  PROVE  Len(stack) = 1 /\ Top = stack[1] /\ Top \in Frame
<1> DEFINE n == Len(stack)
<1>1. n \in Nat /\ n # 0
  BY EmptySeq
<1>2. n <= 1
  OBVIOUS
<1>3. n = 1
  <2> HIDE DEF n
  <2> QED BY <1>1, <1>2
<1>4. stack[1] \in Frame
  BY <1>3, ElementOfSeq
<1> QED
  BY <1>3, <1>4 DEF Top

\* Entering a function leaves its frame alone on the stack.
LEMMA Pushed ==
  ASSUME NEW f \in Frame, stack = <<>>, stack' = Append(stack, f)
  PROVE  /\ stack' \in Seq(Frame) /\ Len(stack') = 1
         /\ stack'[1] = f /\ stack' # <<>>
  OBVIOUS

\* A step of the function in progress replaces its frame.
LEMMA Replaced ==
  ASSUME NEW f \in Frame, stack \in Seq(Frame), Len(stack) = 1, ReplaceTop(f)
  PROVE  /\ stack' \in Seq(Frame) /\ Len(stack') = 1
         /\ stack'[1] = f /\ stack' # <<>>
  BY DEF ReplaceTop

\* A return or a revert empties the stack.
LEMMA Popped ==
  ASSUME stack \in Seq(Frame), Len(stack) = 1, Pop
  PROVE  stack' = <<>> /\ stack' \in Seq(Frame)
  BY DEF Pop

-----------------------------------------------------------------------------
(* Units of assets *)

\* n units of one asset are an amount of every asset.
LEMMA OnlyType ==
  ASSUME NEW a, NEW n \in Nat
  PROVE  Only(a, n) \in [Asset -> Nat]
  BY DEF Only

\* A transfer its payer can afford leaves no balance negative.
LEMMA MovedType ==
  ASSUME bank \in [Asset -> [Holder -> Nat]], NEW moves \in [Asset -> Nat],
         NEW x \in Holder, NEW y \in Holder, Affords(x, moves)
  PROVE  Moved(bank, x, y, moves) \in [Asset -> [Holder -> Nat]]
  BY DEF Moved, Affords
-----------------------------------------------------------------------------
(* The invariant holds at deployment *)

\* The constructor leaves a well-typed, idle contract without boxes.
LEMMA InitInv == Init => IInv
<1> SUFFICES ASSUME Init PROVE IInv
  OBVIOUS
<1>1. FieldsOK
  BY AccountsAssumption, AssetsAssumption, IdsAssumption, BankAssumption
  DEF Init, FieldsOK, TypeInfo, Holder
<1>2. TypeOK
  BY <1>1, FieldsOfCurrent, EmptySeq DEF Init, TypeOK
<1>3. GuardHolds
  BY EmptySeq DEF Init, GuardHolds
<1>4. Fresh(Current)
  BY DEF Init, Fresh, Current
<1> QED
  BY <1>2, <1>3, <1>4 DEF Init, IInv

-----------------------------------------------------------------------------
(* Calls that leave the stack alone *)

\* A mint has minted boxes.
LEMMA MintedType ==
  ASSUME NEW f \in MintFrame
  PROVE  MintedBy(f) \subseteq Box
  BY ElementOfSeq DEF MintedBy, MintFrame

\* What a frame promises does not depend on approvals, roles, types and
\* balances, nor on which of its owners a box has.
LEMMA SameBoxes ==
  ASSUME IInv, FieldsOK',
         UNCHANGED <<stack, now, entered, boxVars, vaultVars>>,
         \A b \in Box : owner[b] # Nobody => owner'[b] # Nobody
  PROVE  IInv'
<1>1. TypeOK'
  BY FieldsOfCurrentNext DEF IInv, TypeOK
<1>2. GuardHolds'
  BY DEF IInv, GuardHolds
<1>3. Fresh(Current)'
  BY DEF IInv, Fresh, Current, boxVars, vaultVars
<1>4. ASSUME stack # <<>> PROVE FrameOK(stack[1])'
  <2>1. stack[1] \in Frame
    BY <1>4, OnlyFrame DEF IInv, TypeOK, GuardHolds, Frame
  <2>2. FrameOK(stack[1])
    BY <1>4 DEF IInv
  <2>3. KeepsLocked(stack[1].pre)' /\ TouchesUnlocked(stack[1])'
    BY <2>2 DEF FrameOK, KeepsLocked, TouchesUnlocked, MintedBy, boxVars, vaultVars
  <2>4. DestroysByRight(stack[1])'
    BY <2>2 DEF FrameOK, DestroysByRight, ApprovedOrOwnerIn, vaultVars
  <2>5. TargetsExist(stack[1])'
    BY <2>1, <2>2, MintedType DEF FrameOK, TargetsExist, MintedBy, Frame, VaultFrame, MintFrame, VaultOp, MintOp
  <2> QED
    BY <2>2, <2>3, <2>4, <2>5 DEF FrameOK, HasNext, Fresh
<1> QED
  BY <1>1, <1>2, <1>3, <1>4 DEF IInv

\* The ERC721 functions of the boxes' NFTs.
LEMMA NFTInv ==
  ASSUME IInv, NEW x \in Account,
         \/ \E to \in Approvees, b \in Box : Approve(x, to, b)
         \/ \E p \in OperatorPairs, approval \in BOOLEAN :
               p[1] = x /\ SetApprovalForAll(x, p[2], approval)
         \/ \E to \in Receivers, b \in Box : TransferFrom(x, to, b)
  PROVE  IInv'
<1>1. FieldsOK
  BY FieldsOfCurrent DEF IInv, TypeOK
<1>2. CASE \E to \in Approvees, b \in Box : Approve(x, to, b)
  <2>1. FieldsOK'
    BY <1>1, <1>2, OwnershipInputs
    DEF Approve, FieldsOK, nftVars, typeVars, boxVars, vaultVars
  <2> QED
    BY <1>2, <2>1, SameBoxes DEF Approve
<1>3. CASE \E p \in OperatorPairs, approval \in BOOLEAN :
             p[1] = x /\ SetApprovalForAll(x, p[2], approval)
  <2>1. FieldsOK'
    BY <1>1, <1>3, OwnershipInputs
    DEF SetApprovalForAll, FieldsOK, nftVars, typeVars, boxVars, vaultVars
  <2> QED
    BY <1>3, <2>1, SameBoxes DEF SetApprovalForAll
<1>4. CASE \E to \in Receivers, b \in Box : TransferFrom(x, to, b)
  <2>1. FieldsOK'
    BY <1>1, <1>4, OwnershipInputs
    DEF TransferFrom, FieldsOK, nftVars, typeVars, boxVars, vaultVars
  <2>2. \A c \in Box : owner[c] # Nobody => owner'[c] # Nobody
    BY <1>1, <1>4, OwnershipInputs, AccountsAssumption
    DEF TransferFrom, FieldsOK, Holder
  <2> QED
    BY <1>4, <2>1, <2>2, SameBoxes DEF TransferFrom
<1> QED
  BY <1>2, <1>3, <1>4

\* Granting, revoking and renouncing the admin role.
LEMMA RoleInv ==
  ASSUME IInv, NEW x \in Account, NEW y \in RoleAccounts,
         GrantRole(x, y) \/ RevokeRole(x, y)
  PROVE  IInv'
<1>1. FieldsOK
  BY FieldsOfCurrent DEF IInv, TypeOK
<1>2. FieldsOK'
  BY <1>1, OwnershipInputs
  DEF GrantRole, RevokeRole, FieldsOK, nftVars, typeVars, boxVars, vaultVars
<1> QED
  BY <1>2, SameBoxes DEF GrantRole, RevokeRole, nftVars

\* A type gets values of the right sorts, new ids only.
LEMMA addTypesInv ==
  ASSUME IInv, NEW x \in Account, NEW defs \in TypeBatches, addTypes(x, defs)
  PROVE  IInv'
<1>1. FieldsOK /\ now \in Nat
  BY FieldsOfCurrent DEF IInv, TypeOK
<1>2. \A d \in defs : d \in TypeDefinition /\ ValidType(d)
  BY MintInputs DEF addTypes
<1>3. \A d \in defs : TypeFrom(d) \in TypeInfo
  BY <1>1, <1>2 DEF TypeFrom, TypeInfo, TypeDefinition, ValidType
<1>4. types' \in [TypeId -> TypeInfo]
  <2>1. ASSUME NEW t \in TypeId, \E d \in defs : d.id = t
        PROVE  TypeFrom(CHOOSE d \in defs : d.id = t) \in TypeInfo
    BY <1>3, <2>1
  <2> QED
    BY <1>1, <2>1 DEF addTypes, FieldsOK
<1>5. FieldsOK'
  BY <1>1, <1>4 DEF addTypes, FieldsOK, nftVars, boxVars, vaultVars
<1> QED
  BY <1>5, SameBoxes DEF addTypes, nftVars

\* A donation moves what its giver has.
LEMMA DonateInv ==
  ASSUME IInv, NEW x \in Account, NEW a \in Donations, Donate(x, a)
  PROVE  IInv'
<1>1. FieldsOK
  BY FieldsOfCurrent DEF IInv, TypeOK
<1>2. bank' \in [Asset -> [Holder -> Nat]]
  BY <1>1, OnlyType, MovedType DEF Donate, FieldsOK, Holder
<1>3. FieldsOK'
  BY <1>1, <1>2 DEF Donate, FieldsOK, nftVars, typeVars, boxVars, vaultVars
<1> QED
  BY <1>3, SameBoxes DEF Donate, nftVars

\* Between transactions no frame refers to the time.
LEMMA TickInv ==
  ASSUME IInv, Tick
  PROVE  IInv'
<1>1. FieldsOK'
  BY FieldsOfCurrent
  DEF IInv, TypeOK, Tick, FieldsOK, nftVars, typeVars, boxVars, vaultVars
<1>2. TypeOK'
  BY <1>1, FieldsOfCurrentNext DEF IInv, TypeOK, Tick
<1> QED
  BY <1>2 DEF IInv, GuardHolds, Fresh, Current, Tick, nftVars, boxVars, vaultVars

\* lockBox and setStoreRestriction write to boxes that are not locked now;
\* a box that was locked when the call in progress began still is.
LEMMA BoxSettingsInv ==
  ASSUME IInv, NEW x \in Account, NEW b \in Box,
         \/ \E t \in LockTimes : lockBox(x, b, t)
         \/ \E r \in Restrictions : setStoreRestriction(x, b, r)
  PROVE  IInv'
<1>1. FieldsOK /\ now \in Nat
  BY FieldsOfCurrent DEF IInv, TypeOK
<1>2. /\ unlockTimestamp[b] <= now /\ owner[b] # Nobody
      /\ UNCHANGED <<nftVars, admins, typeVars, lockedDestructionEnd, vaultVars,
                     entered, bank, now, stack>>
      /\ \A c \in Box \ {b} : /\ unlockTimestamp'[c] = unlockTimestamp[c]
                              /\ storeRestricted'[c] = storeRestricted[c]
      /\ unlockTimestamp' \in [Box -> Nat]
      /\ storeRestricted' \in [Box -> BOOLEAN]
  <2>1. CASE \E t \in LockTimes : lockBox(x, b, t)
    BY <1>1, <2>1, OwnershipInputs
    DEF lockBox, onlyNotLockedBox, _isApprovedOrOwner, ApprovedOrOwnerIn, Current,
        FieldsOK
  <2>2. CASE \E r \in Restrictions : setStoreRestriction(x, b, r)
    BY <1>1, <2>2, OwnershipInputs
    DEF setStoreRestriction, onlyNotLockedBox, _isApprovedOrOwner, ApprovedOrOwnerIn,
        Current, FieldsOK
  <2> QED
    BY <2>1, <2>2
<1>3. FieldsOK'
  BY <1>1, <1>2 DEF FieldsOK, nftVars, typeVars, vaultVars
<1>4. TypeOK'
  BY <1>2, <1>3, FieldsOfCurrentNext DEF IInv, TypeOK
<1>5. GuardHolds'
  BY <1>2 DEF IInv, GuardHolds
<1>6. Fresh(Current)'
  BY <1>2 DEF IInv, Fresh, Current, nftVars, vaultVars
<1>7. ASSUME stack # <<>> PROVE FrameOK(stack[1])'
  <2>1. stack[1] \in Frame
    BY <1>7, OnlyFrame DEF IInv, TypeOK, GuardHolds, Frame
  <2>2. FrameOK(stack[1]) /\ stack[1].pre \in Storage
    BY <1>7, <2>1 DEF IInv, Frame, VaultFrame, MintFrame
  <2>3. ASSUME NEW c \in Box, stack[1].pre.unlockTimestamp[c] > now
        PROVE  c # b
    BY <1>1, <1>2, <2>2, <2>3 DEF FrameOK, KeepsLocked, Storage, FieldsOK
  <2>4. KeepsLocked(stack[1].pre)'
    BY <1>2, <2>2, <2>3 DEF FrameOK, KeepsLocked, vaultVars
  <2>5. /\ TouchesUnlocked(stack[1])' /\ DestroysByRight(stack[1])'
        /\ TargetsExist(stack[1])'
    BY <1>2, <2>2
    DEF FrameOK, TouchesUnlocked, TargetsExist, DestroysByRight, MintedBy,
        ApprovedOrOwnerIn, vaultVars, nftVars
  <2> QED
    BY <1>2, <2>2, <2>4, <2>5 DEF FrameOK, HasNext, Fresh
<1> QED
  BY <1>2, <1>4, <1>5, <1>6, <1>7 DEF IInv

-----------------------------------------------------------------------------
(* Calls of nonReentrant functions *)

\* The guard lets a call in only when no other is in progress.
LEMMA EnterIdle ==
  ASSUME IInv, nonReentrant
  PROVE  stack = <<>>
  BY DEF IInv, GuardHolds, nonReentrant

\* The frame of a function that is entered starts from the storage then.
LEMMA EnterInv ==
  ASSUME IInv, NEW f \in Frame, f.pre = Current, Enter(f), FieldsOK',
         UNCHANGED <<nftVars, admins, typeVars, boxVars, now>>,
         TouchesUnlocked(f), TargetsExist(f), HasNext(f),
         \A b \in Box : unlockTimestamp[b] > now \/ owner[b] = Nobody =>
                           indexed'[b] = indexed[b],
         destroyedBoxes' = destroyedBoxes
                           \cup (IF f.op = "destroy" THEN {f.box} ELSE {}),
         f.op = "destroy" => _beforeDestroy(f.caller, f.box)
  PROVE  IInv'
<1>1. stack = <<>> /\ ~entered /\ entered' = TRUE
  BY EnterIdle DEF Enter, nonReentrant
<1>2. /\ stack' \in Seq(Frame) /\ Len(stack') = 1
      /\ stack'[1] = f /\ stack' # <<>>
  BY <1>1, Pushed DEF Enter
<1>3. TypeOK'
  BY <1>2, FieldsOfCurrentNext DEF IInv, TypeOK, Frame
<1>4. GuardHolds'
  BY <1>1, <1>2 DEF GuardHolds
<1>5. Fresh(Current)'
  BY DEF IInv, Fresh, Current, nftVars, boxVars, _beforeDestroy,
     _isApprovedOrOwner, ApprovedOrOwnerIn
<1>6. ~f.pre.entered /\ Fresh(f.pre)
  BY <1>1 DEF IInv, Current
<1>7. KeepsLocked(f.pre)'
  BY DEF KeepsLocked, Current, boxVars
<1>8. TouchesUnlocked(f)' /\ TargetsExist(f)'
  BY DEF TouchesUnlocked, TargetsExist, MintedBy, nftVars
<1>9. DestroysByRight(f)'
  BY DEF DestroysByRight, Current, _beforeDestroy, _isDestructionUnlocked,
     _isApprovedOrOwner, ApprovedOrOwnerIn, nftVars
<1>10. FrameOK(f)'
  BY <1>6, <1>7, <1>8, <1>9 DEF FrameOK, HasNext, Fresh
<1> QED
  BY <1>2, <1>3, <1>4, <1>5, <1>10 DEF IInv

\* The three mint functions.
LEMMA BeginMintInv ==
  ASSUME IInv, NEW x \in Account, NEW t \in TypeId, NEW r \in BOOLEAN,
         NEW op \in MintOp, NEW wanted \in SUBSET Box, NEW to \in Seq(Account),
         to # <<>>, BeginMint(op, x, t, r, wanted, to)
  PROVE  IInv'
<1> DEFINE f == [op |-> op, caller |-> x, type |-> t, restricted |-> r,
                 wanted |-> wanted, to |-> to, minted |-> <<>>, pc |-> "ready",
                 pre |-> Current]
<1>1. f \in Frame
  BY EmptySeq DEF IInv, TypeOK, Frame, MintFrame
<1>2. FieldsOK'
  BY FieldsOfCurrent
  DEF IInv, TypeOK, BeginMint, Enter, FieldsOK, nftVars, typeVars, boxVars, vaultVars
<1>3. TouchesUnlocked(f) /\ TargetsExist(f)
  BY DEF TouchesUnlocked, TargetsExist, MintedBy, MintOp, VaultOp
<1>4. HasNext(f)
  BY EmptySeq DEF HasNext, MintOp, VaultOp
<1>5. f.pre = Current /\ f.op # "destroy"
  BY DEF MintOp
<1>6. Enter(f) /\ UNCHANGED <<nftVars, admins, typeVars, boxVars, vaultVars, now>>
  BY DEF BeginMint
<1> HIDE DEF f
<1> QED
  BY <1>1, <1>2, <1>3, <1>4, <1>5, <1>6, EnterInv DEF vaultVars

\* A call of a mint function or of addTypes keeps the invariant.
LEMMA MintCallInv ==
  ASSUME IInv, MintCall
  PROVE  IInv'
<1>1. PICK x \in Account :
        \/ \E defs \in TypeBatches : addTypes(x, defs)
        \/ \E to \in Recipients, t \in TypeId, r \in MintRestrictions :
              \/ \E b \in Box : Len(to) = 1 /\ safeMint(x, to[1], b, t, r)
              \/ Len(to) = 1 /\ safeMintByType(x, to[1], t, r)
              \/ safeBatchMintByType(x, to, t, r)
  BY DEF MintCall
<1>2. CASE \E defs \in TypeBatches : addTypes(x, defs)
  BY <1>2, addTypesInv
<1>3. ASSUME NEW to \in Recipients, NEW t \in TypeId, NEW r \in MintRestrictions,
             \/ \E b \in Box : Len(to) = 1 /\ safeMint(x, to[1], b, t, r)
             \/ Len(to) = 1 /\ safeMintByType(x, to[1], t, r)
             \/ safeBatchMintByType(x, to, t, r)
      PROVE  IInv'
  <2>1. to \in Seq(Account) /\ to # <<>> /\ r \in BOOLEAN
    BY MintInputs
  <2>2. Len(to) = 1 => <<to[1]>> \in Seq(Account) /\ <<to[1]>> # <<>>
    BY <2>1, ElementOfSeq
  <2>3. CASE \E b \in Box : Len(to) = 1 /\ safeMint(x, to[1], b, t, r)
    <3>1. PICK b \in Box : Len(to) = 1 /\ safeMint(x, to[1], b, t, r)
      BY <2>3
    <3>2. BeginMint("safeMint", x, t, r, {b}, <<to[1]>>)
      BY <3>1 DEF safeMint
    <3> QED
      BY <2>1, <2>2, <3>1, <3>2, BeginMintInv DEF MintOp
  <2>4. CASE Len(to) = 1 /\ safeMintByType(x, to[1], t, r)
    BY <2>1, <2>2, <2>4, BeginMintInv DEF safeMintByType, MintOp
  <2>5. CASE safeBatchMintByType(x, to, t, r)
    BY <2>1, <2>5, BeginMintInv DEF safeBatchMintByType, MintOp
  <2> QED
    BY <1>3, <2>3, <2>4, <2>5
<1> QED
  BY <1>1, <1>2, <1>3

\* The calls of a request are well formed, the one that pays ether included.
LEMMA RequestCalls ==
  ASSUME NEW req \in Requests
  PROVE  /\ req.tokens \in Seq(Call)
         /\ EthCall(req.eth) \in Call
         /\ EthCall(req.eth).moves \in [Asset -> Nat]
         /\ <<EthCall(req.eth)>> \o req.tokens \in Seq(Call)
<1>1. req.eth \in Nat /\ req.tokens \in Seq(Call)
  BY VaultInputs
<1>2. EthCall(req.eth).moves \in [Asset -> Nat]
  BY <1>1, OnlyType DEF EthCall
<1>3. EthCall(req.eth) \in Call
  BY <1>2 DEF EthCall, Call
<1>4. <<EthCall(req.eth)>> \in Seq(Call)
  BY <1>3
<1> QED
  BY <1>1, <1>2, <1>3, <1>4, ConcatProperties

\* Entering one of the four operations, given what its guards established.
LEMMA BeginVaultInv ==
  ASSUME IInv, NEW op \in VaultOp, NEW x \in Account, NEW b \in Box,
         NEW dest \in Box, NEW to \in Holder, NEW calls \in Seq(Call),
         BeginVault(op, x, b, dest, to, calls), FieldsOK',
         unlockTimestamp[b] <= now, unlockTimestamp[dest] <= now,
         owner[b] # Nobody, owner[dest] # Nobody,
         \A c \in Box : unlockTimestamp[c] > now \/ owner[c] = Nobody =>
                           indexed'[c] = indexed[c],
         destroyedBoxes' = destroyedBoxes
                           \cup (IF op = "destroy" THEN {b} ELSE {}),
         op = "destroy" => _beforeDestroy(x, b)
  PROVE  IInv'
<1> DEFINE f == [op |-> op, caller |-> x, box |-> b, dest |-> dest, to |-> to,
                 calls |-> calls, pc |-> "ready", pre |-> Current]
<1>1. f \in Frame
  BY DEF IInv, TypeOK, Frame, VaultFrame
<1>2. TouchesUnlocked(f) /\ TargetsExist(f)
  BY DEF TouchesUnlocked, TargetsExist, MintOp, VaultOp, Current
<1>3. HasNext(f)
  BY DEF HasNext, MintOp, VaultOp
<1>4. f.pre = Current /\ f.op = op /\ f.box = b /\ f.caller = x
  OBVIOUS
<1>5. Enter(f) /\ UNCHANGED <<nftVars, admins, typeVars, boxVars, now>>
  BY DEF BeginVault
<1> HIDE DEF f
<1> QED
  BY <1>1, <1>2, <1>3, <1>4, <1>5, EnterInv

\* Ether that comes with a store is credited to its box.
LEMMA storeInv ==
  ASSUME IInv, NEW x \in Account, NEW b \in Box, NEW req \in Requests,
         store(x, b, req)
  PROVE  IInv'
<1> DEFINE c == EthCall(req.eth)
<1>1. FieldsOK /\ c.moves \in [Asset -> Nat] /\ req.tokens \in Seq(Call)
  BY FieldsOfCurrent, RequestCalls DEF IInv, TypeOK
<1>2. /\ BeginVault("store", x, b, b, x, req.tokens)
      /\ Affords(x, c.moves)
      /\ bank' = Moved(bank, x, Self, c.moves)
      /\ indexed' = Credit(indexed, b, c)
      /\ destroyedBoxes' = destroyedBoxes
      /\ unlockTimestamp[b] <= now /\ owner[b] # Nobody
  BY DEF store, _beforeStore, onlyNotLockedBox, _exists
<1> HIDE DEF c
<1>3. bank' \in [Asset -> [Holder -> Nat]]
  BY <1>1, <1>2, MovedType DEF FieldsOK, Holder
<1>4. /\ indexed' \in [Box -> [Asset -> Nat]]
      /\ \A d \in Box \ {b} : indexed'[d] = indexed[d]
  BY <1>1, <1>2 DEF FieldsOK, Credit
<1>5. FieldsOK'
  BY <1>1, <1>2, <1>3, <1>4
  DEF BeginVault, Enter, FieldsOK, nftVars, typeVars, boxVars
<1>6. \A d \in Box : unlockTimestamp[d] > now \/ owner[d] = Nobody =>
                        indexed'[d] = indexed[d]
  BY <1>1, <1>2, <1>4 DEF IInv, TypeOK, FieldsOK
<1> QED
  BY <1>1, <1>2, <1>5, <1>6, BeginVaultInv DEF VaultOp, Holder

\* The other three write to no box on entry.
LEMMA OtherCallsInv ==
  ASSUME IInv, NEW x \in Account, NEW b \in Box, NEW req \in Requests,
         \/ \E to \in Payees : withdraw(x, b, to, req)
         \/ \E dest \in Box : transferBetweenBoxes(x, b, dest, req)
         \/ \E to \in Payees : destroy(x, b, to, req)
  PROVE  IInv'
<1> DEFINE calls == <<EthCall(req.eth)>> \o req.tokens
<1>1. FieldsOK /\ calls \in Seq(Call)
  BY FieldsOfCurrent, RequestCalls DEF IInv, TypeOK
<1>2. ASSUME NEW to \in Payees, withdraw(x, b, to, req) PROVE IInv'
  <2>1. /\ BeginVault("withdraw", x, b, b, to, calls)
        /\ unlockTimestamp[b] <= now /\ owner[b] # Nobody
        /\ UNCHANGED <<vaultVars, bank>>
    BY <1>2
    DEF withdraw, _beforeWithdraw, onlyNotLockedBox, _isApprovedOrOwner,
        ApprovedOrOwnerIn, Current
  <2>2. FieldsOK'
    BY <1>1, <2>1
    DEF BeginVault, Enter, FieldsOK, nftVars, typeVars, boxVars, vaultVars
  <2> HIDE DEF calls
  <2> QED
    BY <1>1, <2>1, <2>2, VaultInputs, BeginVaultInv DEF vaultVars, VaultOp
<1>3. ASSUME NEW dest \in Box, transferBetweenBoxes(x, b, dest, req) PROVE IInv'
  <2>1. /\ BeginVault("transferBetweenBoxes", x, b, dest, x, calls)
        /\ unlockTimestamp[b] <= now /\ unlockTimestamp[dest] <= now
        /\ owner[b] # Nobody /\ owner[dest] # Nobody
        /\ UNCHANGED <<vaultVars, bank>>
    BY <1>3
    DEF transferBetweenBoxes, _beforeWithdraw, _beforeStore, onlyNotLockedBox,
        _exists, _isApprovedOrOwner, ApprovedOrOwnerIn, Current
  <2>2. FieldsOK'
    BY <1>1, <2>1
    DEF BeginVault, Enter, FieldsOK, nftVars, typeVars, boxVars, vaultVars
  <2> HIDE DEF calls
  <2> QED
    BY <1>1, <2>1, <2>2, BeginVaultInv DEF vaultVars, VaultOp, Holder
<1>4. ASSUME NEW to \in Payees, destroy(x, b, to, req) PROVE IInv'
  <2>1. /\ BeginVault("destroy", x, b, b, to, calls)
        /\ unlockTimestamp[b] <= now /\ owner[b] # Nobody
        /\ _beforeDestroy(x, b)
        /\ destroyedBoxes' = destroyedBoxes \cup {b}
        /\ UNCHANGED <<indexed, bank>>
    BY <1>4
    DEF destroy, _beforeDestroy, onlyNotLockedBox, _isApprovedOrOwner,
        ApprovedOrOwnerIn, Current
  <2>2. FieldsOK'
    BY <1>1, <2>1
    DEF BeginVault, Enter, FieldsOK, nftVars, typeVars, boxVars
  <2> HIDE DEF calls
  <2> QED
    BY <1>1, <2>1, <2>2, VaultInputs, BeginVaultInv DEF VaultOp
<1> QED
  BY <1>2, <1>3, <1>4

\* A call of one of the four operations keeps the invariant.
LEMMA VaultCallInv ==
  ASSUME IInv, VaultCall
  PROVE  IInv'
  BY storeInv, OtherCallsInv DEF VaultCall

-----------------------------------------------------------------------------
(* Steps of a call in progress *)

\* A step that goes on with the call it finds, and writes to boxes the call
\* may write to, keeps the invariant.
LEMMA StepInv ==
  ASSUME IInv, stack # <<>>, NEW g \in Frame, ReplaceTop(g), FieldsOK',
         g.op = Top.op, g.pre = Top.pre, g.caller = Top.caller,
         Top.op \in VaultOp => g.box = Top.box,
         UNCHANGED <<entered, now, boxVars, destroyedBoxes>>,
         \A b \in Box : owner[b] # Nobody => owner'[b] # Nobody,
         \A b \in Box : Top.pre.unlockTimestamp[b] > now \/ owner[b] = Nobody =>
                           indexed'[b] = indexed[b],
         TouchesUnlocked(g), HasNext(g),
         Top.op \in VaultOp => g.dest = Top.dest,
         Top.op \in MintOp => \A b \in MintedBy(g) : owner'[b] # Nobody
  PROVE  IInv'
<1> DEFINE f == stack[1]
<1>1. /\ Len(stack) = 1 /\ Top = f /\ f \in Frame /\ FrameOK(f)
      /\ stack \in Seq(Frame)
  BY OnlyFrame DEF IInv, TypeOK, GuardHolds, Frame
<1>2. /\ stack' \in Seq(Frame) /\ Len(stack') = 1
      /\ stack'[1] = g /\ stack' # <<>>
  BY <1>1, Replaced
<1>3. TypeOK'
  BY <1>2, FieldsOfCurrentNext DEF IInv, TypeOK, Frame
<1>4. GuardHolds'
  BY <1>2 DEF IInv, GuardHolds
<1>5. Fresh(Current)'
  BY DEF IInv, Fresh, Current, boxVars
<1> HIDE DEF f
<1>6. ~g.pre.entered /\ Fresh(g.pre)
  BY <1>1 DEF FrameOK
<1>7. KeepsLocked(g.pre)'
  BY <1>1 DEF FrameOK, KeepsLocked, boxVars
<1>8. TouchesUnlocked(g)'
  BY DEF TouchesUnlocked, MintedBy
<1>9. g.op = "destroy" => f.op \in VaultOp /\ f.box \in Box
  BY <1>1 DEF Frame, VaultFrame, MintFrame, VaultOp, MintOp
<1>10. DestroysByRight(g)' /\ TargetsExist(g)'
  <2>1. g.op \in VaultOp => f.box \in Box /\ f.dest \in Box
    BY <1>1 DEF Frame, VaultFrame, MintFrame, VaultOp, MintOp
  <2>2. TargetsExist(g)'
    BY <1>1, <2>1 DEF FrameOK, TargetsExist, MintedBy
  <2> QED
    BY <1>1, <1>9, <2>2 DEF FrameOK, DestroysByRight, ApprovedOrOwnerIn
<1>11. FrameOK(g)'
  BY <1>6, <1>7, <1>8, <1>10 DEF FrameOK, HasNext, Fresh
<1> QED
  BY <1>2, <1>3, <1>4, <1>5, <1>11 DEF IInv

\* What a step finds on top of the stack.
LEMMA TopFrame ==
  ASSUME IInv, stack # <<>>
  PROVE  /\ Top = stack[1] /\ FrameOK(Top) /\ Top.pre \in Storage
         /\ Top.op \in MintOp => Top \in MintFrame
         /\ Top.op \in VaultOp => Top \in VaultFrame
  BY OnlyFrame
  DEF IInv, TypeOK, GuardHolds, Frame, VaultFrame, MintFrame, MintOp, VaultOp

\* A mint gives an id nobody owns, hence one that was not locked, to its
\* next recipient.
LEMMA MintNextInv ==
  ASSUME IInv, NEW b \in Box, MintNext(b)
  PROVE  IInv'
<1> DEFINE g == [Top EXCEPT !.minted = Append(@, b), !.pc = "calling"]
<1>1. stack # <<>> /\ Top.op \in MintOp /\ Top.pc = "ready"
  BY DEF MintNext, At
<1>2. Top \in MintFrame /\ FrameOK(Top) /\ Top.pre \in Storage
  BY <1>1, TopFrame
<1>3. FieldsOK /\ now \in Nat
  BY FieldsOfCurrent DEF IInv, TypeOK
<1>4. /\ g \in MintFrame
      /\ g.op = Top.op /\ g.pre = Top.pre /\ g.caller = Top.caller
      /\ g.minted = Append(Top.minted, b) /\ g.pc = "calling"
  <2>1. Append(Top.minted, b) \in Seq(Box)
    BY <1>2, AppendProperties DEF MintFrame
  <2> QED
    BY <1>2, <2>1 DEF MintFrame
<1>5. Top.to[Len(Top.minted) + 1] \in Account
  <2>1. Len(Top.minted) \in Nat /\ Len(Top.to) \in Nat /\ Top.to \in Seq(Account)
    BY <1>2, LenProperties DEF MintFrame
  <2>2. Len(Top.minted) + 1 \in 1 .. Len(Top.to)
    BY <1>1, <1>2, <2>1 DEF FrameOK, HasNext
  <2> QED
    BY <2>1, <2>2, ElementOfSeq
<1>6. /\ owner' \in [Box -> Holder \cup {Nobody}]
      /\ \A c \in Box : owner[c] # Nobody => owner'[c] # Nobody
  BY <1>3, <1>5, AccountsAssumption DEF MintNext, FieldsOK, Holder
<1>7. tokenTypes' \in [Box -> TypeId]
  BY <1>2, <1>3 DEF MintNext, FieldsOK, MintFrame
<1>8. FieldsOK'
  BY <1>3, <1>6, <1>7 DEF MintNext, FieldsOK, boxVars, vaultVars
<1>9. Top.pre.unlockTimestamp[b] <= now
  <2>1. unlockTimestamp[b] = 0
    BY DEF MintNext, IInv, Fresh, Current, _exists
  <2>2. PICK u : u = Top.pre.unlockTimestamp[b]
    OBVIOUS
  <2>3. u \in Nat /\ (u > now => unlockTimestamp[b] = u)
    BY <1>2, <2>2 DEF FrameOK, KeepsLocked, Storage
  <2>4. u <= now
    BY <1>3, <2>1, <2>3
  <2> QED
    BY <2>2, <2>4
<1>10. MintedBy(g) = MintedBy(Top) \cup {b}
  <2>1. PICK s \in Seq(Box) : s = Top.minted
    BY <1>2 DEF MintFrame
  <2>2. PICK t : t = Append(s, b)
    OBVIOUS
  <2>3. PICK n \in Nat : n = Len(s) /\ DOMAIN s = 1 .. n
    BY <2>1, LenProperties
  <2>4. /\ DOMAIN t = 1 .. (n + 1) /\ t[n + 1] = b
        /\ \A i \in 1 .. n : t[i] = s[i]
    BY <2>1, <2>2, <2>3, AppendProperties, LenProperties
  <2>5. \A i : i \in 1 .. (n + 1) <=> i \in 1 .. n \/ i = n + 1
    BY <2>3
  <2>6. {t[i] : i \in 1 .. (n + 1)} = {s[i] : i \in 1 .. n} \cup {b}
    BY <2>4, <2>5
  <2> QED
    BY <1>4, <2>1, <2>2, <2>3, <2>4, <2>6 DEF MintedBy
<1>11. TouchesUnlocked(g) /\ \A c \in MintedBy(g) : owner'[c] # Nobody
  <2>1. owner'[b] # Nobody
    BY <1>3, <1>5, AccountsAssumption DEF MintNext, FieldsOK
  <2>2. \A c \in MintedBy(Top) : owner'[c] # Nobody
    BY <1>1, <1>2, <1>6, MintedType DEF FrameOK, TargetsExist
  <2> HIDE DEF g
  <2> QED
    BY <1>1, <1>2, <1>4, <1>9, <1>10, <2>1, <2>2
    DEF FrameOK, TouchesUnlocked, MintOp, VaultOp
<1>12. HasNext(g)
  BY <1>1, <1>4 DEF HasNext, MintOp, VaultOp
<1>13. /\ ReplaceTop(g)
       /\ UNCHANGED <<entered, now, boxVars, destroyedBoxes, indexed>>
  BY DEF MintNext, vaultVars
<1> HIDE DEF g
<1> QED
  BY <1>1, <1>4, <1>6, <1>8, <1>11, <1>12, <1>13, StepInv
  DEF Frame, MintOp, VaultOp

\* The recipient's acceptance changes nothing but the type of its NFT.
LEMMA RecipientAcceptsInv ==
  ASSUME IInv, RecipientAccepts
  PROVE  IInv'
<1> DEFINE pc == IF Len(Top.minted) < Len(Top.to) THEN "ready" ELSE "locking"
           g == [Top EXCEPT !.pc = pc]
<1>1. stack # <<>> /\ Top.op \in MintOp
  BY DEF RecipientAccepts, At
<1>2. Top \in MintFrame /\ FrameOK(Top)
  BY <1>1, TopFrame
<1>3. FieldsOK
  BY FieldsOfCurrent DEF IInv, TypeOK
<1>4. /\ g \in MintFrame
      /\ g.op = Top.op /\ g.pre = Top.pre /\ g.caller = Top.caller
      /\ g.minted = Top.minted /\ g.to = Top.to /\ g.pc = pc
  BY <1>2 DEF MintFrame
<1>5. tokenTypes' \in [Box -> TypeId]
  BY <1>2, <1>3 DEF RecipientAccepts, FieldsOK, MintFrame
<1>6. FieldsOK'
  BY <1>3, <1>5 DEF RecipientAccepts, FieldsOK, nftVars, boxVars, vaultVars
<1>9. /\ ReplaceTop(g)
      /\ UNCHANGED <<entered, now, nftVars, boxVars, destroyedBoxes, indexed>>
  BY DEF RecipientAccepts, vaultVars
<1>7. TouchesUnlocked(g) /\ \A b \in MintedBy(g) : owner'[b] # Nobody
  BY <1>1, <1>2, <1>4, <1>9
  DEF FrameOK, TouchesUnlocked, TargetsExist, MintedBy, MintOp, VaultOp, nftVars
<1>8. HasNext(g)
  BY <1>1, <1>4 DEF HasNext, MintOp, VaultOp
<1> HIDE DEF g
<1> QED
  BY <1>1, <1>4, <1>6, <1>7, <1>8, <1>9, StepInv
  DEF Frame, MintOp, VaultOp, nftVars

\* Amounts added to a box, or taken from one that holds them.
LEMMA CreditType ==
  ASSUME indexed \in [Box -> [Asset -> Nat]], NEW b \in Box, NEW c \in Call
  PROVE  /\ Credit(indexed, b, c) \in [Box -> [Asset -> Nat]]
         /\ \A d \in Box \ {b} : Credit(indexed, b, c)[d] = indexed[d]
  BY DEF Credit, Call

\* What a box holds can be taken from it.
LEMMA DebitType ==
  ASSUME indexed \in [Box -> [Asset -> Nat]], NEW b \in Box, NEW c \in Call,
         InBox(b, c)
  PROVE  /\ Debit(indexed, b, c) \in [Box -> [Asset -> Nat]]
         /\ \A d \in Box \ {b} : Debit(indexed, b, c)[d] = indexed[d]
<1>1. c.moves \in [Asset -> Nat]
  BY DEF Call
<1>2. ASSUME NEW a \in Asset PROVE c.moves[a] <= indexed[b][a]
  <2>1. CASE c.kind = "erc721" /\ c.moves[a] # 0
    <3>1. PICK u \in Asset : c.moves = Only(u, 1)
      BY <2>1 DEF Call
    <3>2. c.moves[a] = 1
      BY <2>1, <3>1 DEF Only
    <3> QED
      BY <2>1, <3>2 DEF InBox
  <2>2. CASE ~(c.kind = "erc721" /\ c.moves[a] # 0)
    BY <2>2 DEF InBox
  <2> QED
    BY <2>1, <2>2
<1>3. \A a \in Asset : indexed[b][a] - c.moves[a] \in Nat
  BY <1>1, <1>2
<1> QED
  BY <1>3 DEF Debit

\* What moves to a box changes only that box.
LEMMA ArrivedType ==
  ASSUME NEW l \in [Box -> [Asset -> Nat]], NEW b \in Box, NEW c \in Call
  PROVE  /\ Arrived(l, b, c) \in [Box -> [Asset -> Nat]]
         /\ \A d \in Box \ {b} : Arrived(l, b, c)[d] = l[d]
  BY DEF Arrived, Credit, Call

\* The loops of the four operations write to the boxes their guards allowed.
LEMMA LoopInv ==
  ASSUME IInv, CreditBox \/ DebitBox \/ MoveBetweenBoxes
  PROVE  IInv'
<1> DEFINE c == Top.calls[1]
<1>1. stack # <<>> /\ Top.op \in VaultOp /\ Top.calls # <<>> /\ Top.pc = "ready"
  BY DEF CreditBox, DebitBox, MoveBetweenBoxes, At, VaultOp
<1>2. /\ Top \in VaultFrame /\ FrameOK(Top) /\ Top.pre \in Storage
      /\ Top.box \in Box /\ Top.dest \in Box /\ Top.calls \in Seq(Call)
  BY <1>1, TopFrame DEF VaultFrame
<1>3. c \in Call
  BY <1>1, <1>2, EmptySeq, ElementOfSeq
<1>4. FieldsOK /\ now \in Nat
  BY FieldsOfCurrent DEF IInv, TypeOK
<1> HIDE DEF c
<1>5. /\ indexed' \in [Box -> [Asset -> Nat]]
      /\ \A d \in Box \ {Top.box, Top.dest} : indexed'[d] = indexed[d]
  <2>1. CASE CreditBox
    BY <1>2, <1>3, <1>4, <2>1, CreditType DEF CreditBox, FieldsOK, c
  <2>2. CASE DebitBox
    BY <1>2, <1>3, <1>4, <2>2, DebitType DEF DebitBox, FieldsOK, c
  <2>3. CASE MoveBetweenBoxes
    <3>1. PICK l : l = Debit(indexed, Top.box, c)
      OBVIOUS
    <3>2. InBox(Top.box, c) /\ indexed' = Arrived(l, Top.dest, c)
      BY <2>3, <3>1 DEF MoveBetweenBoxes, c
    <3>3. /\ l \in [Box -> [Asset -> Nat]]
          /\ \A d \in Box \ {Top.box} : l[d] = indexed[d]
      BY <1>2, <1>3, <1>4, <3>1, <3>2, DebitType DEF FieldsOK
    <3>4. /\ Arrived(l, Top.dest, c) \in [Box -> [Asset -> Nat]]
          /\ \A d \in Box \ {Top.dest} : Arrived(l, Top.dest, c)[d] = l[d]
      BY <1>2, <1>3, <3>3, ArrivedType
    <3> QED
      BY <3>2, <3>3, <3>4
  <2> QED
    BY <2>1, <2>2, <2>3
<1>6. PICK g \in {[Top EXCEPT !.pc = "calling"], [Top EXCEPT !.calls = Tail(@)]} :
        ReplaceTop(g)
  BY DEF CreditBox, DebitBox, MoveBetweenBoxes
<1>7. /\ g \in VaultFrame /\ g.op = Top.op /\ g.pre = Top.pre
      /\ g.caller = Top.caller /\ g.box = Top.box /\ g.dest = Top.dest
      /\ g.pc = "calling" => g.calls # <<>>
  BY <1>1, <1>2, HeadTailProperties DEF VaultFrame
<1>8. /\ FieldsOK'
      /\ UNCHANGED <<owner, entered, now, boxVars, destroyedBoxes>>
  BY <1>4, <1>5
  DEF CreditBox, DebitBox, MoveBetweenBoxes, FieldsOK, nftVars, typeVars, boxVars
<1>9. ASSUME NEW b \in Box,
             Top.pre.unlockTimestamp[b] > now \/ owner[b] = Nobody
      PROVE  indexed'[b] = indexed[b]
  <2>1. /\ Top.pre.unlockTimestamp[Top.box] <= now
        /\ Top.pre.unlockTimestamp[Top.dest] <= now
        /\ owner[Top.box] # Nobody /\ owner[Top.dest] # Nobody
    BY <1>1, <1>2 DEF FrameOK, TouchesUnlocked, TargetsExist
  <2>2. Top.pre.unlockTimestamp \in [Box -> Nat]
    BY <1>2 DEF Storage
  <2>3. b # Top.box /\ b # Top.dest
    BY <1>2, <1>4, <1>9, <2>1, <2>2
  <2> QED
    BY <1>5, <2>3
<1>10. TouchesUnlocked(g) /\ HasNext(g)
  BY <1>1, <1>2, <1>7, <1>8
  DEF FrameOK, TouchesUnlocked, TargetsExist, HasNext, MintOp, VaultOp
<1> QED
  BY <1>1, <1>6, <1>7, <1>8, <1>9, <1>10, StepInv DEF Frame, MintOp, VaultOp

\* A returning token call, or the start of the release of a lock, writes to
\* no box.
LEMMA CallInv ==
  ASSUME IInv, CallReturns \/ BeginUnlock
  PROVE  IInv'
<1>1. stack # <<>> /\ Top.op \in VaultOp
  BY DEF CallReturns, BeginUnlock, At, VaultOp
<1>2. /\ Top \in VaultFrame /\ FrameOK(Top)
      /\ Top.box \in Box /\ Top.to \in Holder /\ Top.calls \in Seq(Call)
      /\ Top.caller \in Holder
  BY <1>1, TopFrame DEF VaultFrame, Holder
<1>3. FieldsOK
  BY FieldsOfCurrent DEF IInv, TypeOK
<1>4. CASE CallReturns
  <2> DEFINE g == [Top EXCEPT !.pc = "ready", !.calls = Tail(@)]
  <2>0. Top.calls # <<>>
    BY <1>1, <1>2, <1>4 DEF CallReturns, At, FrameOK, HasNext
  <2>1. bank' \in [Asset -> [Holder -> Nat]]
    <3> DEFINE from == IF Top.op = "store" THEN Top.caller ELSE Self
               to == IF Top.op = "store" THEN Self ELSE Top.to
               c == Top.calls[1]
    <3>1. /\ Affords(from, c.moves)
          /\ bank' = Moved(bank, from, to, c.moves)
      BY <1>4 DEF CallReturns
    <3>2. from \in Holder /\ to \in Holder
      BY <1>2 DEF Holder
    <3>3. c.moves \in [Asset -> Nat]
      BY <1>2, <2>0, EmptySeq, ElementOfSeq DEF Call
    <3> HIDE DEF from, to, c
    <3> QED
      BY <1>3, <3>1, <3>2, <3>3, MovedType DEF FieldsOK
  <2>2. FieldsOK'
    BY <1>3, <1>4, <2>1
    DEF CallReturns, FieldsOK, nftVars, typeVars, boxVars, vaultVars
  <2>3. /\ g \in VaultFrame /\ g.op = Top.op /\ g.pre = Top.pre
        /\ g.caller = Top.caller /\ g.box = Top.box /\ g.dest = Top.dest
    BY <1>2, <2>0, HeadTailProperties DEF VaultFrame
  <2>4. /\ ReplaceTop(g)
        /\ UNCHANGED <<owner, entered, now, boxVars, destroyedBoxes, indexed>>
    BY <1>4 DEF CallReturns, nftVars, vaultVars
  <2>5. TouchesUnlocked(g) /\ HasNext(g)
    BY <1>1, <1>2, <2>3, <2>4
    DEF FrameOK, TouchesUnlocked, TargetsExist, HasNext, MintOp, VaultOp
  <2> HIDE DEF g
  <2> QED
    BY <1>1, <2>2, <2>3, <2>4, <2>5, StepInv DEF Frame, MintOp, VaultOp
<1>5. CASE BeginUnlock
  <2> DEFINE g == [Top EXCEPT !.pc = "releasing", !.to = owner[Top.box]]
  <2>1. owner[Top.box] \in Holder
    BY <1>1, <1>2, <1>3
    DEF FrameOK, TargetsExist, FieldsOK
  <2>2. FieldsOK'
    BY <1>3, <1>5
    DEF BeginUnlock, FieldsOK, nftVars, typeVars, boxVars, vaultVars
  <2>3. /\ g \in VaultFrame /\ g.op = Top.op /\ g.pre = Top.pre
        /\ g.caller = Top.caller /\ g.box = Top.box /\ g.dest = Top.dest
    BY <1>2, <2>1 DEF VaultFrame
  <2>4. /\ ReplaceTop(g)
        /\ UNCHANGED <<owner, entered, now, boxVars, destroyedBoxes, indexed>>
    BY <1>5 DEF BeginUnlock, nftVars, vaultVars
  <2>5. TouchesUnlocked(g) /\ HasNext(g)
    BY <1>1, <1>2, <2>3, <2>4
    DEF FrameOK, TouchesUnlocked, TargetsExist, HasNext, MintOp, VaultOp
  <2> HIDE DEF g
  <2> QED
    BY <1>1, <2>2, <2>3, <2>4, <2>5, StepInv DEF Frame, MintOp, VaultOp
<1> QED
  BY <1>4, <1>5

-----------------------------------------------------------------------------
(* Returns and reverts *)

\* A return empties the stack, so the storage has only to be well typed and
\* its unowned boxes fresh.
LEMMA ReturnInv ==
  ASSUME IInv, stack # <<>>, Return, FieldsOK',
         UNCHANGED <<owner, unlockTimestamp, vaultVars, now>>,
         \A b \in Box : owner[b] = Nobody =>
            /\ lockedDestructionEnd'[b] = lockedDestructionEnd[b]
            /\ storeRestricted'[b] = storeRestricted[b]
  PROVE  IInv'
<1>1. Len(stack) = 1 /\ stack \in Seq(Frame)
  BY OnlyFrame DEF IInv, TypeOK, GuardHolds, Frame
<1>2. stack' = <<>> /\ stack' \in Seq(Frame) /\ Len(stack') = 0
  BY <1>1, Popped, EmptySeq DEF Return
<1>3. TypeOK'
  BY <1>2, FieldsOfCurrentNext DEF IInv, TypeOK, Frame
<1>4. GuardHolds'
  BY <1>2 DEF Return, GuardHolds
<1>5. Fresh(Current)'
  BY DEF IInv, Fresh, Current, vaultVars
<1> QED
  BY <1>2, <1>3, <1>4, <1>5 DEF IInv

\* A mint returns when its lock is paid.
LEMMA FinishMintInv ==
  ASSUME IInv, FinishMint
  PROVE  IInv'
<1> DEFINE t == types[Top.type]
           lock == MintLock(Top.type, Len(Top.to))
<1>1. stack # <<>> /\ Top.op \in MintOp
  BY DEF FinishMint, At
<1>2. Top \in MintFrame
  BY <1>1, TopFrame
<1>3. FieldsOK /\ now \in Nat
  BY FieldsOfCurrent DEF IInv, TypeOK
<1>4. t \in TypeInfo /\ t.lockAmount \in Nat /\ t.lockedDestructionDuration \in Nat
  BY <1>2, <1>3 DEF FieldsOK, MintFrame, TypeInfo
<1>5. lock \in [Asset -> Nat]
  <2>1. Len(Top.to) \in Nat
    BY <1>2, LenProperties DEF MintFrame
  <2>2. t.lockAmount * Len(Top.to) \in Nat
    <3> DEFINE m == t.lockAmount
               n == Len(Top.to)
    <3>1. m \in Nat /\ n \in Nat
      BY <1>4, <2>1
    <3> HIDE DEF m, n
    <3>2. m * n \in Nat
      BY <3>1
    <3> QED
      BY <3>2 DEF m, n
  <2> QED
    BY <2>2, OnlyType DEF MintLock
<1>6. Top.caller \in Holder /\ Self \in Holder
  BY <1>2 DEF MintFrame, Holder
<1>7. bank' \in [Asset -> [Holder -> Nat]]
  <2>1. Affords(Top.caller, lock) /\ bank' = Moved(bank, Top.caller, Self, lock)
    BY DEF FinishMint
  <2> HIDE DEF lock
  <2> QED
    BY <1>3, <1>5, <1>6, <2>1, MovedType DEF FieldsOK
<1>8. storeRestricted' \in [Box -> BOOLEAN]
  BY <1>2, <1>3 DEF FinishMint, RestrictionSetBy, FieldsOK, MintFrame
<1>9. lockedDestructionEnd' \in [Box -> Nat]
  BY <1>3, <1>4 DEF FinishMint, FieldsOK
<1>10. FieldsOK'
  BY <1>3, <1>7, <1>8, <1>9
  DEF FinishMint, Return, FieldsOK, nftVars, typeVars, vaultVars
<1>11. ASSUME NEW b \in Box, owner[b] = Nobody
       PROVE  /\ lockedDestructionEnd'[b] = lockedDestructionEnd[b]
              /\ storeRestricted'[b] = storeRestricted[b]
  <2>1. b \notin MintedBy(Top)
    BY <1>1, <1>2, <1>11, TopFrame DEF FrameOK, TargetsExist
  <2> QED
    BY <2>1 DEF FinishMint, RestrictionSetBy
<1> QED
  BY <1>1, <1>10, <1>11, ReturnInv DEF FinishMint, nftVars

\* The operations on boxes return.
LEMMA FinishVaultInv ==
  ASSUME IInv, FinishVault \/ _unlockMint
  PROVE  IInv'
<1>1. stack # <<>> /\ Top.op \in VaultOp
  BY DEF FinishVault, _unlockMint, At, VaultOp
<1>2. Top \in VaultFrame
  BY <1>1, TopFrame
<1>3. FieldsOK
  BY FieldsOfCurrent DEF IInv, TypeOK
<1>4. CASE FinishVault
  <2>1. FieldsOK'
    BY <1>3, <1>4
    DEF FinishVault, Return, FieldsOK, nftVars, typeVars, boxVars, vaultVars
  <2> QED
    BY <1>1, <1>4, <2>1, ReturnInv DEF FinishVault, nftVars, boxVars, vaultVars
<1>5. CASE _unlockMint
  <2> DEFINE t == types[tokenTypes[Top.box]]
             lock == Only(t.lockToken, t.lockAmount)
  <2>1. t \in TypeInfo /\ t.lockAmount \in Nat
    BY <1>2, <1>3 DEF FieldsOK, VaultFrame, TypeInfo
  <2>2. lock \in [Asset -> Nat]
    BY <2>1, OnlyType
  <2>3. Affords(Self, lock) /\ bank' = Moved(bank, Self, Top.to, lock)
    BY <1>5 DEF _unlockMint
  <2>4. Top.to \in Holder /\ Self \in Holder
    BY <1>2 DEF VaultFrame, Holder
  <2>5. bank' \in [Asset -> [Holder -> Nat]]
    <3> HIDE DEF lock
    <3> QED
      BY <1>3, <2>2, <2>3, <2>4, MovedType DEF FieldsOK
  <2>6. FieldsOK'
    BY <1>3, <1>5, <2>5
    DEF _unlockMint, Return, FieldsOK, nftVars, typeVars, boxVars, vaultVars
  <2> QED
    BY <1>1, <1>5, <2>6, ReturnInv DEF _unlockMint, nftVars, boxVars, vaultVars
<1> QED
  BY <1>4, <1>5

\* A revert puts back a storage that was idle and fresh.
LEMMA RevertInv ==
  ASSUME IInv, Revert
  PROVE  IInv'
<1>1. stack # <<>> /\ Restore(Top.pre) /\ Pop /\ UNCHANGED now
  BY DEF Revert
<1>2. /\ Len(stack) = 1 /\ Top = stack[1] /\ Top \in Frame
      /\ stack \in Seq(Frame)
  BY <1>1, OnlyFrame DEF IInv, TypeOK, GuardHolds, Frame
<1>3. stack' = <<>> /\ stack' \in Seq(Frame) /\ Len(stack') = 0
  BY <1>1, <1>2, Popped, EmptySeq
<1>4. Top.pre \in Storage /\ ~Top.pre.entered /\ Fresh(Top.pre)
  BY <1>1, <1>2 DEF IInv, FrameOK, Frame, VaultFrame, MintFrame
<1>5. FieldsOK'
  BY <1>1, <1>4, RestoredFields
<1>6. TypeOK'
  BY <1>1, <1>3, <1>5, FieldsOfCurrentNext DEF IInv, TypeOK, Frame
<1>7. GuardHolds'
  BY <1>1, <1>3, <1>4 DEF Restore, GuardHolds
<1>8. Fresh(Current)'
  BY <1>1, <1>4 DEF Restore, Fresh, Current
<1> QED
  BY <1>3, <1>6, <1>7, <1>8 DEF IInv

-----------------------------------------------------------------------------
(* The invariant *)

\* Nothing in the invariant moves when no variable does.
LEMMA StutterInv ==
  ASSUME IInv, UNCHANGED vars
  PROVE  IInv'
<1>1. FieldsOK'
  BY FieldsOfCurrent
  DEF IInv, TypeOK, FieldsOK, vars, nftVars, typeVars, boxVars, vaultVars
<1> QED
  BY <1>1, SameBoxes DEF vars, nftVars

\* Every step keeps the invariant.
LEMMA NextInv == IInv /\ [Next]_vars => IInv'
<1> SUFFICES ASSUME IInv, [Next]_vars PROVE IInv'
  OBVIOUS
<1>1. CASE UnguardedCall
  <2>1. PICK x \in Account :
          \/ \/ \E to \in Approvees, b \in Box : Approve(x, to, b)
             \/ \E p \in OperatorPairs, approval \in BOOLEAN :
                   p[1] = x /\ SetApprovalForAll(x, p[2], approval)
             \/ \E to \in Receivers, b \in Box : TransferFrom(x, to, b)
          \/ \E b \in Box :
                \/ \E t \in LockTimes : lockBox(x, b, t)
                \/ \E r \in Restrictions : setStoreRestriction(x, b, r)
          \/ \E y \in RoleAccounts : GrantRole(x, y) \/ RevokeRole(x, y)
    BY <1>1 DEF UnguardedCall
  <2>2. ASSUME \/ \E to \in Approvees, b \in Box : Approve(x, to, b)
               \/ \E p \in OperatorPairs, approval \in BOOLEAN :
                     p[1] = x /\ SetApprovalForAll(x, p[2], approval)
               \/ \E to \in Receivers, b \in Box : TransferFrom(x, to, b)
        PROVE  IInv'
    BY <2>2, NFTInv
  <2>3. ASSUME NEW b \in Box,
               \/ \E t \in LockTimes : lockBox(x, b, t)
               \/ \E r \in Restrictions : setStoreRestriction(x, b, r)
        PROVE  IInv'
    BY <2>3, BoxSettingsInv
  <2>4. ASSUME \E y \in RoleAccounts : GrantRole(x, y) \/ RevokeRole(x, y)
        PROVE  IInv'
    BY <2>4, RoleInv
  <2> QED
    BY <2>1, <2>2, <2>3, <2>4
<1>2. CASE MintCall
  BY <1>2, MintCallInv
<1>3. CASE VaultCall
  BY <1>3, VaultCallInv
<1>4. CASE MintStep
  BY <1>4, MintNextInv, RecipientAcceptsInv, FinishMintInv DEF MintStep
<1>5. CASE VaultStep
  BY <1>5, LoopInv, CallInv, FinishVaultInv DEF VaultStep
<1>6. CASE Revert
  BY <1>6, RevertInv
<1>7. CASE Tick
  BY <1>7, TickInv
<1>8. CASE \E x \in Account, a \in Donations : Donate(x, a)
  BY <1>8, DonateInv
<1>9. CASE UNCHANGED vars
  BY <1>9, StutterInv
<1> QED
  BY <1>1, <1>2, <1>3, <1>4, <1>5, <1>6, <1>7, <1>8, <1>9
  DEF Next, TransactionStep

\* IInv is an invariant of the contract.
THEOREM Inductive == Spec => []IInv
<1>1. Init => IInv
  BY InitInv
<1>2. IInv /\ [Next]_vars => IInv'
  BY NextInv
<1> QED
  BY <1>1, <1>2, PTL DEF Spec

\* The variables and the frames keep their types.
THEOREM TypeCorrect == Spec => []TypeOK
<1>1. IInv => TypeOK
  BY DEF IInv
<1> QED
  BY <1>1, Inductive, PTL

\* No nonReentrant function runs inside another, whatever code is called
\* and whatever it calls back, and the flag says whether one runs.
THEOREM Guarded == Spec => []GuardHolds
<1>1. IInv => GuardHolds
  BY DEF IInv
<1> QED
  BY <1>1, Inductive, PTL

\* Whoever mints an id gets a box without contents, lock, restriction, date
\* of destruction or destruction left by someone else.
THEOREM MintsAreFresh == Spec => []UnmintedIsFresh
<1>1. IInv => UnmintedIsFresh
  <2> SUFFICES ASSUME IInv PROVE UnmintedIsFresh
    OBVIOUS
  <2>1. CASE stack = <<>>
    BY <2>1 DEF IInv, Fresh, Committed, UnmintedIsFresh
  <2>2. CASE stack # <<>>
    BY <2>2 DEF IInv, FrameOK, Fresh, Committed, UnmintedIsFresh
  <2> QED
    BY <2>1, <2>2
<1> QED
  BY <1>1, Inductive, PTL

-----------------------------------------------------------------------------
(* What a step does to the committed storage *)

\* Between transactions, a call that is not nonReentrant may change settings
\* of boxes that are not locked.
Idles ==
    /\ stack = <<>> /\ stack' = <<>>
    /\ UNCHANGED <<indexed, destroyedBoxes>>
    /\ \A b \in Box : unlockTimestamp[b] > now =>
          /\ storeRestricted'[b] = storeRestricted[b]
          /\ unlockTimestamp'[b] = unlockTimestamp[b]

\* A return commits what the call has written, with the restriction of the
\* boxes it minted.
Commits ==
    /\ stack # <<>> /\ stack' = <<>>
    /\ UNCHANGED <<indexed, destroyedBoxes, unlockTimestamp>>
    /\ \A b \in Box : Top.op \in VaultOp \/ b \notin MintedBy(Top) =>
          storeRestricted'[b] = storeRestricted[b]

\* A call within a call, or a step that changes nothing of the boxes,
\* commits nothing about them.
LEMMA UnguardedCommits ==
  ASSUME IInv, UNCHANGED stack, UNCHANGED vaultVars,
         \A b \in Box : unlockTimestamp[b] > now =>
            /\ storeRestricted'[b] = storeRestricted[b]
            /\ unlockTimestamp'[b] = unlockTimestamp[b]
  PROVE  Idles \/ Committed' = Committed
<1>1. CASE stack = <<>>
  BY <1>1 DEF Idles, vaultVars
<1>2. CASE stack # <<>>
  BY <1>2 DEF Committed
<1> QED
  BY <1>1, <1>2

\* lockBox and setStoreRestriction are refused for a locked box; the other
\* calls that are not nonReentrant write to no setting.
LEMMA UnguardedStep ==
  ASSUME IInv,
         \/ UnguardedCall
         \/ \E x \in Account, defs \in TypeBatches : addTypes(x, defs)
         \/ Tick
         \/ \E x \in Account, a \in Donations : Donate(x, a)
         \/ UNCHANGED vars
  PROVE  Idles \/ Committed' = Committed
<1>1. FieldsOK /\ now \in Nat
  BY FieldsOfCurrent DEF IInv, TypeOK
<1>2. ASSUME NEW x \in Account, NEW b \in Box,
             \/ \E t \in LockTimes : lockBox(x, b, t)
             \/ \E r \in Restrictions : setStoreRestriction(x, b, r)
      PROVE  Idles \/ Committed' = Committed
  <2>1. \A c \in Box : unlockTimestamp[c] > now =>
          /\ storeRestricted'[c] = storeRestricted[c]
          /\ unlockTimestamp'[c] = unlockTimestamp[c]
    BY <1>1, <1>2 DEF lockBox, setStoreRestriction, onlyNotLockedBox, FieldsOK
  <2> QED
    BY <1>2, <2>1, UnguardedCommits DEF lockBox, setStoreRestriction
<1>3. ASSUME UNCHANGED <<stack, boxVars, vaultVars>>
      PROVE  Idles \/ Committed' = Committed
  BY <1>3, UnguardedCommits DEF boxVars
<1>4. CASE UnguardedCall
  <2>1. PICK x \in Account :
          \/ \E to \in Approvees, b \in Box : Approve(x, to, b)
          \/ \E p \in OperatorPairs, approval \in BOOLEAN :
                SetApprovalForAll(x, p[2], approval)
          \/ \E to \in Receivers, b \in Box : TransferFrom(x, to, b)
          \/ \E y \in RoleAccounts : GrantRole(x, y) \/ RevokeRole(x, y)
          \/ \E b \in Box :
                \/ \E t \in LockTimes : lockBox(x, b, t)
                \/ \E r \in Restrictions : setStoreRestriction(x, b, r)
    BY <1>4 DEF UnguardedCall
  <2>2. CASE \E b \in Box : \/ \E t \in LockTimes : lockBox(x, b, t)
                            \/ \E r \in Restrictions : setStoreRestriction(x, b, r)
    BY <1>2, <2>2
  <2>3. CASE UNCHANGED <<stack, boxVars, vaultVars>>
    BY <1>3, <2>3
  <2> QED
    BY <2>1, <2>2, <2>3
    DEF Approve, SetApprovalForAll, TransferFrom, GrantRole, RevokeRole
<1> QED
  BY <1>3, <1>4 DEF addTypes, Tick, Donate, vars

\* Entering a function only remembers the storage.
LEMMA EnterCommits ==
  ASSUME IInv, NEW f, f.pre = Current, Enter(f)
  PROVE  Committed' = Committed
<1>1. stack = <<>> /\ stack' = Append(stack, f)
  BY EnterIdle DEF Enter
<1>2. stack' # <<>> /\ stack'[1] = f
  BY <1>1
<1> QED
  BY <1>1, <1>2 DEF Committed

\* The nonReentrant functions enter.
LEMMA CallStep ==
  ASSUME IInv, MintCall \/ VaultCall
  PROVE  Idles \/ Committed' = Committed
<1>1. ASSUME NEW op, NEW x, NEW t, NEW r, NEW wanted, NEW to,
             BeginMint(op, x, t, r, wanted, to)
      PROVE  Committed' = Committed
  BY <1>1, EnterCommits DEF BeginMint
<1>2. ASSUME NEW op, NEW x, NEW b, NEW dest, NEW to, NEW calls,
             BeginVault(op, x, b, dest, to, calls)
      PROVE  Committed' = Committed
  BY <1>2, EnterCommits DEF BeginVault
<1>3. CASE MintCall
  <2>1. \/ \E x \in Account, defs \in TypeBatches : addTypes(x, defs)
        \/ \E op, x, t, r, wanted, to : BeginMint(op, x, t, r, wanted, to)
    BY <1>3 DEF MintCall, safeMint, safeMintByType, safeBatchMintByType
  <2> QED
    BY <1>1, <2>1, UnguardedStep
<1>4. CASE VaultCall
  <2>1. \E op, x, b, dest, to, calls : BeginVault(op, x, b, dest, to, calls)
    BY <1>4 DEF VaultCall, store, withdraw, transferBetweenBoxes, destroy
  <2> QED
    BY <1>2, <2>1
<1> QED
  BY <1>3, <1>4

\* A function in progress goes on with what it remembers, returns, or puts
\* it back.
LEMMA ReturnsOrKeeps ==
  ASSUME IInv, TransactionStep
  PROVE  FinishMint \/ FinishVault \/ _unlockMint \/ Committed' = Committed
<1>1. /\ stack # <<>> /\ Len(stack) = 1 /\ Top = stack[1] /\ Top \in Frame
      /\ stack \in Seq(Frame)
  <2>1. stack # <<>>
    BY DEF TransactionStep, MintStep, VaultStep, MintNext, RecipientAccepts,
       FinishMint, CreditBox, DebitBox, CallReturns, MoveBetweenBoxes,
       FinishVault, BeginUnlock, _unlockMint, Revert, At
  <2> QED
    BY <2>1, OnlyFrame DEF IInv, TypeOK, GuardHolds, Frame
<1>2. Committed = Top.pre /\ Top.pre \in Storage
  BY <1>1 DEF Committed, Frame, VaultFrame, MintFrame
<1>3. ASSUME NEW g, ReplaceTop(g), g.pre = Top.pre
      PROVE  Committed' = Committed
  <2>1. stack' = [stack EXCEPT ![1] = g] /\ DOMAIN stack = {1}
    BY <1>1, <1>3 DEF ReplaceTop
  <2>2. stack'[1] = g /\ DOMAIN stack' = {1}
    BY <2>1
  <2>3. stack' # <<>>
    BY <2>2
  <2> QED
    BY <1>2, <1>3, <2>2, <2>3 DEF Committed
<1>4. Pop => stack' = <<>>
  BY <1>1, Popped
<1>5. CASE Revert
  <2>1. Committed' = Current'
    BY <1>4, <1>5 DEF Revert, Committed
  <2>2. Current' = Top.pre
    BY <1>2, <1>5 DEF Revert, Restore, Current, Storage
  <2> QED
    BY <1>2, <2>1, <2>2
<1>6. CASE \E b \in Box : MintNext(b)
  <2>1. PICK b \in Box : MintNext(b)
    BY <1>6
  <2>2. Top \in MintFrame
    BY <1>1, <2>1, TopFrame DEF MintNext, At
  <2>3. [Top EXCEPT !.minted = Append(@, b), !.pc = "calling"].pre = Top.pre
    BY <2>2 DEF MintFrame
  <2> QED
    BY <1>3, <2>1, <2>3 DEF MintNext
<1>7. CASE RecipientAccepts
  <2> DEFINE pc == IF Len(Top.minted) < Len(Top.to) THEN "ready" ELSE "locking"
  <2>1. Top \in MintFrame
    BY <1>1, <1>7, TopFrame DEF RecipientAccepts, At
  <2>2. [Top EXCEPT !.pc = pc].pre = Top.pre
    BY <2>1 DEF MintFrame
  <2>3. ReplaceTop([Top EXCEPT !.pc = pc])
    BY <1>7 DEF RecipientAccepts
  <2> HIDE DEF pc
  <2> QED
    BY <1>3, <2>2, <2>3
<1>8. CASE CreditBox \/ DebitBox \/ CallReturns \/ MoveBetweenBoxes \/ BeginUnlock
  <2>1. Top \in VaultFrame
    BY <1>1, <1>8, TopFrame
    DEF CreditBox, DebitBox, CallReturns, MoveBetweenBoxes, BeginUnlock, At, VaultOp
  <2>2. /\ [Top EXCEPT !.pc = "calling"].pre = Top.pre
        /\ [Top EXCEPT !.calls = Tail(@)].pre = Top.pre
        /\ [Top EXCEPT !.pc = "ready", !.calls = Tail(@)].pre = Top.pre
        /\ [Top EXCEPT !.pc = "releasing", !.to = owner[Top.box]].pre = Top.pre
    BY <2>1 DEF VaultFrame
  <2>3. \E g : ReplaceTop(g) /\ g.pre = Top.pre
    BY <1>8, <2>2
    DEF CreditBox, DebitBox, CallReturns, MoveBetweenBoxes, BeginUnlock
  <2> QED
    BY <1>3, <2>3
<1> QED
  BY <1>5, <1>6, <1>7, <1>8
  DEF TransactionStep, MintStep, VaultStep

\* A return commits.
LEMMA ProgressStep ==
  ASSUME IInv, TransactionStep
  PROVE  Commits \/ Committed' = Committed
<1>1. stack # <<>> => Len(stack) = 1 /\ stack \in Seq(Frame)
  BY OnlyFrame DEF IInv, TypeOK, GuardHolds, Frame
<1>2. stack # <<>> /\ Pop => stack' = <<>>
  BY <1>1, Popped
<1>3. CASE FinishMint
  <2>1. Top.op \notin VaultOp
    BY <1>3 DEF FinishMint, At, MintOp, VaultOp
  <2>2. \A b \in Box \ MintedBy(Top) : storeRestricted'[b] = storeRestricted[b]
    BY <1>3 DEF FinishMint, RestrictionSetBy
  <2> QED
    BY <1>2, <1>3, <2>1, <2>2 DEF FinishMint, At, Return, Commits, vaultVars
<1>4. CASE FinishVault \/ _unlockMint
  BY <1>2, <1>4
  DEF FinishVault, _unlockMint, At, Return, Commits, vaultVars, boxVars
<1> QED
  BY <1>3, <1>4, ReturnsOrKeeps

\* Every step is one of the three.
LEMMA EveryStep ==
  ASSUME IInv, [Next]_vars
  PROVE  Idles \/ Commits \/ Committed' = Committed
  BY UnguardedStep, CallStep, ProgressStep DEF Next

\* What a return finds on the stack.
LEMMA Returning ==
  ASSUME IInv, Commits
  PROVE  /\ Committed = Top.pre /\ Committed' = Current'
         /\ Top = stack[1] /\ FrameOK(Top) /\ Top.pre \in Storage
         /\ Top.op \in VaultOp => Top.box \in Box
         /\ Top.op \in VaultOp \/ Top.op \in MintOp
  BY TopFrame, OnlyFrame
  DEF Commits, Committed, IInv, TypeOK, GuardHolds, Frame, VaultFrame, MintFrame,
      VaultOp, MintOp

\* No step changes anything of a committed box that is locked.
LEMMA LockedKept ==
  ASSUME IInv, [Next]_vars
  PROVE  \A b \in Box : Committed.unlockTimestamp[b] > now =>
            /\ Committed'.indexed[b] = Committed.indexed[b]
            /\ Committed'.storeRestricted[b] = Committed.storeRestricted[b]
            /\ Committed'.unlockTimestamp[b] = Committed.unlockTimestamp[b]
            /\ b \in Committed'.destroyedBoxes <=> b \in Committed.destroyedBoxes
<1>1. CASE Committed' = Committed
  BY <1>1
<1>2. CASE Idles
  BY <1>2 DEF Idles, Committed, Current
<1>3. CASE Commits
  <2>1. /\ Committed = Top.pre /\ Committed' = Current' /\ FrameOK(Top)
        /\ Top.op \in VaultOp => Top.box \in Box
        /\ Top.op \in VaultOp \/ Top.op \in MintOp
        /\ Top.pre \in Storage
    BY <1>3, Returning
  <2>2. SUFFICES ASSUME NEW b \in Box, Top.pre.unlockTimestamp[b] > now
                 PROVE  /\ indexed'[b] = Top.pre.indexed[b]
                        /\ storeRestricted'[b] = Top.pre.storeRestricted[b]
                        /\ unlockTimestamp'[b] = Top.pre.unlockTimestamp[b]
                        /\ b \in destroyedBoxes' <=> b \in Top.pre.destroyedBoxes
    BY <2>1 DEF Current
  <2>3. Top.pre.unlockTimestamp \in [Box -> Nat] /\ now \in Nat
    BY <2>1 DEF Storage, IInv, TypeOK
  <2>4. /\ indexed[b] = Top.pre.indexed[b]
        /\ storeRestricted[b] = Top.pre.storeRestricted[b]
        /\ unlockTimestamp[b] = Top.pre.unlockTimestamp[b]
    BY <2>1, <2>2 DEF FrameOK, KeepsLocked
  <2>5. Top.op \in VaultOp \/ b \notin MintedBy(Top)
    BY <2>1, <2>2, <2>3 DEF FrameOK, TouchesUnlocked
  <2>6. b \in destroyedBoxes <=> b \in Top.pre.destroyedBoxes
    <3>1. Top.op = "destroy" => b # Top.box
      BY <2>1, <2>2, <2>3 DEF FrameOK, TouchesUnlocked, VaultOp
    <3> QED
      BY <2>1, <3>1 DEF FrameOK, DestroysByRight
  <2> QED
    BY <1>3, <2>4, <2>5, <2>6 DEF Commits
<1> QED
  BY <1>1, <1>2, <1>3, EveryStep

\* A transaction changes nothing of a box that was locked when it began.
THEOREM LockedFrozen == Spec => LockedBoxIsFrozen
<1> DEFINE Kept ==
      \A b \in Box : Committed.unlockTimestamp[b] > now =>
          /\ Committed'.indexed[b] = Committed.indexed[b]
          /\ Committed'.storeRestricted[b] = Committed.storeRestricted[b]
          /\ Committed'.unlockTimestamp[b] = Committed.unlockTimestamp[b]
          /\ b \in Committed'.destroyedBoxes <=> b \in Committed.destroyedBoxes
<1>1. IInv /\ [Next]_vars => [Kept]_vars
  BY LockedKept
<1> QED
  BY <1>1, Inductive, PTL DEF Spec, LockedBoxIsFrozen

\* A box is destroyed for good, by someone entitled to, not before its date.
THEOREM DestroyedOnlyByRight == Spec => DestroyedByRight
<1> DEFINE ByRight ==
      \A b \in Box :
          /\ b \in Committed.destroyedBoxes => b \in Committed'.destroyedBoxes
          /\ b \in Committed'.destroyedBoxes \ Committed.destroyedBoxes =>
                /\ Committed.lockedDestructionEnd[b] <= now
                /\ ApprovedOrOwnerIn(Committed, stack[1].caller, b)
<1>1. ASSUME IInv, [Next]_vars PROVE ByRight
  <2>1. CASE Committed' = Committed
    BY <2>1
  <2>2. CASE Idles
    BY <2>2 DEF Idles, Committed, Current
  <2>3. CASE Commits
    <3>1. /\ Committed = Top.pre /\ Committed' = Current'
          /\ Top = stack[1] /\ FrameOK(Top)
      BY <1>1, <2>3, Returning
    <3>2. destroyedBoxes' = Top.pre.destroyedBoxes
                            \cup (IF Top.op = "destroy" THEN {Top.box} ELSE {})
      BY <2>3, <3>1 DEF FrameOK, DestroysByRight, Commits
    <3>3. Committed'.destroyedBoxes = destroyedBoxes'
      BY <3>1 DEF Current
    <3> QED
      BY <3>1, <3>2, <3>3 DEF FrameOK, DestroysByRight
  <2> QED
    BY <1>1, <2>1, <2>2, <2>3, EveryStep
<1>2. IInv /\ [Next]_vars => [ByRight]_vars
  BY <1>1
<1> QED
  BY <1>2, Inductive, PTL DEF Spec, DestroyedByRight
=============================================================================
