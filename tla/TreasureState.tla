--------------------------- MODULE TreasureState ---------------------------
(***************************************************************************)
(* The storage of the CryptoTreasure contract and the EVM around it:       *)
(* accounts and their token balances, block time, the call stack of the    *)
(* transaction being executed, and the rollback a revert performs.         *)
(*                                                                         *)
(* A transaction is not one atomic step.  It stops at every call the       *)
(* contract makes to code it does not control (a token, a recipient), and  *)
(* that code may call the contract again before it returns.  A frame of    *)
(* "stack" is one call of a nonReentrant function that has not returned;   *)
(* it keeps what the call still has to do and "pre", the storage at the    *)
(* moment it began, which a revert puts back.                              *)
(***************************************************************************)
EXTENDS Naturals, Sequences, FiniteSets

CONSTANTS
    Account,        \* the addresses that send calls, Self excluded
    Contract,       \* those with code: they receive control when they are paid
    Self,           \* the address of CryptoTreasure
    Nobody,         \* the zero address
    Deployer,       \* msg.sender of the constructor
    Asset,          \* ether and the tokens, one per (address, id)
    Eth,            \* ether
    Kind,           \* the standard each asset follows
    Box,            \* ids of boxes, which are the ids of the NFTs
    TypeId,         \* ids of types of boxes; 0 is what an unset mapping holds
    InitialBank,    \* the balances before the contract is deployed
    UintMax,        \* the largest uint256
    MaxTime,        \* bound: the last timestamp
    MaxDepth        \* bound: nested calls of nonReentrant functions

TokenKind == {"erc20", "erc721", "erc1155"}
Holder == Account \cup {Self}
TypeInfo == [from : Nat, to : Nat, nextToMint : Nat,
             lockToken : Asset \cup {Nobody}, lockAmount : Nat,
             lockedDestructionDuration : Nat, mintStartTimestamp : Nat,
             lastIdNotReserved : Nat]

ASSUME AccountsAssumption ==
    /\ Self \notin Account
    /\ Nobody \notin Account \cup {Self}
    /\ Contract \subseteq Account
    /\ Deployer \in Account
ASSUME AssetsAssumption ==
    /\ Eth \in Asset
    /\ Nobody \notin Asset
    /\ Kind \in [Asset -> {"eth"} \cup TokenKind]
    /\ \A a \in Asset : Kind[a] = "eth" <=> a = Eth
ASSUME IdsAssumption ==
    /\ Box \subseteq Nat /\ IsFiniteSet(Box)
    /\ TypeId \subseteq Nat
    /\ 0 \in TypeId
\* No token is anywhere in the contract yet, and an NFT has one holder.
ASSUME BankAssumption ==
    /\ InitialBank \in [Asset -> [Holder -> Nat]]
    /\ \A a \in Asset : InitialBank[a][Self] = 0
    /\ \A a \in Asset : Kind[a] = "erc721" =>
          \A x, y \in Holder :
              /\ InitialBank[a][x] <= 1
              /\ InitialBank[a][x] = 1 /\ InitialBank[a][y] = 1 => x = y
ASSUME BoundsAssumption ==
    UintMax \in Nat /\ MaxTime \in Nat /\ MaxDepth \in Nat \ {0}

VARIABLES
    owner,          \* _owners of ERC721
    approved,       \* _tokenApprovals of ERC721
    operators,      \* _operatorApprovals of ERC721, as pairs <<owner, operator>>
    admins,         \* members of DEFAULT_ADMIN_ROLE
    types,          \* _types and the other mappings keyed by a type id
    tokenTypes,     \* _tokenTypes
    storeRestricted,    \* _storeRestrictedToOwnerAndApproval
    lockedDestructionEnd,   \* _lockedDestructionEnd
    unlockTimestamp,    \* _unlockTimestamp
    destroyedBoxes,     \* destroyedBoxes
    indexed,        \* _indexedTokens and _indexedEth: what each box holds
    entered,        \* _status = _ENTERED
    bank,           \* balances the token contracts (and the chain) keep
    now,            \* block.timestamp
    stack           \* the nonReentrant calls that have not returned

nftVars == <<owner, approved, operators>>
boxVars == <<storeRestricted, lockedDestructionEnd, unlockTimestamp>>
typeVars == <<types, tokenTypes>>
vaultVars == <<destroyedBoxes, indexed>>
vars == <<nftVars, admins, typeVars, boxVars, vaultVars, entered, bank, now, stack>>

-----------------------------------------------------------------------------
(* Storage as one value: what a frame remembers and a revert restores. *)

Storage ==
    [owner : [Box -> Holder \cup {Nobody}],
     approved : [Box -> Holder \cup {Nobody}],
     operators : SUBSET (Account \X Holder),
     admins : SUBSET Account,
     types : [TypeId -> TypeInfo],
     tokenTypes : [Box -> TypeId],
     storeRestricted : [Box -> BOOLEAN],
     lockedDestructionEnd : [Box -> Nat],
     unlockTimestamp : [Box -> Nat],
     destroyedBoxes : SUBSET Box,
     indexed : [Box -> [Asset -> Nat]],
     entered : BOOLEAN,
     bank : [Asset -> [Holder -> Nat]]]

Current ==
    [owner |-> owner, approved |-> approved, operators |-> operators,
     admins |-> admins, types |-> types, tokenTypes |-> tokenTypes,
     storeRestricted |-> storeRestricted,
     lockedDestructionEnd |-> lockedDestructionEnd,
     unlockTimestamp |-> unlockTimestamp, destroyedBoxes |-> destroyedBoxes,
     indexed |-> indexed, entered |-> entered, bank |-> bank]

Restore(s) ==
    /\ owner' = s.owner /\ approved' = s.approved /\ operators' = s.operators
    /\ admins' = s.admins
    /\ types' = s.types /\ tokenTypes' = s.tokenTypes
    /\ storeRestricted' = s.storeRestricted
    /\ lockedDestructionEnd' = s.lockedDestructionEnd
    /\ unlockTimestamp' = s.unlockTimestamp
    /\ destroyedBoxes' = s.destroyedBoxes /\ indexed' = s.indexed
    /\ entered' = s.entered /\ bank' = s.bank

\* What the chain keeps if the transaction in progress were to revert; a
\* transaction changes it once, when its outermost call returns.
Committed == IF stack = <<>> THEN Current ELSE stack[1].pre

-----------------------------------------------------------------------------
(* Frames. A Call names one token call: how many units of which assets. *)

Only(a, n) == [b \in Asset |-> IF b = a THEN n ELSE 0]

Call ==
    {c \in [kind : {"eth"} \cup TokenKind, moves : [Asset -> Nat]] :
        c.kind = "erc721" => \E a \in Asset : c.moves = Only(a, 1)}
VaultOp == {"store", "withdraw", "transferBetweenBoxes", "destroy"}
MintOp == {"safeMint", "safeMintByType", "safeBatchMintByType"}

VaultFrame ==
    [op : VaultOp, caller : Account, box : Box, dest : Box, to : Holder,
     calls : Seq(Call), pc : {"ready", "calling", "releasing"}, pre : Storage]
MintFrame ==
    [op : MintOp, caller : Account, type : TypeId, restricted : BOOLEAN,
     wanted : SUBSET Box, to : Seq(Account), minted : Seq(Box),
     pc : {"ready", "calling", "locking"}, pre : Storage]

Top == stack[Len(stack)]
ReplaceTop(f) == stack' = [stack EXCEPT ![Len(stack)] = f]
Pop == stack' = SubSeq(stack, 1, Len(stack) - 1)

\* The frame on top is about to run its own code from pc.
At(ops, pc) == stack # <<>> /\ Top.op \in ops /\ Top.pc = pc

\* Control is outside the contract: in the recipient of ether or of a new
\* NFT when that is a contract, in a token contract otherwise.
OutsideCode ==
    /\ stack # <<>>
    /\ CASE Top.pc = "ready" -> FALSE
         [] Top.pc = "calling" /\ Top.op \in MintOp ->
                Top.to[Len(Top.minted)] \in Contract
         [] Top.pc = "calling" /\ Top.op \in VaultOp ->
                Top.calls[1].kind = "eth" => Top.to \in Contract
         [] Top.pc = "locking" -> types[Top.type].lockAmount # 0
         [] Top.pc = "releasing" -> types[tokenTypes[Top.box]].lockAmount # 0

\* x may be _msgSender() of a new call: anyone starts a transaction, and
\* only code that a transaction has reached makes calls within it.
MayCall(x) == stack = <<>> \/ (OutsideCode /\ x \in Contract)

\* Mutant: the modifier is missing.
nonReentrant_Missing == TRUE

\* The nonReentrant modifier on entry (_nonReentrantBefore).
nonReentrant == ~entered

\* Enter a nonReentrant function; the frame's pre is the storage before it.
Enter(f) ==
    /\ nonReentrant
    /\ Len(stack) < MaxDepth
    /\ entered' = TRUE
    /\ stack' = Append(stack, f)

\* Mutant: the status is not reset on the way out.
Return_KeepsStatus == entered' = entered /\ Pop

\* Return from it (_nonReentrantAfter).
Return == entered' = FALSE /\ Pop

\* Solidity 0.8: a sum or product that does not fit reverts.
Fits(n) == n <= UintMax

\* n units of a go from x to y; the token refuses more than x has.
Moved(bk, x, y, moves) ==
    [a \in Asset |-> IF x = y THEN bk[a] ELSE
        [bk[a] EXCEPT ![x] = @ - moves[a], ![y] = @ + moves[a]]]
Affords(x, moves) == \A a \in Asset : moves[a] <= bank[a][x]

\* Any call can fail: a require of the contract, a token that refuses, a
\* recipient that reverts, the gas running out.  Its effects are undone.
Revert ==
    /\ stack # <<>>
    /\ Restore(Top.pre)
    /\ Pop
    /\ UNCHANGED now

\* A new block: timestamps do not change within a transaction.
Tick ==
    /\ stack = <<>>
    /\ now < MaxTime
    /\ now' = now + 1
    /\ UNCHANGED <<nftVars, admins, typeVars, boxVars, vaultVars, entered, bank, stack>>

\* The constructor: CryptoTreasure and its parents.
Init ==
    /\ owner = [b \in Box |-> Nobody]
    /\ approved = [b \in Box |-> Nobody]
    /\ operators = {}
    /\ admins = {Deployer}
    /\ types = [t \in TypeId |->
          [from |-> 0, to |-> 0, nextToMint |-> 0, lockToken |-> Nobody,
           lockAmount |-> 0, lockedDestructionDuration |-> 0,
           mintStartTimestamp |-> 0, lastIdNotReserved |-> 0]]
    /\ tokenTypes = [b \in Box |-> 0]
    /\ storeRestricted = [b \in Box |-> FALSE]
    /\ lockedDestructionEnd = [b \in Box |-> 0]
    /\ unlockTimestamp = [b \in Box |-> 0]
    /\ destroyedBoxes = {}
    /\ indexed = [b \in Box |-> [a \in Asset |-> 0]]
    /\ entered = FALSE
    /\ bank = InitialBank
    /\ now = 0
    /\ stack = <<>>

-----------------------------------------------------------------------------
(* Views of the storage shared by the operations. *)

_exists(b) == owner[b] # Nobody

\* Over a storage value, so that properties can ask it of an earlier one.
ApprovedOrOwnerIn(s, x, b) ==
    /\ s.owner[b] # Nobody
    /\ \/ x = s.owner[b]
       \/ <<s.owner[b], x>> \in s.operators
       \/ x = s.approved[b]
_isApprovedOrOwner(x, b) == ApprovedOrOwnerIn(Current, x, b)

onlyNotLockedBox(b) == unlockTimestamp[b] <= now
=============================================================================
