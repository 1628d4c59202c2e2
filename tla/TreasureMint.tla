---------------------------- MODULE TreasureMint ----------------------------
(***************************************************************************)
(* Types of boxes and the three mint functions: ERC721Typed (ranges and    *)
(* next free id), ERC721TypedMintByLockingERC20 (the tokens a mint locks)  *)
(* and the part of CryptoTreasure that guards them.                        *)
(*                                                                         *)
(* One frame stands for any of the three: a single mint is a batch of one. *)
(* They differ in when the caller, the start date and the reserve are      *)
(* checked and in when the type of the new NFT is recorded.                *)
(***************************************************************************)
EXTENDS TreasureState

CONSTANTS
    TypeBatches,    \* lists of type definitions addTypes() is given
    Recipients,     \* lists of recipients the mint functions are given
    MintRestrictions    \* restriction flags they are given in their data

TypeDefinition ==
    [id : TypeId, from : Nat, to : Nat, lockToken : Asset, lockAmount : Nat,
     destroyDelay : Nat, mintDelay : Nat, reserved : Nat]

ASSUME MintInputs ==
    /\ \A d \in TypeBatches : d \subseteq TypeDefinition
    /\ \A d \in TypeBatches : \A e \in d : Kind[e.lockToken] = "erc20"
    /\ Recipients \subseteq Seq(Account)
    /\ \A to \in Recipients : to # <<>>
    /\ MintRestrictions \subseteq BOOLEAN

-----------------------------------------------------------------------------
(* Types *)

TypeFrom(d) ==
    [from |-> d.from, to |-> d.to, nextToMint |-> d.from,
     lockToken |-> d.lockToken, lockAmount |-> d.lockAmount,
     lockedDestructionDuration |-> d.destroyDelay,
     mintStartTimestamp |-> now + d.mintDelay,
     lastIdNotReserved |-> d.to - d.reserved]

\* Mutant: an existing type is overwritten.
ValidType_Overwrites(d) ==
    d.from < d.to /\ d.reserved <= d.to - d.from + 1 /\ d.reserved <= d.to

ValidType(d) ==
    /\ types[d.id].to = 0                       \* e13
    /\ d.from < d.to                            \* e14
    /\ d.reserved <= d.to - d.from + 1          \* e21
    /\ d.reserved <= d.to                       \* to - reserved: checked arithmetic
    /\ Fits(now + d.mintDelay)

\* addTypes(); addType() is a list of one.  The list is applied in order and
\* a failure undoes it all, so what matters is that every entry is valid and
\* no id comes twice (the second would meet e13).
addTypes(x, defs) ==
    /\ MayCall(x)
    /\ x \in admins
    /\ \A d \in defs : ValidType(d)
    /\ \A d, e \in defs : d.id = e.id => d = e
    /\ types' = [t \in TypeId |->
          IF \E d \in defs : d.id = t
          THEN TypeFrom(CHOOSE d \in defs : d.id = t)
          ELSE types[t]]
    /\ UNCHANGED <<nftVars, admins, tokenTypes, boxVars, vaultVars, entered,
                   bank, now, stack>>

-----------------------------------------------------------------------------
(* Mints *)

BeginMint(op, x, t, restricted, wanted, to) ==
    /\ MayCall(x)
    /\ types[t].to # 0                          \* e10
    /\ Enter([op |-> op, caller |-> x, type |-> t, restricted |-> restricted,
              wanted |-> wanted, to |-> to, minted |-> <<>>, pc |-> "ready",
              pre |-> Current])
    /\ UNCHANGED <<nftVars, admins, typeVars, boxVars, vaultVars, bank, now>>

safeMint(x, to, b, t, restricted) ==
    /\ t # 0                                    \* e9
    /\ types[t].from <= b /\ b <= types[t].to   \* e11, e12
    /\ BeginMint("safeMint", x, t, restricted, {b}, <<to>>)

safeMintByType(x, to, t, restricted) ==
    /\ types[t].mintStartTimestamp <= now       \* e19
    /\ BeginMint("safeMintByType", x, t, restricted, Box, <<to>>)

safeBatchMintByType(x, to, t, restricted) ==
    /\ x \in admins                             \* onlyRole
    /\ BeginMint("safeBatchMintByType", x, t, restricted, Box, to)

\* The id the scan from nextToMint stops at; e18 bounds it only once the
\* scan has moved.
IsNextFree(t, b) ==
    /\ types[t].nextToMint <= b
    /\ ~_exists(b)
    /\ \A i \in types[t].nextToMint .. b - 1 : i \in Box /\ _exists(i)
    /\ b # types[t].nextToMint => b <= types[t].to

\* ERC721._safeMint up to the call to the recipient.  A batch records the
\* type of the NFT only after that call.
MintNext(b) ==
    /\ At(MintOp, "ready")
    /\ b \in Top.wanted /\ ~_exists(b)
    /\ Top.op # "safeMint" => IsNextFree(Top.type, b)
    /\ owner' = [owner EXCEPT ![b] = Top.to[Len(Top.minted) + 1]]
    /\ tokenTypes' = IF Top.op = "safeBatchMintByType" THEN tokenTypes
                     ELSE [tokenTypes EXCEPT ![b] = Top.type]
    /\ ReplaceTop([Top EXCEPT !.minted = Append(@, b), !.pc = "calling"])
    /\ UNCHANGED <<approved, operators, admins, types, boxVars, vaultVars,
                   entered, bank, now>>

\* Mutant: nextToMint is stored, and e18 still only guards the scan.
RecipientAccepts_StoresNext ==
    /\ At(MintOp, "calling")
    /\ tokenTypes' = [tokenTypes EXCEPT ![Top.minted[Len(Top.minted)]] = Top.type]
    /\ types' = [types EXCEPT ![Top.type].nextToMint =
                                Top.minted[Len(Top.minted)] + 1]
    /\ ReplaceTop([Top EXCEPT !.pc =
          IF Len(Top.minted) < Len(Top.to) THEN "ready" ELSE "locking"])
    /\ UNCHANGED <<nftVars, admins, boxVars, vaultVars, entered, bank, now>>

\* onERC721Received of the recipient returns.
RecipientAccepts ==
    /\ At(MintOp, "calling")
    /\ tokenTypes' = [tokenTypes EXCEPT ![Top.minted[Len(Top.minted)]] = Top.type]
    /\ ReplaceTop([Top EXCEPT !.pc =
          IF Len(Top.minted) < Len(Top.to) THEN "ready" ELSE "locking"])
    /\ UNCHANGED <<nftVars, admins, types, boxVars, vaultVars, entered, bank, now>>

MintedBy(f) == {f.minted[i] : i \in DOMAIN f.minted}

\* Mutant: amount * to.length is not checked and wraps.
MintLock_Wraps(t, n) ==
    Only(types[t].lockToken, (types[t].lockAmount * n) % (UintMax + 1))

\* Mutant: a batch locks what one box does.
MintLock_OneBox(t, n) == Only(types[t].lockToken, types[t].lockAmount)

\* The minter's tokens that a mint of n boxes of type t locks.
MintLock(t, n) == Only(types[t].lockToken, types[t].lockAmount * n)

\* Mutant: safeMint forgets the start date.
MintAllowed_Early(f) ==
    f.op # "safeBatchMintByType" =>
        \/ f.caller \in admins
        \/ \A b \in MintedBy(f) : b <= types[f.type].lastIdNotReserved

\* e22 and e19 come after the recipient and the locked token have run.
MintAllowed(f) ==
    /\ f.op # "safeBatchMintByType" =>
          \/ f.caller \in admins
          \/ \A b \in MintedBy(f) : b <= types[f.type].lastIdNotReserved
    /\ f.op = "safeMint" => types[f.type].mintStartTimestamp <= now

\* Mutant: the flag is only ever set.
RestrictionSetBy_OnlySets(f) ==
    [b \in Box |-> storeRestricted[b] \/ (b \in MintedBy(f) /\ f.restricted)]

\* Written after the recipient ran, over whatever it has set.
RestrictionSetBy(f) ==
    [b \in Box |-> IF b \in MintedBy(f) THEN f.restricted ELSE storeRestricted[b]]

\* The lock's transferFrom() returns and the rest of the function runs.
FinishMint ==
    LET t == types[Top.type]
        lock == MintLock(Top.type, Len(Top.to))
    IN  /\ At(MintOp, "locking")
        /\ \A a \in Asset : Fits(lock[a])
        /\ Affords(Top.caller, lock)
        /\ bank' = Moved(bank, Top.caller, Self, lock)
        /\ MintAllowed(Top)
        /\ Fits(now + t.lockedDestructionDuration)
        /\ storeRestricted' = RestrictionSetBy(Top)
        /\ lockedDestructionEnd' = [b \in Box |->
              IF b \in MintedBy(Top) /\ t.lockedDestructionDuration # 0
              THEN now + t.lockedDestructionDuration
              ELSE lockedDestructionEnd[b]]
        /\ Return
        /\ UNCHANGED <<nftVars, admins, typeVars, unlockTimestamp, vaultVars, now>>

MintCall ==
    \E x \in Account :
        \/ \E defs \in TypeBatches : addTypes(x, defs)
        \/ \E to \in Recipients, t \in TypeId, r \in MintRestrictions :
              \/ \E b \in Box : Len(to) = 1 /\ safeMint(x, to[1], b, t, r)
              \/ Len(to) = 1 /\ safeMintByType(x, to[1], t, r)
              \/ safeBatchMintByType(x, to, t, r)
MintStep == (\E b \in Box : MintNext(b)) \/ RecipientAccepts \/ FinishMint
=============================================================================
