------------------------- MODULE TreasureOwnership -------------------------
(***************************************************************************)
(* The calls that are not nonReentrant: the ERC721 functions of the boxes' *)
(* NFTs, the roles, the time lock and the store restriction.  Each makes   *)
(* no outside call that something follows, so each is one step; but each   *)
(* can run inside another transaction, whenever outside code has control.  *)
(***************************************************************************)
EXTENDS TreasureState

CONSTANTS           \* the arguments these calls are tried with
    Approvees,      \* addresses approve() is given (Nobody clears)
    OperatorPairs,  \* <<owner, operator>> pairs of setApprovalForAll()
    Receivers,      \* addresses transferFrom() is given
    RoleAccounts,   \* accounts roles are granted to and revoked from
    LockTimes,      \* timestamps lockBox() is given
    Restrictions    \* values setStoreRestriction...() is given

ASSUME OwnershipInputs ==
    /\ Approvees \subseteq Holder \cup {Nobody}
    /\ OperatorPairs \subseteq Account \X Holder
    /\ Receivers \subseteq Holder
    /\ RoleAccounts \subseteq Account
    /\ LockTimes \subseteq Nat
    /\ Restrictions \subseteq BOOLEAN

Approve(x, to, b) ==
    /\ MayCall(x)
    /\ _exists(b)
    /\ to # owner[b]
    /\ x = owner[b] \/ <<owner[b], x>> \in operators
    /\ approved' = [approved EXCEPT ![b] = to]
    /\ UNCHANGED <<owner, operators, admins, typeVars, boxVars, vaultVars,
                   entered, bank, now, stack>>

SetApprovalForAll(x, operator, approval) ==
    /\ MayCall(x)
    /\ x # operator
    /\ operators' = IF approval THEN operators \cup {<<x, operator>>}
                                ELSE operators \ {<<x, operator>>}
    /\ UNCHANGED <<owner, approved, admins, typeVars, boxVars, vaultVars,
                   entered, bank, now, stack>>

\* transferFrom(), and safeTransferFrom() when its recipient accepts: that
\* call comes last, and what the recipient does then are steps of its own.
TransferFrom(x, to, b) ==
    /\ MayCall(x)
    /\ _isApprovedOrOwner(x, b)
    /\ owner' = [owner EXCEPT ![b] = to]
    /\ approved' = [approved EXCEPT ![b] = Nobody]
    /\ UNCHANGED <<operators, admins, typeVars, boxVars, vaultVars, entered,
                   bank, now, stack>>

GrantRole(x, y) ==
    /\ MayCall(x)
    /\ x \in admins
    /\ admins' = admins \cup {y}
    /\ UNCHANGED <<nftVars, typeVars, boxVars, vaultVars, entered, bank, now, stack>>

\* revokeRole() by an admin, renounceRole() by the member itself.
RevokeRole(x, y) ==
    /\ MayCall(x)
    /\ x \in admins \/ x = y
    /\ admins' = admins \ {y}
    /\ UNCHANGED <<nftVars, typeVars, boxVars, vaultVars, entered, bank, now, stack>>

\* Mutant: a locked box can be locked again.
lockBox_Relock(x, b, timestamp) ==
    /\ MayCall(x)
    /\ _isApprovedOrOwner(x, b)
    /\ unlockTimestamp' = [unlockTimestamp EXCEPT ![b] = timestamp]
    /\ UNCHANGED <<nftVars, admins, typeVars, storeRestricted,
                   lockedDestructionEnd, vaultVars, entered, bank, now, stack>>

lockBox(x, b, timestamp) ==
    /\ MayCall(x)
    /\ _isApprovedOrOwner(x, b)
    /\ onlyNotLockedBox(b)
    /\ unlockTimestamp' = [unlockTimestamp EXCEPT ![b] = timestamp]
    /\ UNCHANGED <<nftVars, admins, typeVars, storeRestricted,
                   lockedDestructionEnd, vaultVars, entered, bank, now, stack>>

setStoreRestriction(x, b, restriction) ==
    /\ MayCall(x)
    /\ _isApprovedOrOwner(x, b)
    /\ onlyNotLockedBox(b)
    /\ storeRestricted' = [storeRestricted EXCEPT ![b] = restriction]
    /\ UNCHANGED <<nftVars, admins, typeVars, lockedDestructionEnd,
                   unlockTimestamp, vaultVars, entered, bank, now, stack>>

UnguardedCall ==
    \E x \in Account :
        \/ \E to \in Approvees, b \in Box : Approve(x, to, b)
        \/ \E p \in OperatorPairs, approval \in BOOLEAN :
              p[1] = x /\ SetApprovalForAll(x, p[2], approval)
        \/ \E to \in Receivers, b \in Box : TransferFrom(x, to, b)
        \/ \E y \in RoleAccounts : GrantRole(x, y)
        \/ \E y \in RoleAccounts : RevokeRole(x, y)
        \/ \E b \in Box, t \in LockTimes : lockBox(x, b, t)
        \/ \E b \in Box, r \in Restrictions : setStoreRestriction(x, b, r)
=============================================================================
