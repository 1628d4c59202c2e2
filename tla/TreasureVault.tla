--------------------------- MODULE TreasureVault ---------------------------
(***************************************************************************)
(* Store, withdraw, transfer between boxes and destroy: the guards of      *)
(* BoxProxy, BoxWithTimeLock and CryptoTreasure, the token loops BoxBase   *)
(* runs in the storage of its caller, and the release of the mint's lock.  *)
(*                                                                         *)
(* Each entry of a request's lists is one Call.  Its box is updated first, *)
(* then the token is called; units change hands inside that call.          *)
(***************************************************************************)
EXTENDS TreasureState

CONSTANTS
    Requests,       \* [eth, tokens] arguments of the four operations
    Payees          \* recipients withdraw() and destroy() are given

Rank == [erc721 |-> 1, erc20 |-> 2, erc1155 |-> 3]

\* The order of the loops in BoxBase: ERC721, then ERC20, then ERC1155.
InLoopOrder(calls) ==
    \A i, j \in DOMAIN calls : i < j => Rank[calls[i].kind] <= Rank[calls[j].kind]

ASSUME VaultInputs ==
    /\ Payees \subseteq Holder
    /\ \A r \in Requests :
          /\ r.eth \in Nat
          /\ r.tokens \in Seq(Call)
          /\ InLoopOrder(r.tokens)
          /\ \A i \in DOMAIN r.tokens :
                /\ r.tokens[i].kind \in TokenKind
                /\ r.tokens[i].moves[Eth] = 0

EthCall(n) == [kind |-> "eth", moves |-> Only(Eth, n)]

-----------------------------------------------------------------------------
(* One call's effect on the boxes *)

\* A token that is called must implement the standard it is called with.
Implemented(c) == \A a \in Asset : c.moves[a] # 0 => Kind[a] = c.kind

\* _indexedTokens has one slot for an (address, id), whichever of ERC721 and
\* ERC1155 names it; an ERC20 call on another standard finds an empty slot.
SlotExists(c) ==
    \A a \in Asset : c.moves[a] # 0 =>
        \/ Kind[a] = c.kind
        \/ {Kind[a], c.kind} = {"erc721", "erc1155"}

Holds(l, b, c) == \A a \in Asset : Fits(l[b][a] + c.moves[a])

Credit(l, b, c) == [l EXCEPT ![b] = [a \in Asset |-> @[a] + c.moves[a]]]
\* Mutant: the slot of an ERC721 is not deleted.
Debit_KeepsSlot(l, b, c) ==
    IF c.kind = "erc721" THEN l
    ELSE [l EXCEPT ![b] = [a \in Asset |-> @[a] - c.moves[a]]]

Debit(l, b, c) == [l EXCEPT ![b] = [a \in Asset |-> @[a] - c.moves[a]]]

\* Mutant: the amount is subtracted unchecked.
InBox_Unchecked(b, c) == TRUE

\* _withdraw...: an ERC721 slot must hold exactly 1 (e6, e16), the others
\* enough (checked subtraction).
InBox(b, c) ==
    \A a \in Asset :
        IF c.kind = "erc721" /\ c.moves[a] # 0 THEN indexed[b][a] = 1
        ELSE c.moves[a] <= indexed[b][a]

\* _transferErc721BetweenBoxes writes 1 where the others add.
Arrived(l, b, c) ==
    IF c.kind = "erc721"
    THEN [l EXCEPT ![b] = [a \in Asset |-> IF c.moves[a] # 0 THEN 1 ELSE @[a]]]
    ELSE Credit(l, b, c)

-----------------------------------------------------------------------------
(* Guards *)

\* Mutants: a guard that is missing, or lacks a part.
onlyNotDestroyedBox_Missing(b) == TRUE
_isDestructionUnlocked_Missing(b) == TRUE

onlyNotDestroyedBox(b) == b \notin destroyedBoxes
_isDestructionUnlocked(b) == lockedDestructionEnd[b] <= now

\* Mutant: e4 is taken to be useless because the box's balance is checked.
_beforeWithdraw_NoRight(x, b) == onlyNotLockedBox(b) /\ _exists(b)

_beforeWithdraw(x, b) == onlyNotLockedBox(b) /\ _isApprovedOrOwner(x, b)
\* Mutants: e15 is left out as it is in _beforeWithdraw; and e7 is.
_beforeStore_Unminted(x, b) ==
    /\ b \notin destroyedBoxes
    /\ onlyNotLockedBox(b)
    /\ storeRestricted[b] => _isApprovedOrOwner(x, b)
_beforeStore_Open(x, b) ==
    b \notin destroyedBoxes /\ onlyNotLockedBox(b) /\ _exists(b)
_beforeStore(x, b) ==
    /\ onlyNotDestroyedBox(b)
    /\ onlyNotLockedBox(b)
    /\ _exists(b)                                           \* e15
    /\ storeRestricted[b] => _isApprovedOrOwner(x, b)       \* e7
_beforeDestroy(x, b) ==
    /\ onlyNotDestroyedBox(b)
    /\ onlyNotLockedBox(b)
    /\ _isApprovedOrOwner(x, b)
    /\ _isDestructionUnlocked(b)                            \* e17

-----------------------------------------------------------------------------
(* Entering the four operations *)

BeginVault(op, x, b, dest, to, calls) ==
    /\ MayCall(x)
    /\ Enter([op |-> op, caller |-> x, box |-> b, dest |-> dest, to |-> to,
              calls |-> calls, pc |-> "ready", pre |-> Current])
    /\ UNCHANGED <<nftVars, admins, typeVars, boxVars, now>>

\* The ether of a store comes with the call, so no call is made for it.
store(x, b, req) ==
    LET value == EthCall(req.eth) IN
    /\ _beforeStore(x, b)
    /\ Affords(x, value.moves)
    /\ bank' = Moved(bank, x, Self, value.moves)
    /\ Holds(indexed, b, value)
    /\ indexed' = Credit(indexed, b, value)
    /\ BeginVault("store", x, b, b, x, req.tokens)
    /\ UNCHANGED destroyedBoxes

withdraw(x, b, to, req) ==
    /\ _beforeWithdraw(x, b)
    /\ BeginVault("withdraw", x, b, b, to, <<EthCall(req.eth)>> \o req.tokens)
    /\ UNCHANGED <<vaultVars, bank>>

transferBetweenBoxes(x, src, dest, req) ==
    /\ _beforeWithdraw(x, src)
    /\ _beforeStore(x, dest)
    /\ BeginVault("transferBetweenBoxes", x, src, dest, x,
                  <<EthCall(req.eth)>> \o req.tokens)
    /\ UNCHANGED <<vaultVars, bank>>

destroy(x, b, to, req) ==
    /\ _beforeDestroy(x, b)
    /\ destroyedBoxes' = destroyedBoxes \cup {b}
    /\ BeginVault("destroy", x, b, b, to, <<EthCall(req.eth)>> \o req.tokens)
    /\ UNCHANGED <<indexed, bank>>

-----------------------------------------------------------------------------
(* The loops *)

\* _storeErc721 (e01), _storeErc20, _storeErc1155 up to the token call.
CreditBox ==
    /\ At({"store"}, "ready") /\ Top.calls # <<>>
    /\ LET c == Top.calls[1] IN
          /\ c.kind = "erc721" =>
                \A a \in Asset : c.moves[a] # 0 => indexed[Top.box][a] = 0
          /\ Holds(indexed, Top.box, c)
          /\ indexed' = Credit(indexed, Top.box, c)
    /\ ReplaceTop([Top EXCEPT !.pc = "calling"])
    /\ UNCHANGED <<nftVars, admins, typeVars, boxVars, destroyedBoxes, entered,
                   bank, now>>

\* _withdrawEth, _withdrawERC721, _withdrawERC20, _withdrawERC1155 likewise.
DebitBox ==
    /\ At({"withdraw", "destroy"}, "ready") /\ Top.calls # <<>>
    /\ InBox(Top.box, Top.calls[1])
    /\ indexed' = Debit(indexed, Top.box, Top.calls[1])
    /\ ReplaceTop([Top EXCEPT !.pc = "calling"])
    /\ UNCHANGED <<nftVars, admins, typeVars, boxVars, destroyedBoxes, entered,
                   bank, now>>

\* Mutant: the payee is the caller, whatever `to` says.
CallReturns_PaysCaller ==
    LET c == Top.calls[1]
        from == IF Top.op = "store" THEN Top.caller ELSE Self
        to == IF Top.op = "store" THEN Self ELSE Top.caller
    IN  /\ At({"store", "withdraw", "destroy"}, "calling")
        /\ Implemented(c)
        /\ Affords(from, c.moves)
        /\ c.kind = "eth" => to # Self
        /\ bank' = Moved(bank, from, to, c.moves)
        /\ ReplaceTop([Top EXCEPT !.pc = "ready", !.calls = Tail(@)])
        /\ UNCHANGED <<nftVars, admins, typeVars, boxVars, vaultVars, entered, now>>

\* The call returns: the units have moved.  The contract has no receive
\* function, so it cannot pay ether to itself.
CallReturns ==
    LET c == Top.calls[1]
        from == IF Top.op = "store" THEN Top.caller ELSE Self
        to == IF Top.op = "store" THEN Self ELSE Top.to
    IN  /\ At({"store", "withdraw", "destroy"}, "calling")
        /\ Implemented(c)
        /\ Affords(from, c.moves)
        /\ c.kind = "eth" => to # Self
        /\ bank' = Moved(bank, from, to, c.moves)
        /\ ReplaceTop([Top EXCEPT !.pc = "ready", !.calls = Tail(@)])
        /\ UNCHANGED <<nftVars, admins, typeVars, boxVars, vaultVars, entered, now>>

\* _transfer...BetweenBoxes: no token is called.
MoveBetweenBoxes ==
    /\ At({"transferBetweenBoxes"}, "ready") /\ Top.calls # <<>>
    /\ LET c == Top.calls[1] IN
          /\ SlotExists(c)
          /\ InBox(Top.box, c)
          /\ c.kind # "erc721" => Holds(Debit(indexed, Top.box, c), Top.dest, c)
          /\ indexed' = Arrived(Debit(indexed, Top.box, c), Top.dest, c)
    /\ ReplaceTop([Top EXCEPT !.calls = Tail(@)])
    /\ UNCHANGED <<nftVars, admins, typeVars, boxVars, destroyedBoxes, entered,
                   bank, now>>

FinishVault ==
    /\ At({"store", "withdraw", "transferBetweenBoxes"}, "ready")
    /\ Top.calls = <<>>
    /\ Return
    /\ UNCHANGED <<nftVars, admins, typeVars, boxVars, vaultVars, bank, now>>

\* _afterDestroy: _unlockMint calls the locked token, to pay whoever owns
\* the NFT by now ...
BeginUnlock ==
    /\ At({"destroy"}, "ready") /\ Top.calls = <<>>
    /\ ReplaceTop([Top EXCEPT !.pc = "releasing", !.to = owner[Top.box]])
    /\ UNCHANGED <<nftVars, admins, typeVars, boxVars, vaultVars, entered, bank, now>>

\* ... and that call returns.
_unlockMint ==
    LET t == types[tokenTypes[Top.box]]
        lock == Only(t.lockToken, t.lockAmount)
    IN  /\ At({"destroy"}, "releasing")
        /\ Affords(Self, lock)
        /\ bank' = Moved(bank, Self, Top.to, lock)
        /\ Return
        /\ UNCHANGED <<nftVars, admins, typeVars, boxVars, vaultVars, now>>

VaultCall ==
    \E x \in Account, b \in Box, req \in Requests :
        \/ store(x, b, req)
        \/ \E to \in Payees : withdraw(x, b, to, req)
        \/ \E dest \in Box : transferBetweenBoxes(x, b, dest, req)
        \/ \E to \in Payees : destroy(x, b, to, req)
VaultStep ==
    \/ CreditBox \/ DebitBox \/ CallReturns \/ MoveBetweenBoxes
    \/ FinishVault \/ BeginUnlock \/ _unlockMint
=============================================================================
