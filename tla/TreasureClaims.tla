--------------------------- MODULE TreasureClaims ---------------------------
(***************************************************************************)
(* What the repository says of CryptoTreasure and its code does not do:    *)
(* for each, a run in which TLC refutes it.                                *)
(***************************************************************************)
EXTENDS CryptoTreasure

\* "ER1155: Mapping from hash(boxId, tokenAddress, tokenId) to balance"
\* (BoxStorage.sol:14) and "transfer erc721 from a box to another"
\* (BoxBase.sol:529): when a transfer between boxes has done its loops, the
\* boxes together hold what they held before.
TransferKeepsUnits ==
    At({"transferBetweenBoxes"}, "ready") /\ Top.calls = <<>> =>
        \A a \in Asset : HeldIn(Current, a) = HeldIn(Top.pre, a)

\* "mint allowed already started (or admin) - token not reserved (or admin)"
\* (specs-cryptotreasure.md:49; also :35, "except for admins"): a mint that
\* has come to its checks passes them under these conditions and no others.
ConditionsOfMint(f, b) ==
    \/ f.caller \in admins
    \/ /\ types[f.type].mintStartTimestamp <= now
       /\ b <= types[f.type].lastIdNotReserved
MintsAsSpecified ==
    At({"safeMint"}, "locking") =>
        (MintAllowed(Top) <=> \A b \in MintedBy(Top) : ConditionsOfMint(Top, b))
=============================================================================
