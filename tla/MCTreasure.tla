----------------------------- MODULE MCTreasure -----------------------------
(* Small instances of CryptoTreasure: the values its runs give constants. *)
EXTENDS TreasureClaims, TreasureInvariant, TreasureRefinement

CONSTANTS alice, mallory, eth, gold, nft, multi

MCKind == [a \in Asset |->
    CASE a = eth -> "eth" [] a = gold -> "erc20"
      [] a = nft -> "erc721" [] a = multi -> "erc1155"]

\* alice starts with n of each fungible asset and the NFT, mallory with m.
Purse(n, m) ==
    [a \in Asset |-> [x \in Holder |->
        CASE x = alice /\ Kind[a] = "erc721" -> 1
          [] x = alice /\ Kind[a] # "erc721" -> n
          [] x = mallory /\ Kind[a] # "erc721" -> m
          [] OTHER -> 0]]
Bank21 == Purse(2, 1)
Bank20 == Purse(2, 0)
Bank10 == Purse(1, 0)
HostileBank ==
    [a \in Asset |-> [x \in Holder |->
        CASE x # alice -> 0 [] a = gold -> 2 [] OTHER -> 1]]

C(kind, a, n) == [kind |-> kind, moves |-> Only(a, n)]
Req(n, calls) == [eth |-> n, tokens |-> calls]
NftCall == C("erc721", nft, 1)
GoldCall == C("erc20", gold, 1)

Type(id, from, to, amount, destroyDelay, mintDelay, reserved) ==
    [id |-> id, from |-> from, to |-> to, lockToken |-> gold,
     lockAmount |-> amount, destroyDelay |-> destroyDelay,
     mintDelay |-> mintDelay, reserved |-> reserved]

OneAlice == {<<alice>>}
AnyoneAndBatch == {<<alice>>, <<mallory>>, <<mallory, alice>>}
AliceTrustsMallory == {<<alice, mallory>>}

\* One type over both boxes: free, with a lock, with a date of destruction as well.
OneType == {{Type(1, 1, 2, 0, 0, 0, 0)}}
LockedType == {{Type(1, 1, 2, 1, 0, 0, 0)}}
\* Two types over the same boxes, one with a lock of two.
LargeLock == {{Type(1, 1, 2, 1, 0, 0, 0), Type(2, 1, 2, 2, 0, 0, 0)}}
LockedDelayedType == {{Type(1, 1, 2, 1, 1, 0, 0)}}
\* Ranges that share an id; a list with type 0; a definition of type 1 that
\* must be refused once type 1 exists, and one with an empty range.
OverlappingTypes ==
    {{Type(1, 1, 2, 1, 0, 0, 1), Type(2, 2, 3, 0, 1, 1, 0)},
     {Type(0, 0, 1, 0, 0, 0, 1)},
     {Type(1, 3, 4, 0, 0, 0, 0)},
     {Type(0, 2, 2, 0, 0, 0, 0)}}

\* Ether with an ERC20, and the other standards called by their own name or by
\* a wrong one.
HostileRequests ==
    {Req(1, <<GoldCall>>), Req(0, <<NftCall>>), Req(0, <<C("erc20", nft, 1)>>),
     Req(0, <<C("erc1155", nft, 1)>>), Req(0, <<C("erc1155", multi, 1)>>),
     Req(0, <<C("erc721", multi, 1)>>)}
OneMulti == {Req(0, <<C("erc1155", multi, 1)>>), Req(0, <<C("erc721", multi, 1)>>)}

OneGold == {Req(0, <<GoldCall>>)}
CustodyRequests == {Req(0, <<NftCall>>), Req(1, <<GoldCall>>)}
=============================================================================
