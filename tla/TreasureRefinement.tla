------------------------- MODULE TreasureRefinement -------------------------
(***************************************************************************)
(* CryptoTreasure implements TreasureLedger: its calls, callbacks, loops   *)
(* and reverts amount to one transaction at a time.                        *)
(***************************************************************************)
EXTENDS CryptoTreasure

Ledger == INSTANCE TreasureLedger WITH
    contents <- Committed.indexed,
    owed <- [b \in Box |-> [a \in Asset |-> LockOwedTo(Committed, b, a)]],
    bank <- Committed.bank,
    entitled <- [b \in Box |->
                    {x \in Holder : ApprovedOrOwnerIn(Committed, x, b)}],
    closed <- {b \in Box : Committed.storeRestricted[b]},
    lockedUntil <- Committed.unlockTimestamp,
    due <- Committed.lockedDestructionEnd,
    destroyed <- Committed.destroyedBoxes

\* Every transaction, whatever is called back between its loops and however
\* often part of it fails, has the effect of one step of the ledger: the
\* units that left a box reached the payee the withdrawal named, those that
\* entered one came from the caller, a destruction paid the lock back once,
\* a mint was paid for in full (BoxProxy, BoxBase, CryptoTreasure).
\* It holds when requests name tokens by their own standard.
RefinesLedger == Ledger!Spec

\* A withdrawal pays the recipient its caller named, nobody else, and in all
\* exactly what left the box, however its list names tokens and whatever
\* ran between two payments (BoxProxy.sol:69, BoxBase.sol:305-402).
WithdrawalReachesItsPayee ==
    [][stack # <<>> /\ stack' = <<>> /\ stack[1].op = "withdraw" =>
          LET b == stack[1].box
              paid == [a \in Asset |->
                          Committed.indexed[b][a] - Committed'.indexed[b][a]]
          IN  Committed'.bank = Moved(Committed.bank, Self, stack[1].to, paid)]_vars

\* The restriction of a new box is what its minter asked for, although the
\* recipient, who is called before it is written, may set it as well
\* (CryptoTreasure.sol:80, 119, 164).
MinterSetsRestriction ==
    [][\A b \in Box :
          Committed.owner[b] = Nobody /\ Committed'.owner[b] # Nobody =>
              Committed'.storeRestricted[b] = stack[1].restricted]_vars
=============================================================================
