--------------------------- MODULE CryptoTreasure ---------------------------
(***************************************************************************)
(* The CryptoTreasure contract: its parents composed, and what it promises.*)
(*                                                                         *)
(* Most promises are about transactions, which take many steps and may be  *)
(* undone.  They are stated on Committed, the storage that would survive a *)
(* revert of the transaction in progress: it changes exactly when a        *)
(* transaction succeeds.                                                   *)
(***************************************************************************)
EXTENDS TreasureOwnership, TreasureMint, TreasureVault, Functions

CONSTANT Donations      \* tokens that are sent to Self by a plain transfer

ASSUME DonationsInput == Donations \subseteq Asset \ {Eth}

\* A transfer that tells the contract nothing; ether cannot come this way.
Donate(x, a) ==
    /\ stack = <<>>
    /\ Affords(x, Only(a, 1))
    /\ bank' = Moved(bank, x, Self, Only(a, 1))
    /\ UNCHANGED <<nftVars, admins, typeVars, boxVars, vaultVars, entered, now, stack>>

TransactionStep == MintStep \/ VaultStep \/ Revert

Next ==
    \/ UnguardedCall
    \/ MintCall
    \/ VaultCall
    \/ TransactionStep
    \/ Tick
    \/ \E x \in Account, a \in Donations : Donate(x, a)

Spec == Init /\ [][Next]_vars

\* Gas is finite: code that has control runs on, returns or reverts.
FairSpec == Spec /\ WF_vars(TransactionStep)

-----------------------------------------------------------------------------
(* Types *)

\* Every variable, and every frame of the stack, has the shape it is
\* declared with.
TypeOK ==
    /\ Current \in Storage
    /\ now \in Nat
    /\ stack \in Seq(VaultFrame \cup MintFrame)

-----------------------------------------------------------------------------
(* Reentrancy *)

\* A nonReentrant function never runs inside another, and the flag is set
\* exactly while one runs: no path out of a function, a revert included,
\* leaves the contract locked or open (ReentrancyGuard.nonReentrant).
GuardHolds == Len(stack) <= 1 /\ (entered <=> stack # <<>>)

\* Whatever the code called from outside does, the contract becomes
\* available again.
ContractIsReleased == entered ~> ~entered

-----------------------------------------------------------------------------
(* Custody *)

HeldIn(s, a) == SumFunction([b \in Box |-> s.indexed[b][a]])
LockOwedTo(s, b, a) ==
    LET t == s.types[s.tokenTypes[b]] IN
    IF s.owner[b] # Nobody /\ b \notin s.destroyedBoxes /\ t.lockToken = a
    THEN t.lockAmount ELSE 0
LocksIn(s, a) == SumFunction([b \in Box |-> LockOwedTo(s, b, a)])

\* The boxes' contents and the tokens locked by mints share one balance per
\* token.  After every transaction it covers both: no sequence of mints,
\* stores, withdrawals, transfers and destructions lets one box be emptied
\* with what belongs to another or pays a lock back twice.
Solvent ==
    \A a \in Asset : HeldIn(Committed, a) + LocksIn(Committed, a)
                        <= Committed.bank[a][Self]

\* Nor does the contract keep what nobody can take out: as long as nobody
\* sends it tokens outside store() or makes it the owner of a box, its
\* balances are exactly the contents and the locks.
NothingStranded ==
    \A a \in Asset : HeldIn(Committed, a) + LocksIn(Committed, a)
                        = Committed.bank[a][Self]

\* An NFT recorded in a box is in the contract, and in no other box: storing
\* (e01), moving and withdrawing (e6, e16) never record it twice.
OneBoxPerNFT ==
    \A a \in Asset : Kind[a] = "erc721" =>
        \A b, c \in Box :
            Committed.indexed[b][a] # 0 =>
                /\ Committed.indexed[b][a] = 1
                /\ Committed.bank[a][Self] = 1
                /\ Committed.indexed[c][a] # 0 => b = c

\* A box nobody has minted is empty, unlocked and not destroyed, so whoever
\* mints its id gets a fresh box (e15, and ownerOf of an unminted id).
UnmintedIsFresh ==
    \A b \in Box : Committed.owner[b] = Nobody =>
        /\ \A a \in Asset : Committed.indexed[b][a] = 0
        /\ Committed.unlockTimestamp[b] = 0
        /\ Committed.lockedDestructionEnd[b] = 0
        /\ ~Committed.storeRestricted[b]
        /\ b \notin Committed.destroyedBoxes

-----------------------------------------------------------------------------
(* Rights, transaction by transaction *)

\* Only a transaction sent by the owner of a box or by someone approved for
\* it, when the transaction began, takes something out of that box (e4).
\* This is of requests that name every token by its own standard: named by
\* another, a transfer can overwrite what the destination held, which takes
\* no right there (TransferKeepsUnits).
ContentsLeaveByRight ==
    [][\A b \in Box, a \in Asset :
          Committed'.indexed[b][a] < Committed.indexed[b][a] =>
              stack # <<>> /\ ApprovedOrOwnerIn(Committed, stack[1].caller, b)]_vars

\* Nothing is added to a box that does not exist or is destroyed, nor to a
\* restricted one by a stranger (e15, e3, e7).
ContentsEnterByRight ==
    [][\A b \in Box, a \in Asset :
          Committed'.indexed[b][a] > Committed.indexed[b][a] =>
              /\ Committed.owner[b] # Nobody
              /\ b \notin Committed.destroyedBoxes
              /\ Committed.storeRestricted[b] =>
                    ApprovedOrOwnerIn(Committed, stack[1].caller, b)]_vars

\* A transaction changes nothing of a box that was locked when it began:
\* not its contents, its restriction, its end of lock, and it does not
\* destroy it (e8).  In particular a lock cannot be shortened or prolonged.
LockedBoxIsFrozen ==
    [][\A b \in Box : Committed.unlockTimestamp[b] > now =>
          /\ Committed'.indexed[b] = Committed.indexed[b]
          /\ Committed'.storeRestricted[b] = Committed.storeRestricted[b]
          /\ Committed'.unlockTimestamp[b] = Committed.unlockTimestamp[b]
          /\ b \in Committed'.destroyedBoxes <=> b \in Committed.destroyedBoxes]_vars

\* A box is destroyed for good, by its owner or someone approved, and not
\* before the date its type set when it was minted (e17).
DestroyedByRight ==
    [][\A b \in Box :
          /\ b \in Committed.destroyedBoxes => b \in Committed'.destroyedBoxes
          /\ b \in Committed'.destroyedBoxes \ Committed.destroyedBoxes =>
                /\ Committed.lockedDestructionEnd[b] <= now
                /\ ApprovedOrOwnerIn(Committed, stack[1].caller, b)]_vars

-----------------------------------------------------------------------------
(* Mints *)

\* Every minted box has a type that was added, and its id is in the range of
\* that type, also when ranges overlap and ids are skipped (e10, e11, e12, e18).
MintedInRange ==
    \A b \in Box : Committed.owner[b] # Nobody =>
        LET t == Committed.types[Committed.tokenTypes[b]] IN
        t.to # 0 /\ t.from <= b /\ b <= t.to

\* Who is no admin, neither when the transaction began nor when it ended,
\* mints no reserved id and nothing before a type's start date, whatever the
\* recipient did before that was asked (e22, e19, and onlyRole of a batch).
\* Of admins it says nothing: the specification lets them mint early, safeMint
\* does not (MintsAsSpecified).
MintPolicyKept ==
    [][\A b \in Box :
          Committed.owner[b] = Nobody /\ Committed'.owner[b] # Nobody =>
              LET t == Committed'.types[Committed'.tokenTypes[b]] IN
              \/ stack[1].caller \in Committed.admins \cup Committed'.admins
              \/ b <= t.lastIdNotReserved /\ t.mintStartTimestamp <= now]_vars

\* What a box was minted with is never changed by a later mint or addType:
\* its type, the terms of that type and its date of destruction.
TermsAreFixed ==
    [][\A b \in Box : Committed.owner[b] # Nobody =>
          /\ Committed'.owner[b] # Nobody
          /\ Committed'.tokenTypes[b] = Committed.tokenTypes[b]
          /\ Committed'.types[Committed.tokenTypes[b]]
                = Committed.types[Committed.tokenTypes[b]]
          /\ Committed'.lockedDestructionEnd[b]
                = Committed.lockedDestructionEnd[b]]_vars
=============================================================================
