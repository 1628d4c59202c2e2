# CryptoTreasure, specified

TLA+ models of the CryptoTreasure contracts (`contracts/`), of the scripts that
encode their arguments and deploy them (`script/`) and of the data structures the
OpenZeppelin library in the repository generates, the TLC runs that check them on
small instances, and proofs, checked by TLAPS, of what holds for every size.

A *crypto treasure* is an ERC721 token that is also a box: ether, ERC20, ERC721
and ERC1155 tokens can be stored in it, withdrawn, moved to another box. Boxes
come in types; minting one can lock an amount of an ERC20, which destroying the
box pays back. A box can be locked until a date, restricted to its owner's
stores, and its destruction can be impossible before a date.

## The system

| component | state | operations | in the model |
|---|---|---|---|
| `BoxProxy` | address of `BoxBase` | `store`, `withdraw`, `transferBetweenBoxes`, `destroy`: guard, `delegatecall`, `e23` | `TreasureVault` |
| `BoxBase` | none of its own | the token loops, in the proxy's storage | `TreasureVault` |
| `BoxStorage` | `_indexedTokens`, `_indexedEth`, `destroyedBoxes` | - | `TreasureState` |
| `BoxWithTimeLock` | `_unlockTimestamp` | `_lockBox`, guards | `TreasureOwnership`, `TreasureVault` |
| `ERC721Typed` | `_types`, `_tokenTypes` | `_addType`, three mints | `TreasureMint` |
| `ERC721TypedMintByLockingERC20` | `_erc20ToLock` | locks on mint, `_unlockMint` | `TreasureMint`, `TreasureVault` |
| `CryptoTreasure` | restriction, dates, reserves | the public mints, `addType(s)`, `lockBox`, restriction, hooks | all |
| OpenZeppelin `ERC721`, `AccessControl`, `ReentrancyGuard` | owners, approvals, roles, flag | transfers, approvals, roles, guard | `TreasureOwnership`, `TreasureState` |
| tokens and recipients | balances | anything, when they are called | `bank`, `OutsideCode` |
| `Bytes`, `script/utils.ts` | none | encoding and decoding of the `data` arguments, reading a type back | `TypeData` |
| `ERC20Key` | balances, allowances, admins | mints, transfers, a spender who needs no approval | `ERC20Key` |
| `script/deploy-localhost.ts` | its position, transactions in flight | deployments, calls, reads, the types its summary lists | `DeployLocalhost` |
| OpenZeppelin `EnumerableSet`, `EnumerableMap` | array, index, values | add, remove, set, get, enumerate | `EnumerableSet`, `EnumerableMap`, `Bytes32Words` |
| OpenZeppelin `Checkpoints` | array of keys and values | push, four lookups | `Checkpoints` |
| OpenZeppelin `SafeCast` | none | checked casts | `SafeCast` |
| `OnlyDelegateCall`, base URI, interface ids, mocks, other scripts | - | - | not modelled |

How they interact. `CryptoTreasure` inherits all the others but `BoxBase`, which
it runs by `delegatecall`. It calls tokens (to pull, to push, to lock, to
release) and recipients (`onERC721Received` of a new box's owner, plain calls
that pay ether). Each of these calls gives control to code the contract does not
know, in the middle of a function. Seven functions are `nonReentrant`: the four
operations on boxes and the three mints. The rest (`lockBox`,
`setStoreRestrictionToOwnerAndApproval`, `addType(s)`, the ERC721 and role
functions) are not, and can be called back at any of those points. That is where
the hard behaviour is: guards are read once on entry, some checks and writes come
after a callback, all contents and locks share one balance per token, and any
failure must undo everything.

What makes each part correct:

* vault: balances cover contents and locks; an NFT is in one box; contents leave
  and enter by right; nothing is lost in the contract;
* lock and destruction: a locked box does not change, a box is destroyed once,
  by right, after its date;
* mints: ids in range, each to a fresh box, reserve and start date kept but by admins, terms
  never changed afterwards;
* guard: one nonReentrant function at a time, always released;
* arguments: what the scripts encode the contract decodes, and refuses in part;
* keys: supply and balances agree, nothing is taken but by right;
* deployment: nothing is sent to a contract that does not stand yet, the exit
  code tells whether all was sent, the summary lists what was added, a run ends;
* sets, maps, checkpoints, casts: they are what they are called, at every
  boundary of theirs.

The hazards behind these are listed line by line in `PROJECT.json`.

## Modules

    TreasureState       storage, frames, the EVM: calls, returns, reverts, blocks
      TreasureOwnership   the functions that are not nonReentrant (not addTypes)
      TreasureMint        types and mints
      TreasureVault       store, withdraw, transferBetweenBoxes, destroy
        CryptoTreasure      the composition, Spec, the promises
          TreasureClaims      what comments and specification say and the code refutes
          TreasureInvariant   the inductive invariants
            CryptoTreasureProofs    types, guard, locks, destruction
              TreasureRightsProofs    rights, mints
                TreasureCustodyProofs   balances, payments
                  TreasureRefinementProofs  the ledger (extends TreasureRefinement too)
          TreasureRefinement  CryptoTreasure implements TreasureLedger
          MCTreasure          constants of the runs
    TreasureLedger      abstract: every transaction is one step
    TypeData            data arguments
    ERC20Key            the key token (MCKey: constants, ERC20KeyProofs: theorems)
    SumTheorems         lemmas about least elements and sums over finite sets
    DeployLocalhost     the script, the node, failing requests
      MCScripts           one of the two scripts: constants of the runs
    Bytes32Words        elements and the words they are stored as
      EnumerableSet       implements AbstractSet
        EnumerableMap       implements AbstractMap; its keys are the set's
                            (EnumerableProofs: theorems about both)
    Checkpoints         pushes and searches
      CheckpointsSafety   properties and invariant (CheckpointsProofs: theorems, of casts too)
    SafeCast            the checked casts, which Checkpoints uses
      MCLibraries         one of the generated libraries, maps included

**State.** A variable per storage mapping, with the source's name where it is
public. The mappings keyed by a type id are one record per type (`types`). An
*asset* is ether or one (token, id), with the standard it follows (`Kind`);
`indexed[box][asset]` is `_indexedEth` and `_indexedTokens`, including that ERC721
and ERC1155 share a slot. `bank` is what chain and token contracts say everyone
has. `stack` holds a frame for each nonReentrant call that has not returned:
arguments, the token calls still to make, `pc`, and `pre`, the storage it began
with.

**Steps.** A function runs without interruption up to a call it makes. So
`withdraw` enters (guards, flag), then for each entry of its lists `DebitBox`
updates the ledger and stops at the call, and `CallReturns` moves the units;
`FinishVault` leaves. Between the two halves the called code has control, and
any action of `UnguardedCall` or `addTypes` by an address with code may happen
(`MayCall`, `OutsideCode`); entering another nonReentrant function is tried as
well, and stopped by the flag only. `Revert` is possible at every point of a call
and restores `pre`: it stands for every failing `require`, token or recipient. A
mint frame likewise stops at `onERC721Received` and at the transfer of its lock;
what comes after a callback in the code (admin and date checks, restriction,
date of destruction, in a batch the type of the NFT) comes after it here. Time
passes only between transactions.

**Committed storage.** Most promises are about transactions. `Committed` is what
the chain would keep if the transaction in progress reverted: the storage when
nothing runs, `stack[1].pre` otherwise. It changes exactly when a transaction
succeeds, so `[][P(Committed, Committed')]_vars` is a statement about whole
transactions, with all their callbacks.

**Data.** A request is an ether amount and a list of token calls in the order of
`BoxBase`'s loops (ERC721, ERC20, ERC1155); a call gives units per asset. Its
`kind` is the list it was in, which need not be the standard of the token: token
calls check it (`Implemented`, for ERC20 also `e24`), transfers between boxes call
no token and check only the slot (`SlotExists`, `Arrived`). Allowances are taken
as given. `data` arguments are inputs already decoded. Amounts are naturals:
Solidity 0.8 arithmetic reverts at its bounds (`UintMax`, where a sum can reach it).
A batch has at least one recipient (an empty one changes nothing). `e20` needs no
guard: the treasures themselves are not among the assets a request can name.

**The ledger.** `TreasureLedger` has no calls, loops or reverts: a step stores,
withdraws, transfers, destroys or mints as a whole. `TreasureRefinement` maps its
variables to functions of `Committed`, so that everything a transaction does until
it returns is a stutter, and its return is one step. What callbacks changed on the
way (owners, locks, restrictions) appears in that step as `Settings`, which lets
them do so only to boxes that were not locked before.

**Arguments.** `TypeData` writes data as sequences of digits, reads it with the
offsets of the source and compares. `parseDataTypes` slices characters as
JavaScript does, with the prefix counted.

**Scripts.** In `DeployLocalhost` the requests of `main()` are a sequence of
records; a transaction is `sent` when the node takes it and takes effect when it is
`mined`, in that order, at once or later. Which of the two the
node does is chosen at the start (`automine`). `Start` begins a run, the first or another. `RequestFails` may hit any request
before or after the node acted on it.

**Data structures.** They are the generated Solidity, with narrow words: an address
is the low end of a word. A map's keys are a set of the same type, which is what
the source's conversion of keys around a `Bytes32Set` comes to, so `EnumerableMap`
extends `EnumerableSet` and all that holds of sets is checked of its keys.
`SafeCast` calls one cast after another with any register of the full length.
`Checkpoints` takes a bisection an iteration at a
time; `at` and `keys` are history variables that say what was pushed, for lookups
to be compared with.

## Runs

Those of the contracts are in `MCTreasure`: `alice` (an account without code, the
deployer) and `mallory` (a contract, so it can call back), two boxes unless said
otherwise, at most two nested frames (`MaxDepth = 2`, so that a second entry is
really attempted and refused). Only `scripts`, `parseclaim` and `summaryclaim`, whose
programs end, turn the deadlock check off.

| run | question | properties |
|---|---|---|
| `custody` | do balances equal contents plus locks under mints with locks (single and batch, also when the locks of a batch outgrow the width of numbers), all four operations, an ERC20, an ERC721 and ether, paid to anyone or to the contract itself? | `TypeOK`, `GuardHolds`, `NothingStranded` |
| `hostile` | and when tokens are named by the wrong standard or sent to the contract unasked, and boxes are transferred, to it as well, at any moment? | `Solvent`, `OneBoxPerNFT` |
| `rights` | do contents move, and unminted ids stay fresh, by right only, with approvals, operators, sales and restrictions changing in callbacks? | `UnmintedIsFresh`, `ContentsLeaveByRight`, `ContentsEnterByRight` |
| `ledger` | is every transaction, with its callbacks and loops, one step of the ledger? Is the payee paid what left the box, and the restriction the minter's? Do locked boxes stay as they are, are boxes destroyed only when due, is the contract always usable again? | `WholeInv`, `RefinesLedger`, `WithdrawalReachesItsPayee`, `MinterSetsRestriction`, `LockedBoxIsFrozen`, `DestroyedByRight`, `ContractIsReleased` |
| `mints` | are ids, reserves, dates and terms kept with overlapping types, batches, refused redefinitions, roles changing in callbacks? | `MintedInRange`, `MintPolicyKept`, `TermsAreFixed` |
| `key` | do supply and balances agree at the limit, is nothing taken or minted but by right? | `TypeOK`, `SupplyIsHeld`, `TakenByRight`, `NoAdminNoMint` |
| `scripts` | is what `utils.ts` writes what the contract reads, also when it is cut or followed by more, and are types read back right? With a node that mines at once or late, failing requests and a second start, does `deploy-localhost.ts` send nothing too early, tell by its exit code whether all was sent, and end? | `DecodedAsEncoded`, `ParsedTermsRight`, `ExitCodeTells`, `SentToStanding`, `Finishes` |
| `libraries` | are the keys of the generated map a set, enumerated exactly, and the whole a map, with zero keys and values? Do searches of a Trace and of a History, in blocks beyond its key type, answer as the history says, and end? Are casts exact? | `Indexed`, `EnumeratesOnce`, `GettersAgree`, `LookupsRight`, `IInv`, `CastsAreExact`, `OnlyLastMoves`, `RefinesSet`, `RefinesMap`, `OnlyTipChanges`, `PastIsFixed`, `SearchEnds` |
| `unitsclaim` | does a transfer between boxes keep the units it moves? No: `BoxBase.sol:563` | `TransferKeepsUnits` (violated) |
| `earlyclaim` | is a mint by id allowed under the conditions of the specification? No: not to admins before the start date, `CryptoTreasure.sol:78` | `MintsAsSpecified` (violated) |
| `parseclaim` | is a type's amount read back? No: `script/utils.ts:36` | `ParsedAmountRight` (violated) |
| `summaryclaim` | does the summary of the deployment list the types that were added? No: `script/deploy-localhost.ts:186` | `SummaryListsTypes` (violated) |

Programs that share no state share a run: `MCLibraries` and `MCScripts` choose at the start
which one runs, and the state graph is the union of theirs.

**Bounds.** Two boxes are needed to tell one box's contents from another's, one
more would only add a symmetric one; amounts of 1 and 2 show partial and full
withdrawals and a missing or doubled unit. In `custody` the largest number is 3, so
that two locks of 2 are past it. Time goes to 1 in `ledger` and `mints`: before, at
and after a date, with dates of 1 and 2, the latter never reached. Elsewhere time
stands still. `mints` has five ids, two overlapping ranges, a type 0 and a list with
a reserve. In `hostile` the ERC721 is donated: storing it must then fail
though the contract has it. The two properties about rights are checked with requests that
name tokens by their own standard: with the wrong one, `unitsclaim` shows that a
transfer can reduce the destination, which `ContentsLeaveByRight` forbids as well.

`ledger` uses requests of ether and one ERC20: two payments with a callback between
them. `key` has numbers up to 3 and three accounts, one of each role. In `scripts`
words have four digits in base 2 and addresses two: each field is told from its
neighbours, and one digit more or less shows; the deployment is started twice.
In `libraries` a map has three addresses in five words, zero among both: a removal from
the middle, of the last and of the only element. Checkpoints are up to seven: the recent
part is searched separately from six on; blocks go one past the largest key; casts are
between six bits and one, three and five.

**Fairness.** Of the runs of the contracts only `ledger` assumes any, and only
`ContractIsReleased` needs it: `WF_vars(TransactionStep)`. Gas is finite, so code
that has control cannot keep it: the transaction goes on, returns or reverts.
Nothing is assumed about when transactions are sent, blocks come or calls succeed;
callbacks could otherwise go on for ever. `libraries` assumes weak fairness of `LookupStep`:
a search is one uninterrupted view. `scripts` assumes it of the node's
mining and of each step of the deployment, which `await`s one answer at a time; nothing
makes a request fail or succeed, and `Finishes` is about both cases.

**Mutants.** Each property of a passing run has a mutant in `PROJECT.json`: a
change a plausible mistake would make (a guard or check dropped, a slot not
deleted, a write too much, the flag not reset), written beside the definition it
replaces, which makes TLC refute the property under the same configuration.

## Proofs

Those about the contracts hold for every set of accounts, boxes, assets, types,
every request and every argument the named assumptions admit (`AccountsAssumption`,
`AssetsAssumption`, `IdsAssumption`, `BankAssumption`, `BoundsAssumption`,
`OwnershipInputs`, `MintInputs`, `VaultInputs`, `DonationsInput`; TLC evaluates
them in every run). `IdsAssumption` has the set of boxes finite, as 256-bit ids
are: the contents of all boxes have a sum.

| module | theorem | states |
|---|---|---|
| `CryptoTreasureProofs` | `Inductive` | `Spec => []IInv` |
| | `TypeCorrect` | `Spec => []TypeOK` |
| | `Guarded` | `Spec => []GuardHolds` |
| | `MintsAreFresh` | `Spec => []UnmintedIsFresh` |
| | `LockedFrozen` | `Spec => LockedBoxIsFrozen` |
| | `DestroyedOnlyByRight` | `Spec => DestroyedByRight` |
| `TreasureRightsProofs` | `MintsInvariant`, `RightsInvariant` | `Spec => []MintInv`, `Spec => []RightsInv` |
| | `MintsStayInRange` | `Spec => []MintedInRange` |
| | `MintPolicy` | `Spec => MintPolicyKept` |
| | `TermsFixed` | `Spec => TermsAreFixed` |
| | `MinterDecides` | `Spec => MinterSetsRestriction` |
| | `EntersByRight` | `Spec => ContentsEnterByRight` |
| | `LeavesByRight` | `OwnStandard`: `Spec => ContentsLeaveByRight` |
| `TreasureCustodyProofs` | `CustodyInvariant` | `Spec => [](CustodyInv /\ StrandedInv)` |
| | `AlwaysSolvent` | `Spec => []Solvent` |
| | `NeverStranded` | `NoGifts`: `Spec => []NothingStranded` |
| | `OneBoxEach` | `Spec => []OneBoxPerNFT` |
| | `WithdrawalPays` | `Spec => WithdrawalReachesItsPayee` |
| `TreasureRefinementProofs` | `EffectInvariant` | `Spec => []EffectInv` |
| | `WholeInvariant` | `Spec => []WholeInv` |
| | `ImplementsLedger` | `OwnStandard`: `Spec => RefinesLedger` |

Those about the key token (`KeyAssumption`), about sets and maps, for words and addresses of any width
(`WidthAssumption`, `SetTypeAssumption`), and about checkpoints and casts, for keys, values
and arrays of any size and registers of any length (`RangeAssumption`,
`LengthAssumption`):

| module | theorem | states |
|---|---|---|
| `ERC20KeyProofs` | `KeyTypeCorrect` | `Spec => []TypeOK` |
| | `SupplyAlwaysHeld` | `Spec => []SupplyIsHeld` |
| | `TakenOnlyByRight` | `Spec => TakenByRight` |
| | `SupplyEndsWithAdmins` | `Spec => NoAdminNoMint` |
| `EnumerableProofs` | `AlwaysIndexed` | `Spec => []Indexed` |
| | `AlwaysEnumerates` | `Spec => []EnumeratesOnce` |
| | `ImplementsSet` | `Spec => RefinesSet` |
| | `MovesOnlyLast` | `Spec => OnlyLastMoves` |
| | `GettersAlwaysAgree` | `MapSpec => []GettersAgree` |
| | `ImplementsMap` | `MapSpec => RefinesMap` |
| | `KeysAreASet` | the first four of `MapSpec` |
| `CheckpointsProofs` | `TraceInvariant` | `TraceSpec => []IInv` |
| | `TraceLookupsRight` | `TraceSpec => []LookupsRight` |
| | `HistoryLookupsRight` | `HistorySpec => []LookupsRight` |
| | `TraceOnlyTip` | `TraceSpec => OnlyTipChanges` |
| | `HistoryPastIsFixed` | `HistorySpec => PastIsFixed /\ OnlyTipChanges` |
| | `CastsExact` | `CastSpec => []CastsAreExact` |

**Why invariants are needed.** The promises compare the storage before and after a
transaction, while a step sees only the current storage, and the guards were
tested many steps, and callbacks, ago. `IInv` carries what they established along
with the frame (`FrameOK`): what was locked in `pre` is as it was
(`KeepsLocked`), the boxes the call writes to were not locked in `pre`
(`TouchesUnlocked`) and exist (`TargetsExist`), the boxes destroyed are those of
`pre` and, for `destroy`, its own box, whose date and caller were right in `pre`
(`DestroysByRight`), and ids nobody owns are fresh in the storage and in `pre`
(`Fresh`), so that a revert, too, leads to a good state. `HasNext` types the lists
a frame works off. The conjunction of `IInv` and of what follows is `WholeInv`,
which the run `ledger` checks.

**The argument.** `GuardHolds` makes the stack one frame at most (`OnlyFrame`).
`SameBoxes` covers calls that touch no box; `BoxSettingsInv` those that lock or
restrict, the only ones a callback can use on boxes, which `e8` keeps from
anything locked. `EnterInv` shows a function entering with `pre = Current`;
`StepInv` shows a step in progress, once for all loops; `ReturnInv` and `RevertInv`
end it. `NextInv` puts one lemma per group of actions together. For the action
properties `EveryStep` says that a step either leaves `Committed` alone, or is a
call between transactions (`Idles`), or is a return (`Commits`), where the
invariant of the frame gives the comparison with `pre`.

**Rights.** `RightsInv` is the same for contents: who called had the right in `pre`
(`TakesByRight`, `GivesByRight`), only the boxes named have changed and in the
direction of the operation (`WritesItsBoxes`). That a transfer adds to its
destination needs more than its own guards: `Debit` and `Arrived` act by the list a
token is in, and setting a slot to 1 takes nothing away only if the slot of an ERC721
never holds more than one (`NoDoubles`), which `e01` sees to in a store, for as long
as ERC721s come by the list of ERC721s. Hence the hypothesis `OwnStandard` of
`LeavesByRight`: without it the property is false (`unitsclaim`).

**Mints.** `MintInv` has the catalogue of types (`Catalogue`: the scan starts where
the range does, which is what makes the test `e18` enough) and, for a mint in
progress, the ids given so far: unowned in `pre`, different, in range
(`MintUnderWay`). The last one of a batch has no type yet while its recipient
is being called, so the promise is made of all boxes but those of the mint
(`Unfinished`) until it returns. `KeepsMinted` says that whatever is called in the
meantime leaves types, dates and the boxes that were there alone.

**Custody.** The balances cover contents and locks between transactions, not
within: a store records what it has yet to receive, a withdrawal has debited what it
has yet to send, a mint owes a lock it has yet to take, a destroy one it has yet to
pay. `CustodyInv` accounts for each (`Underway`, `Unlocked`): at every step
`Claims(a) <= Covers(a)`, for every asset. `StrandedInv` is the same with equality.
Its hypothesis `NoGifts` names the three ways in which the contract can get what
no box records: donations, boxes it comes to own (destroying one pays the lock to the
contract itself), and tokens named by the wrong standard. `PaysOthers` says why
a payment to the contract never happens otherwise. `OneHolder`, that an NFT has one
owner, makes of coverage that it is in one box. `PaidSoFar` gives the payment of a
withdrawal, transfer by transfer.

**The ledger.** `ImplementsLedger` puts the others together: it says
of a whole transaction what changed, who had the right, what was paid and that nothing
else did. `EffectInv` is what the other invariants lack for it. `CustodyInv` compares the
contract's own balance with sums and follows all balances in a withdrawal only
(`PaidSoFar`); `BalancesFollow` does in every operation: they are those of `pre`, less
and more what the contents of the box show to be moved, without what is on its way.
`MovesWhole` says of a transfer that the units of both boxes together stay the same
(for requests that name tokens by their own standard). Two conjuncts are there only because of
`destroy`, whose frame names the recipient of the lock once it is `"releasing"`: the
payee of the contents is then some holder, which is all `Destroy` in the ledger
says, and the box was not destroyed in `pre`, so its lock was still owed.

`LedgerStep` then goes by what a step commits (`CommittingStep`). A step that commits
nothing is a stutter, or the clock (`NothingCommitted`). A step between transactions is
`Configure`, `Receive` or a stutter (`BetweenTransactions`). What remains are the three
ways to return. `FinishVault` is `Store`, `Withdraw` or `Transfer` and `_unlockMint` is
`Destroy`, the latter paying the lock in the same step: rights and the boxes written
come from `RightsInv`, the payment from `EffectInv` with nothing under way
(`MovedInAll`). `FinishMint` is `Mint`: that all boxes of a batch have the same terms,
and that one payment of as many locks is the payment of each, comes from `MintInv`.
`SettingsKept` is common to all of them: what callbacks can have changed of
approvals, owners, locks and restrictions, and that they cannot have of a box that was
locked. The hypothesis `OwnStandard` is that of `LeavesByRight`, needed for the same
reason: `Store` and `Transfer` would otherwise lose what `unitsclaim` loses.

The sums are those of the community modules' folds over finite sets, whose
definition is recursive and says nothing to a prover. `SumTheorems` proves what is
needed of them: the sum of no element, of one element more, of two functions that
differ in one place. Induction over sets is out of reach as a rule, but a
counterexample with the least cardinality can be taken, and refuted.

**Keys.** `SupplyIsHeld` is inductive with `TypeOK` and not without: `_transfer` adds
to a balance unchecked, and that this does not wrap follows from the sum
of two balances being within the supply, which `_mint` has checked to fit.

**Sets and maps.** `Indexed` is inductive but for the types of the elements
(`Typed`): only what an element converts to is ever added, without which narrowing
a word to an address could make two elements one. `RemovePresent` says position by
position what a swap and pop does, whether the removed value is the last one or not.
`RoundTrip` and `ValuesAreContained` then give the enumeration, and with it each step
of the abstract set: the value returned is whether the set changed. For a map
`Valued` adds that only keys have a value other than zero: a removal clears it, or
`tryGet` and `get` would contradict one another.

**Checkpoints.** `LookupsRight` alone says nothing of a search that has not ended.
`IInv` adds `Bracketed`: all checkpoints below `low` are before the key, none from
`high` on is, which an iteration keeps and which at the end leaves one position;
`Increasing`, by which one comparison settles all checkpoints on its side; and
`IsHistory`, which ties the array to what was pushed. Beginning in the recent part
establishes `Bracketed` from one comparison with the middle; of the square root
only that it is between 1 and the length is used (`SqrtBounds`). For what pushes
cannot change `FindsHistory` turns a bisection of the array into a reading of
the history, where a push changes nothing before its key.

**Casts.** All of it is arithmetic of powers of two, of which the prover knows
nothing but that a set of `n` elements has `2 ^ n` subsets: `PowerDoubles` counts
those with and without the last element. `PowerDivides` and `LowBits` then say why
the low bits of a small negative number are that number in a shorter register,
which is what the library's comparison after the cast relies on.

**Only model-checked.** Liveness (`ContractIsReleased`, `SearchEnds`, `Finishes`),
which the prover does not do under fairness. `DecodedAsEncoded` and
`ParsedTermsRight`: what folds over digits compute, an induction over data.
`ExitCodeTells` and `SentToStanding`: they are about one
script of fixed length, which TLC runs through entirely (one that has been started again
too); the first, moreover, folds over the sequence of what was sent. The
four disagreements are not theorems but counterexamples.

## Plan

1. *Core* (done): the modules, runs and theorems about types, the guard, locks.
2. *Extension* (done): the abstract ledger and its refinement, arguments, keys,
   the deployment, the library's data structures, and theorems about sets and
   checkpoints.
3. *Proofs* (done): mints, rights, custody, keys, maps, casts, what pushes cannot change.
4. *The ledger* (done): `EffectInv` and `ImplementsLedger`.

What is left is what the prover cannot do, above, and what is not modelled, below.

## Disagreements

Four things that documents, comments or names say are refuted by runs:

* `unitsclaim`: a transfer between boxes that names an ERC1155 as an ERC721 loses
  units of the destination (BoxBase.sol:563).
* `earlyclaim`: specs-cryptotreasure.md:35, 49 and 55 let admins mint before the start
  date of a type. `safeMint` (CryptoTreasure.sol:78) and `safeMintByType` (109) ask for
  the date of everyone; only a batch, which is for admins, does not. `MintPolicyKept` is
  what the specification and the code agree on: it is about minters who are no admins.
* `parseclaim`: the amount of a type is read back shifted by a digit (utils.ts:36).
* `summaryclaim`: deploy-localhost.ts:186 prints the last type with id 2, which is
  another's; the script adds it as 4.

Others were met while modelling; the modules follow the code.

* README.md:50 says that a locked box prevents withdrawing. `lockBox` is not
  `nonReentrant` and the lock is tested when a withdrawal begins, so a box locked by
  the recipient of its ether goes on being emptied; `LockedBoxIsFrozen` is about
  boxes that were locked when the transaction began.
* ERC721Typed.sol:98 says "increment the next to mint", but assigns to a memory
  copy: the scan begins at the first id of a type every time (`MintNext`). Ids are
  right all the same, and `e18` could not be relied on otherwise (`MintedInRange`).
* CryptoTreasure.sol:63 gives the restriction eight bytes; the code reads one, and
  the scripts write one.

## Not modelled

`updateBaseURI` and `supportsInterface` (no state the rest reads), `OnlyDelegateCall`
(a constant comparison), events, ERC721 balances and URIs, tokens with fees or
rebasing (the contract records the amount it asked for), hash collisions of the
ledger's keys, gas other than as a reason to fail, `decimals` of a key. Of the
deployment's summary what the balances it reads are (on a node that mines late they may
come before the transfers) and the lists of who owns which id. The tests;
forge-std; the OpenZeppelin contracts nothing here inherits, beyond those whose
generators are modelled. Its other scripts (`migrate-imports.js`,
`compareGasReports.js`, `gen-nav.js`, `inheritance-ordering.js`,
`update-docs-branch.js`, `release/`, the generator's driver and mocks): tooling of
the library's own repository, which neither the contracts nor the deployment reach.
The remappings and settings of both `hardhat.config` files.

## Running

    tlc -config Custody.cfg MCTreasure.tla
    tlc -config Libraries.cfg MCLibraries.tla
    tlapm TreasureCustodyProofs.tla
    tlapm TreasureRefinementProofs.tla
