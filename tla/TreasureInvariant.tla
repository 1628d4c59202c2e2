------------------------- MODULE TreasureInvariant -------------------------
(***************************************************************************)
(* The inductive invariant behind the theorems about CryptoTreasure.       *)
(*                                                                         *)
(* The promises compare the storage a transaction commits with the storage *)
(* it began with, and what is checked in between (the guards) is checked   *)
(* once, when a call is entered.  The invariant says, for the one call     *)
(* that can be in progress, how the storage now differs from the storage   *)
(* it began with, and that the guards checked then still stand for it.     *)
(***************************************************************************)
EXTENDS CryptoTreasure

\* A storage in which ids nobody owns are those of fresh boxes.
Fresh(s) ==
    \A b \in Box : s.owner[b] = Nobody =>
        /\ \A a \in Asset : s.indexed[b][a] = 0
        /\ s.unlockTimestamp[b] = 0
        /\ s.lockedDestructionEnd[b] = 0
        /\ ~s.storeRestricted[b]
        /\ b \notin s.destroyedBoxes

\* The boxes a call writes to exist: NFTs are never burned.
TargetsExist(f) ==
    /\ f.op \in VaultOp => owner[f.box] # Nobody /\ owner[f.dest] # Nobody
    /\ f.op \in MintOp => \A b \in MintedBy(f) : owner[b] # Nobody

\* What was locked when the call began is as it was.
KeepsLocked(s) ==
    \A b \in Box : s.unlockTimestamp[b] > now =>
        /\ indexed[b] = s.indexed[b]
        /\ storeRestricted[b] = s.storeRestricted[b]
        /\ unlockTimestamp[b] = s.unlockTimestamp[b]

\* The boxes a call writes to were not locked when it began.
TouchesUnlocked(f) ==
    /\ f.op \in VaultOp => /\ f.pre.unlockTimestamp[f.box] <= now
                           /\ f.pre.unlockTimestamp[f.dest] <= now
    /\ f.op \in MintOp =>
          \A b \in MintedBy(f) : f.pre.unlockTimestamp[b] <= now

\* Only destroy destroys, only its box, and it was allowed to.
DestroysByRight(f) ==
    /\ destroyedBoxes = f.pre.destroyedBoxes
                        \cup (IF f.op = "destroy" THEN {f.box} ELSE {})
    /\ f.op = "destroy" =>
          /\ f.pre.lockedDestructionEnd[f.box] <= now
          /\ ApprovedOrOwnerIn(f.pre, f.caller, f.box)

\* A mint that has not finished its list still has a recipient, and a token
\* that is being called was named by a call.
HasNext(f) ==
    /\ f.op \in MintOp /\ f.pc = "ready" => Len(f.minted) < Len(f.to)
    /\ f.op \in VaultOp /\ f.pc = "calling" => f.calls # <<>>

FrameOK(f) ==
    /\ ~f.pre.entered
    /\ Fresh(f.pre)
    /\ TargetsExist(f)
    /\ KeepsLocked(f.pre)
    /\ TouchesUnlocked(f)
    /\ DestroysByRight(f)
    /\ HasNext(f)

\* The inductive invariant: at any moment the storage differs from the one
\* the call in progress began with only as that call was allowed to, though
\* its guards were tested on entry and its callbacks have run since.
IInv ==
    /\ TypeOK
    /\ GuardHolds
    /\ Fresh(Current)
    /\ stack # <<>> => FrameOK(stack[1])

-----------------------------------------------------------------------------
(* Rights: who a call in progress may take from and give to. *)

\* Every request names its tokens by the standard they implement.
OwnStandard ==
    \A r \in Requests : \A i \in DOMAIN r.tokens : Implemented(r.tokens[i])

\* An NFT is recorded at most once in a box.
NoDoubles(s) ==
    \A b \in Box, a \in Asset : Kind[a] = "erc721" => s.indexed[b][a] <= 1

\* The guards, of the storage the call began with.
TakesByRight(f) ==
    f.op \in {"withdraw", "transferBetweenBoxes", "destroy"} =>
        ApprovedOrOwnerIn(f.pre, f.caller, f.box)
GivesByRight(f) ==
    f.op \in {"store", "transferBetweenBoxes"} =>
        /\ f.pre.owner[f.dest] # Nobody
        /\ f.dest \notin f.pre.destroyedBoxes
        /\ \/ ~f.pre.storeRestricted[f.dest]
           \/ ApprovedOrOwnerIn(f.pre, f.caller, f.dest)

Transfers(f) == f.op = "transferBetweenBoxes" /\ f.box # f.dest

\* The contents of the other boxes are as they were; a box that is only a
\* source has lost, one that is only a destination has gained.
WritesItsBoxes(f) ==
    /\ \A b \in Box : indexed[b] # f.pre.indexed[b] =>
          f.op \in VaultOp /\ b \in {f.box, f.dest}
    /\ OwnStandard /\ (f.op = "store" \/ Transfers(f)) =>
          \A a \in Asset : f.pre.indexed[f.dest][a] <= indexed[f.dest][a]
    /\ f.op \in {"withdraw", "destroy"} \/ Transfers(f) =>
          \A a \in Asset : indexed[f.box][a] <= f.pre.indexed[f.box][a]

\* Withdrawals name one box, and name tokens as their request did.
WellAddressed(f) ==
    f.op \in VaultOp =>
        /\ f.op # "transferBetweenBoxes" => f.box = f.dest
        /\ OwnStandard => \A i \in DOMAIN f.calls : Implemented(f.calls[i])

ActsByRight(f) ==
    /\ OwnStandard => NoDoubles(f.pre)
    /\ TakesByRight(f)
    /\ GivesByRight(f)
    /\ WritesItsBoxes(f)
    /\ WellAddressed(f)

RightsInv ==
    /\ OwnStandard => NoDoubles(Current)
    /\ stack # <<>> => ActsByRight(stack[1])

-----------------------------------------------------------------------------
(* Mints *)

\* The scan for a free id starts where the range of the type starts.
Catalogue(s) ==
    \A t \in TypeId : s.types[t].to # 0 =>
        /\ s.types[t].nextToMint = s.types[t].from
        /\ s.types[t].from <= s.types[t].to

InRange(t, b) == t.to # 0 /\ t.from <= b /\ b <= t.to

\* The boxes of a mint that has not returned.
Unfinished ==
    IF stack # <<>> /\ stack[1].op \in MintOp THEN MintedBy(stack[1]) ELSE {}

AllInRange(s, skipped) ==
    \A b \in Box \ skipped :
        s.owner[b] # Nobody => InRange(s.types[s.tokenTypes[b]], b)

\* What a transaction leaves alone, whatever it is and calls: the types that
\* were there, and what the boxes that were there were minted with.
KeepsMinted(f) ==
    /\ \A t \in TypeId : f.pre.types[t].to # 0 => types[t] = f.pre.types[t]
    /\ \A b \in Box : f.pre.owner[b] # Nobody =>
          /\ owner[b] # Nobody
          /\ tokenTypes[b] = f.pre.tokenTypes[b]
          /\ lockedDestructionEnd[b] = f.pre.lockedDestructionEnd[b]
    /\ \A b \in Box : f.pre.owner[b] = Nobody /\ owner[b] # Nobody =>
          b \in Unfinished

\* What the three mint functions have checked, and the ids given so far. A
\* batch has still to record the type of the last one while its recipient
\* is being called.
MintUnderWay(f) ==
    /\ f.pre.types[f.type].to # 0
    /\ f.op = "safeMint" => \A b \in f.wanted : InRange(types[f.type], b)
    /\ f.op = "safeMintByType" => types[f.type].mintStartTimestamp <= now
    /\ f.op = "safeBatchMintByType" => f.caller \in f.pre.admins
    /\ Len(f.minted) <= Len(f.to)
    /\ f.pc = "locking" => Len(f.minted) = Len(f.to)
    /\ f.pc = "calling" => f.minted # <<>>
    /\ \A i \in DOMAIN f.minted :
          /\ f.pre.owner[f.minted[i]] = Nobody
          /\ InRange(types[f.type], f.minted[i])
          /\ \/ tokenTypes[f.minted[i]] = f.type
             \/ i = Len(f.minted) /\ f.pc = "calling"
          /\ \A j \in DOMAIN f.minted : f.minted[i] = f.minted[j] => i = j

MintsInOrder(f) ==
    /\ Catalogue(f.pre) /\ AllInRange(f.pre, {})
    /\ KeepsMinted(f)
    /\ f.op \in MintOp => MintUnderWay(f)

MintInv ==
    /\ Catalogue(Current) /\ AllInRange(Current, Unfinished)
    /\ stack # <<>> => MintsInOrder(stack[1])

-----------------------------------------------------------------------------
(* Custody, at every moment of a transaction *)

\* A lock is in the contract from the end of the mint, when it is paid, to
\* the end of the destruction, when it is paid back.
Unlocked ==
    Unfinished \cup
    IF stack # <<>> /\ stack[1].op = "destroy" THEN destroyedBoxes \ {stack[1].box}
                                               ELSE destroyedBoxes
Due(b, a) ==
    LET t == types[tokenTypes[b]] IN
    IF owner[b] # Nobody /\ b \notin Unlocked THEN Only(t.lockToken, t.lockAmount)[a]
                                              ELSE 0

\* Units that are recorded in a box and not yet in the contract, or in the
\* contract and in no box any more.
Underway(ops, a) == IF At(ops, "calling") THEN Top.calls[1].moves[a] ELSE 0

Claims(a) ==
    HeldIn(Current, a) + SumFunction([b \in Box |-> Due(b, a)])
        + Underway({"withdraw", "destroy"}, a)
Covers(a) == bank[a][Self] + Underway({"store"}, a)

\* An NFT has one holder.
OneHolder(bk) ==
    \A a \in Asset : Kind[a] = "erc721" =>
        \A x, y \in Holder :
            bk[a][x] <= 1 /\ (bk[a][x] = 1 /\ bk[a][y] = 1 => x = y)

\* A withdrawal in progress has paid its payee what has left the box.
PaidSoFar(f) ==
    f.op = "withdraw" =>
        bank = Moved(f.pre.bank, Self, f.to,
                     [a \in Asset |-> f.pre.indexed[f.box][a] - indexed[f.box][a]
                                      - Underway({"withdraw"}, a)])

CustodyInv ==
    /\ \A a \in Asset : Claims(a) <= Covers(a)
    /\ Solvent
    /\ OneHolder(bank)
    /\ stack # <<>> => OneHolder(stack[1].pre.bank) /\ PaidSoFar(stack[1])

-----------------------------------------------------------------------------
(* Nothing stranded *)

\* Nobody sends the contract tokens outside store() or makes it the owner of
\* a box, and requests name tokens by their own standard.
NoGifts == Donations = {} /\ Self \notin Receivers /\ OwnStandard

NotOwner(s) == \A b \in Box : s.owner[b] # Self

\* A payment the contract would make to itself waits for its ether, which
\* the contract cannot receive.
PaysOthers(f) ==
    /\ f.op \in {"withdraw", "destroy"} /\ f.to = Self =>
          f.calls # <<>> /\ f.calls[1].kind = "eth"
    /\ f.pc = "releasing" => f.to # Self

StrandedInv ==
    NoGifts =>
        /\ \A a \in Asset : Claims(a) = Covers(a)
        /\ NothingStranded
        /\ NotOwner(Current)
        /\ stack # <<>> => NotOwner(stack[1].pre) /\ PaysOthers(stack[1])

-----------------------------------------------------------------------------
(* The ledger: what the call in progress has done so far of the one step it
   will be. *)

\* Units change hands in these operations, from one account to another.
Payments == {"store", "withdraw", "destroy"}
PayerOf(f) == IF f.op = "store" THEN f.caller ELSE Self
PayeeOf(f) == IF f.op = "store" THEN Self ELSE f.to

\* What the contents of the box show to be moved, less what is on its way.
MovedSoFar(f) ==
    [a \in Asset |->
        (IF f.op = "store" THEN indexed[f.box][a] - f.pre.indexed[f.box][a]
                           ELSE f.pre.indexed[f.box][a] - indexed[f.box][a])
            - Underway(Payments, a)]

\* The balances are those the call began with, less and more what it has
\* moved. When a lock is being released the frame names its recipient, and
\* no longer who was paid the contents.
BalancesFollow(f) ==
    IF f.op \in Payments
    THEN \E to \in Holder :
            /\ f.pc # "releasing" => to = PayeeOf(f)
            /\ bank = Moved(f.pre.bank, PayerOf(f), to, MovedSoFar(f))
    ELSE bank = f.pre.bank

\* What has left the one box is in the other.
MovesWhole(f) ==
    OwnStandard /\ f.op = "transferBetweenBoxes" =>
        \A a \in Asset :
            indexed[f.box][a] + indexed[f.dest][a] =
                f.pre.indexed[f.box][a] + f.pre.indexed[f.dest][a]

EffectSoFar(f) ==
    /\ BalancesFollow(f)
    /\ MovesWhole(f)
    /\ lockedDestructionEnd = f.pre.lockedDestructionEnd
    /\ f.op = "destroy" => f.box \notin f.pre.destroyedBoxes
    /\ f.op \in MintOp => f.to # <<>>

EffectInv == stack # <<>> => EffectSoFar(stack[1])

WholeInv ==
    IInv /\ RightsInv /\ MintInv /\ CustodyInv /\ StrandedInv /\ EffectInv
=============================================================================
