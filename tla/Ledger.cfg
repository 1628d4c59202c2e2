\* Transactions with callbacks, as steps of the abstract ledger, over two
\* timestamps: time locks, dates of destruction, restrictions.
SPECIFICATION FairSpec
CONSTANTS
    alice = alice
    mallory = mallory
    eth = eth
    gold = gold
    nft = nft
    multi = multi
    Account = {alice, mallory}
    Contract = {mallory}
    Self = Self
    Nobody = Nobody
    Deployer = alice
    Asset = {eth, gold}
    Eth = eth
    Kind <- MCKind
    Box = {1, 2}
    TypeId = {0, 1}
    InitialBank <- Bank20
    UintMax = 9
    MaxTime = 1
    MaxDepth = 2
    Approvees = {}
    OperatorPairs = {}
    Receivers = {mallory}
    RoleAccounts = {}
    LockTimes = {1, 2}
    Restrictions = {TRUE}
    TypeBatches <- LockedDelayedType
    Recipients <- AnyoneAndBatch
    MintRestrictions = {FALSE}
    Requests <- OneGold
    Payees = {alice, mallory}
    Donations = {}
INVARIANTS WholeInv
PROPERTIES RefinesLedger WithdrawalReachesItsPayee MinterSetsRestriction LockedBoxIsFrozen DestroyedByRight ContractIsReleased
