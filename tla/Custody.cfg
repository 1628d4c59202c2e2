\* Contents and mint locks of two boxes, every order of the operations; numbers
\* of two bits, which the locks of a batch can exceed.
SPECIFICATION Spec
CONSTANTS
    alice = alice
    mallory = mallory
    eth = eth
    gold = gold
    nft = nft
    multi = multi
    Account = {alice, mallory}
    Contract = {mallory}
    Self = Self
    Nobody = Nobody
    Deployer = alice
    Asset = {eth, gold, nft}
    Eth = eth
    Kind <- MCKind
    Box = {1, 2}
    TypeId = {0, 1, 2}
    InitialBank <- Bank21
    UintMax = 3
    MaxTime = 0
    MaxDepth = 2
    Approvees = {Nobody}
    OperatorPairs = {}
    Receivers = {}
    RoleAccounts = {}
    LockTimes = {}
    Restrictions = {}
    TypeBatches <- LargeLock
    Recipients <- AnyoneAndBatch
    MintRestrictions = {FALSE}
    Requests <- CustodyRequests
    Payees = {alice, mallory, Self}
    Donations = {}
INVARIANTS TypeOK GuardHolds NothingStranded
