\* Overlapping ranges, reserves, start dates, batches and changes of roles.
SPECIFICATION Spec
CONSTANTS
    alice = alice
    mallory = mallory
    eth = eth
    gold = gold
    nft = nft
    multi = multi
    Account = {alice, mallory}
    Contract = {mallory}
    Self = Self
    Nobody = Nobody
    Deployer = alice
    Asset = {eth, gold}
    Eth = eth
    Kind <- MCKind
    Box = {0, 1, 2, 3, 4}
    TypeId = {0, 1, 2}
    InitialBank <- Bank20
    UintMax = 9
    MaxTime = 1
    MaxDepth = 2
    Approvees = {Nobody}
    OperatorPairs = {}
    Receivers = {}
    RoleAccounts = {alice, mallory}
    LockTimes = {}
    Restrictions = {}
    TypeBatches <- OverlappingTypes
    Recipients <- AnyoneAndBatch
    MintRestrictions = {TRUE}
    Requests = {}
    Payees = {}
    Donations = {}
INVARIANTS MintedInRange
PROPERTIES MintPolicyKept TermsAreFixed
