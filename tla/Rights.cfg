\* Approvals, sales of boxes and restrictions, inside and outside callbacks.
SPECIFICATION Spec
CONSTANTS
    alice = alice
    mallory = mallory
    eth = eth
    gold = gold
    nft = nft
    multi = multi
    Account = {alice, mallory}
    Contract = {mallory}
    Self = Self
    Nobody = Nobody
    Deployer = alice
    Asset = {eth, gold}
    Eth = eth
    Kind <- MCKind
    Box = {1, 2}
    TypeId = {0, 1}
    InitialBank <- Bank10
    UintMax = 9
    MaxTime = 0
    MaxDepth = 2
    Approvees = {mallory, Nobody}
    OperatorPairs <- AliceTrustsMallory
    Receivers = {alice, mallory}
    RoleAccounts = {}
    LockTimes = {}
    Restrictions = {TRUE, FALSE}
    TypeBatches <- OneType
    Recipients <- OneAlice
    MintRestrictions = {FALSE}
    Requests <- OneGold
    Payees = {mallory}
    Donations = {}
INVARIANTS UnmintedIsFresh
PROPERTIES ContentsLeaveByRight ContentsEnterByRight
