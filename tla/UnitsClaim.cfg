\* An ERC1155 token transferred between boxes as if it were an ERC721.
SPECIFICATION Spec
CONSTANTS
    alice = alice
    mallory = mallory
    eth = eth
    gold = gold
    nft = nft
    multi = multi
    Account = {alice, mallory}
    Contract = {mallory}
    Self = Self
    Nobody = Nobody
    Deployer = alice
    Asset = {eth, multi, gold}
    Eth = eth
    Kind <- MCKind
    Box = {1, 2}
    TypeId = {0, 1}
    InitialBank <- Bank21
    UintMax = 9
    MaxTime = 0
    MaxDepth = 2
    Approvees = {Nobody}
    OperatorPairs = {}
    Receivers = {}
    RoleAccounts = {}
    LockTimes = {}
    Restrictions = {}
    TypeBatches <- OneType
    Recipients <- OneAlice
    MintRestrictions = {FALSE}
    Requests <- OneMulti
    Payees = {mallory}
    Donations = {}
INVARIANTS TransferKeepsUnits
