\* Tokens called by a wrong standard, plain transfers to the contract, boxes
\* given to it or to a contract, also in the middle of a destroy.
SPECIFICATION Spec
CONSTANTS
    alice = alice
    mallory = mallory
    eth = eth
    gold = gold
    nft = nft
    multi = multi
    Account = {alice, mallory}
    Contract = {mallory}
    Self = Self
    Nobody = Nobody
    Deployer = alice
    Asset = {eth, gold, nft, multi}
    Eth = eth
    Kind <- MCKind
    Box = {1, 2}
    TypeId = {0, 1}
    InitialBank <- HostileBank
    UintMax = 9
    MaxTime = 0
    MaxDepth = 2
    Approvees = {Nobody}
    OperatorPairs = {}
    Receivers = {mallory, Self}
    RoleAccounts = {}
    LockTimes = {}
    Restrictions = {}
    TypeBatches <- LockedType
    Recipients <- OneAlice
    MintRestrictions = {FALSE}
    Requests <- HostileRequests
    Payees = {mallory}
    Donations = {nft}
INVARIANTS Solvent OneBoxPerNFT
