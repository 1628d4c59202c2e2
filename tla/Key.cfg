\* Numbers of two bits: supply and allowances reach their limit.
SPECIFICATION Spec
CONSTANTS
    cryptotreasure = cryptotreasure
    deployer = deployer
    player = player
    Account = {cryptotreasure, deployer, player}
    Zero = Zero
    UintMax = 3
    Amounts = {0, 1, 3}
    Grants <- SomeGrants
    MintLists <- SomeLists
INVARIANTS TypeOK SupplyIsHeld
PROPERTIES TakenByRight NoAdminNoMint
