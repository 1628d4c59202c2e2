\* A type with an amount, read back.
SPECIFICATION FairSpec
CONSTANTS
    Scripts = {"utils"}
    MaxRuns = 1
    Base = 2
    WordDigits = 4
    AddressDigits = 2
    AddTypeArguments <- SomeTypes
    MintArguments <- NoArguments
    MintByTypeArguments <- NoArguments
    CutAt = {}
    Tails <- NoArguments
INVARIANTS ParsedAmountRight
CHECK_DEADLOCK FALSE
