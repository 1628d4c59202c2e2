\* The deployment's summary, printed by a run that ends well.
SPECIFICATION FairSpec
CONSTANTS
    Scripts = {"deploy"}
    MaxRuns = 1
    Base = 2
    WordDigits = 4
    AddressDigits = 2
    AddTypeArguments <- SomeTypes
    MintArguments <- NoArguments
    MintByTypeArguments <- NoArguments
    CutAt = {}
    Tails <- NoArguments
INVARIANTS SummaryListsTypes
CHECK_DEADLOCK FALSE
