\* utils.ts: every field at its extremes, cut at every byte, with and without a
\* tail.  deploy-localhost.ts: a node that mines at once or when it likes, one
\* run broken off before.
SPECIFICATION FairSpec
CONSTANTS
    Scripts = {"utils", "deploy"}
    MaxRuns = 2
    Base = 2
    WordDigits = 4
    AddressDigits = 2
    AddTypeArguments <- SomeTypes
    MintArguments <- SomeMints
    MintByTypeArguments <- SomeMintsByType
    CutAt = {0, 1, 2, 3, 4, 5, 6, 7, 8, 9}
    Tails <- Junk
INVARIANTS DecodedAsEncoded ParsedTermsRight ExitCodeTells
PROPERTIES SentToStanding Finishes
CHECK_DEADLOCK FALSE
