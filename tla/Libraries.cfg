\* AddressToUintMap, whose keys are an AddressSet: three addresses, in words
\* that hold more, zero among the addresses and the values.  A Trace of up to
\* seven keys, a History of up to seven blocks and one past the largest key,
\* values of one bit and one too large.  Casts of numbers of six bits.
SPECIFICATION FairSpec
CONSTANTS
    WordMax = 4
    AddressMax = 2
    SetType = "address"
    ValueType = "uint256"
    KeyMax = 6
    ValueMax = 1
    PushedValues = {0, 1, 2}
    MaxBlock = 7
    FullLength = 6
    LENGTHS = {1, 3, 5}
INVARIANTS Indexed EnumeratesOnce GettersAgree LookupsRight IInv CastsAreExact
PROPERTIES OnlyLastMoves RefinesSet RefinesMap OnlyTipChanges PastIsFixed SearchEnds
