------------------------------ MODULE TypeData ------------------------------
(***************************************************************************)
(* The data argument of addType, safeMint and the mints by type: written   *)
(* by script/utils.ts, read by contracts/Bytes.sol, and read back from the *)
(* NewType event by parseDataTypes.  Data is a sequence of hex digits, two *)
(* of them a byte; words, addresses and the base are small in an instance. *)
(***************************************************************************)
EXTENDS Integers, SequencesExt

CONSTANTS
    Base,               \* 16
    WordDigits,         \* 64
    AddressDigits,      \* 40
    AddTypeArguments, MintArguments, MintByTypeArguments,
    CutAt,              \* lengths, in bytes, data is cut at
    Tails               \* bytes that follow the data

ASSUME LayoutAssumption ==
    /\ Base \in Nat \ {0, 1}
    /\ \A w \in {WordDigits, AddressDigits} : w \in Nat \ {0} /\ w % 2 = 0

VARIABLES arguments, data, decoded, parsed

dataVars == <<arguments, data, decoded, parsed>>

Refused == [fn |-> "e0"]
Nothing == [fn |-> "none"]

Number(digits) ==
    FoldLeft(LAMBDA n, d : n * Base + d, 0, digits)

\* A number padded with zeros on the left; a longer one is an error.
hexZeroPad(n, w) == [i \in 1..w |-> (n \div Base ^ (w - i)) % Base]
Fits(n, w) == n < Base ^ w

toBytes32(n) == hexZeroPad(n, WordDigits)
toByte1(n) == hexZeroPad(n, 2)
Flag(restriction) == IF restriction THEN 1 ELSE 0

mintParamToBytes(typeId, restriction) ==
    toBytes32(typeId) \o toByte1(Flag(restriction))
mintByTypeParamToBytes(restriction) == toByte1(Flag(restriction))

\* Mutant: the two durations change places.
addTypeParamToBytes_Swapped(a) ==
    hexZeroPad(a.addressErc20ToLock, AddressDigits)
        \o toBytes32(a.amountToLock) \o toBytes32(a.mintingDurationLock)
        \o toBytes32(a.durationLockDestroy) \o toBytes32(a.numberReserved)

addTypeParamToBytes(a) ==
    hexZeroPad(a.addressErc20ToLock, AddressDigits)
        \o toBytes32(a.amountToLock) \o toBytes32(a.durationLockDestroy)
        \o toBytes32(a.mintingDurationLock) \o toBytes32(a.numberReserved)

\* Mutant: the last position is taken as part of the slice.
slice_Inclusive(s, first, last) ==
    SubSeq(s, first - 1, IF last - 1 < Len(s) THEN last - 1 ELSE Len(s))

\* JavaScript's slice: characters first..last - 1, "0x" being two of them.
slice(s, first, last) == SubSeq(s, first - 1, IF last - 2 < Len(s) THEN last - 2 ELSE Len(s))

\* The five positions are 2, 43, 106, 170 and 234 in the source.
parseDataTypes(s) ==
    LET amountAt == 2 + AddressDigits + 1
        wordAt(n) == 2 + AddressDigits + n * WordDigits
        word(first) == Number(slice(s, first, first + WordDigits))
    IN  [addressErc20ToLock |-> Number(slice(s, 2, 2 + AddressDigits)),
         amountToLock |-> word(amountAt),
         durationLockDestroy |-> word(wordAt(1)),
         mintingDurationLock |-> word(wordAt(2)),
         numberReserved |-> word(wordAt(3))]

-----------------------------------------------------------------------------
(* Bytes.sol; offsets and lengths in bytes *)

WordBytes == WordDigits \div 2
AddressBytes == AddressDigits \div 2
ByteLength(s) == Len(s) \div 2

Holds(s, from, n) == ByteLength(s) >= from + n

BytesFrom(s, from, n) == SubSeq(s, 2 * from + 1, 2 * (from + n))
_bytesToUint256(s, from) == Number(BytesFrom(s, from, WordBytes))
_bytesToUint8(s, from) == Number(BytesFrom(s, from, 1))
_bytesToAddress(s, from) == Number(BytesFrom(s, from, AddressBytes))

\* Where addType finds each field: 0, 20, 52, 84 and 116.
DecodeAddType(s) ==
    LET word(n) == AddressBytes + n * WordBytes IN
    IF Holds(s, 0, AddressBytes) /\ \A n \in 0..3 : Holds(s, word(n), WordBytes)
    THEN [fn |-> "addType",
          addressErc20ToLock |-> _bytesToAddress(s, 0),
          amountToLock |-> _bytesToUint256(s, word(0)),
          durationLockDestroy |-> _bytesToUint256(s, word(1)),
          mintingDurationLock |-> _bytesToUint256(s, word(2)),
          numberReserved |-> _bytesToUint256(s, word(3))]
    ELSE Refused
DecodeMint(s) ==
    IF Holds(s, 0, WordBytes) /\ Holds(s, WordBytes, 1)
    THEN [fn |-> "safeMint", typeId |-> _bytesToUint256(s, 0),
          restriction |-> _bytesToUint8(s, WordBytes) = 1]
    ELSE Refused
DecodeMintByType(s) ==
    IF Holds(s, 0, 1)
    THEN [fn |-> "safeMintByType", restriction |-> _bytesToUint8(s, 0) = 1]
    ELSE Refused

-----------------------------------------------------------------------------
(* A call: its data is written, perhaps cut or followed by more, and read. *)

Encoded(a) ==
    CASE a.fn = "addType" -> addTypeParamToBytes(a)
      [] a.fn = "safeMint" -> mintParamToBytes(a.typeId, a.restriction)
      [] a.fn = "safeMintByType" -> mintByTypeParamToBytes(a.restriction)

DataInit ==
    /\ arguments \in AddTypeArguments \cup MintArguments \cup MintByTypeArguments
    /\ data = <<>> /\ decoded = Nothing /\ parsed = Nothing

\* toBytes32 and toByte1 throw on a number that is too long.
Encode ==
    /\ data = <<>> /\ decoded = Nothing
    /\ arguments.fn = "addType" =>
          \A n \in {arguments.amountToLock, arguments.durationLockDestroy,
                    arguments.mintingDurationLock, arguments.numberReserved} :
              Fits(n, WordDigits)
    /\ arguments.fn = "safeMint" => Fits(arguments.typeId, WordDigits)
    /\ data' = Encoded(arguments)
    /\ UNCHANGED <<arguments, decoded, parsed>>

Cut(n) ==
    /\ decoded = Nothing /\ n < ByteLength(data)
    /\ data' = SubSeq(data, 1, 2 * n)
    /\ UNCHANGED <<arguments, decoded, parsed>>
Follow(tail) ==
    /\ decoded = Nothing /\ data = Encoded(arguments)
    /\ data' = data \o tail
    /\ UNCHANGED <<arguments, decoded, parsed>>

Decode ==
    /\ decoded = Nothing
    /\ decoded' = CASE arguments.fn = "addType" -> DecodeAddType(data)
                    [] arguments.fn = "safeMint" -> DecodeMint(data)
                    [] arguments.fn = "safeMintByType" -> DecodeMintByType(data)
    /\ UNCHANGED <<arguments, data, parsed>>

\* The data of a type that was added is emitted as it came.
Parse ==
    /\ arguments.fn = "addType"
    /\ decoded \notin {Nothing, Refused} /\ parsed = Nothing
    /\ parsed' = parseDataTypes(data)
    /\ UNCHANGED <<arguments, data, decoded>>

DataNext ==
    \/ Encode \/ Decode \/ Parse
    \/ \E n \in CutAt : Cut(n)
    \/ \E tail \in Tails : Follow(tail)

DataSpec == DataInit /\ [][DataNext]_dataVars

-----------------------------------------------------------------------------
(* Properties *)

\* What the scripts write is what the contract reads, field by field, also
\* with bytes after it; data that lacks any part is refused as a whole, by
\* the length tests of Bytes (e0).
DecodedAsEncoded ==
    decoded # Nothing =>
        decoded = IF Len(data) < Len(Encoded(arguments)) THEN Refused ELSE arguments

\* Reading a type back gives its token, durations and reserve
\* (utils.ts:34, parseDataTypes).
ParsedTermsRight ==
    parsed # Nothing =>
        /\ parsed.addressErc20ToLock = arguments.addressErc20ToLock
        /\ parsed.durationLockDestroy = arguments.durationLockDestroy
        /\ parsed.mintingDurationLock = arguments.mintingDurationLock
        /\ parsed.numberReserved = arguments.numberReserved

\* "the amount to lock (in following 32 bytes)", after the first 20
\* (CryptoTreasure.sol:215-216): reading a type back gives its amount as well.
ParsedAmountRight ==
    parsed # Nothing => parsed.amountToLock = arguments.amountToLock
=============================================================================
