---------------------------- MODULE Bytes32Words ----------------------------
(***************************************************************************)
(* The conversions that OpenZeppelin's generator scripts wrap around a     *)
(* container of bytes32, for elements of another type (conversion.js).     *)
(* A word is the number its bits stand for.                                *)
(***************************************************************************)
EXTENDS Integers

CONSTANTS WordMax, AddressMax       \* the largest bytes32, and address

ASSUME WidthAssumption ==
    WordMax \in Nat /\ AddressMax \in Nat /\ AddressMax <= WordMax

ElementType == {"bytes32", "uint256", "address"}
Word == 0..WordMax
Element(type) == IF type = "address" THEN 0..AddressMax ELSE Word

\* Widening fills with zeros.
toBytes32(type, value) == value

\* Narrowing keeps the low bits.
fromBytes32(type, word) ==
    IF type = "address" THEN word % (AddressMax + 1) ELSE word
=============================================================================
