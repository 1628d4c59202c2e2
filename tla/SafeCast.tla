------------------------------ MODULE SafeCast ------------------------------
(***************************************************************************)
(* OpenZeppelin's SafeCast (templates/SafeCast.js), which Checkpoints uses *)
(* for keys and values.  A register is the bits of an integer of some      *)
(* type.  The casts of the language keep the low bits and never fail; the  *)
(* library's require is what must keep the number.                         *)
(***************************************************************************)
EXTENDS Integers

CONSTANTS
    FullLength,     \* 256
    LENGTHS         \* the shorter lengths: 8, 16, ..., 248

ASSUME LengthAssumption ==
    FullLength \in Nat \ {0} /\ LENGTHS \subseteq 1..(FullLength - 1)

VARIABLES
    argument,       \* of the call
    outcome         \* what it came to

castVars == <<argument, outcome>>

Register ==
    {r \in [signed : BOOLEAN, length : LENGTHS \cup {FullLength},
            bits : 0..(2 ^ FullLength - 1)] : r.bits < 2 ^ r.length}

\* The number a register stands for: two's complement.
Number(r) ==
    IF r.signed /\ r.bits >= 2 ^ (r.length - 1) THEN r.bits - 2 ^ r.length ELSE r.bits

MaxOf(signed, n) == IF signed THEN 2 ^ (n - 1) - 1 ELSE 2 ^ n - 1
MinOf(signed, n) == IF signed THEN -(2 ^ (n - 1)) ELSE 0

\* The language's uintN(value) and intN(value), also between signed and
\* unsigned of one length.
Cast(r, signed, n) == [signed |-> signed, length |-> n, bits |-> r.bits % (2 ^ n)]

-----------------------------------------------------------------------------
(* The four kinds of function: what each requires, and what it returns *)

\* Mutant: the comparison is of the bits that were kept.
toIntDownCastAllowed_Bits(r, n) == r.bits < 2 ^ n

toUintDownCastAllowed(r, n) == Number(r) <= MaxOf(FALSE, n)
toIntDownCastAllowed(r, n) == Number(Cast(r, TRUE, n)) = Number(r)
toIntAllowed(r) == r.bits <= MaxOf(TRUE, r.length)
toUintAllowed(r) == Number(r) >= 0

\* A cast to a register, or its revert.
Came(allowed, r) == outcome' = [done |-> TRUE, reverted |-> ~allowed, register |-> r]

toUintDownCast(n) ==
    /\ ~argument.signed
    /\ Came(toUintDownCastAllowed(argument, n), Cast(argument, FALSE, n))
toIntDownCast(n) ==
    /\ argument.signed
    /\ Came(toIntDownCastAllowed(argument, n), Cast(argument, TRUE, n))
toInt ==
    /\ ~argument.signed
    /\ Came(toIntAllowed(argument), Cast(argument, TRUE, FullLength))
toUint ==
    /\ argument.signed
    /\ Came(toUintAllowed(argument), Cast(argument, FALSE, FullLength))

-----------------------------------------------------------------------------
(* One call after another *)

Uncalled == [done |-> FALSE]

CastInit ==
    /\ argument = [signed |-> FALSE, length |-> FullLength, bits |-> 0]
    /\ outcome = Uncalled

NextArgument ==
    /\ outcome.done
    /\ argument' \in {r \in Register : r.length = FullLength}
    /\ outcome' = Uncalled

CastNext ==
    \/ /\ ~outcome.done
       /\ toInt \/ toUint \/ \E n \in LENGTHS : toUintDownCast(n) \/ toIntDownCast(n)
       /\ UNCHANGED argument
    \/ NextArgument

CastSpec == CastInit /\ [][CastNext]_castVars

-----------------------------------------------------------------------------
(* Properties *)

\* A cast returns the number it was given, or reverts because the target type
\* has no such number, whatever the lengths and the signs: none is changed
\* without a word and none is refused that fits (SafeCast.js, "reverting on
\* overflow").
CastsAreExact ==
    outcome.done =>
        LET r == outcome.register IN
        IF Number(argument) \in MinOf(r.signed, r.length)..MaxOf(r.signed, r.length)
        THEN ~outcome.reverted /\ Number(r) = Number(argument)
        ELSE outcome.reverted
=============================================================================
