---------------------------- MODULE EnumerableMap ----------------------------
(***************************************************************************)
(* OpenZeppelin's EnumerableMap (templates/EnumerableMap.js): a set of     *)
(* keys and a mapping to their values, in which a missing value and zero   *)
(* look alike.  The set is a Bytes32Set under the conversions of the keys, *)
(* which are those of a typed set: so the keys are an EnumerableSet whose  *)
(* type is the key's, and its variables are `_keys` of the source.         *)
(***************************************************************************)
EXTENDS EnumerableSet

CONSTANT ValueType      \* SetType is the type of the keys

ASSUME MapTypeAssumption == ValueType \in ElementType

VARIABLES
    mapped,             \* `_values` of the source, word to word
    given               \* value argument of the last set()

mapVars == <<vars, mapped, given>>

MapInit ==
    /\ Init
    /\ mapped = [w \in Word |-> 0]
    /\ given = 0

\* Mutant: only a new key gets its value.
set_NewOnly(k, v) ==
    LET key == toBytes32(SetType, k) IN
    /\ mapped' = IF contains(k) THEN mapped
                 ELSE [mapped EXCEPT ![key] = toBytes32(ValueType, v)]
    /\ add(k)

set(k, v) ==
    /\ mapped' = [mapped EXCEPT ![toBytes32(SetType, k)] = toBytes32(ValueType, v)]
    /\ add(k)

\* Mutant: the value of a removed key stays.
removeKey_KeepsValue(k) == UNCHANGED mapped /\ remove(k)

\* remove() of a map.
removeKey(k) ==
    /\ mapped' = [mapped EXCEPT ![toBytes32(SetType, k)] = 0]
    /\ remove(k)

\* at() of a map: a pair.
pairAt(i) == <<at(i), fromBytes32(ValueType, mapped[_at(i)])>>

\* contains() is asked only when the value is zero, by tryGet and by get's
\* require alike.
tryGet(k) ==
    LET value == mapped[toBytes32(SetType, k)] IN
    IF value = 0 THEN <<contains(k), 0>> ELSE <<TRUE, fromBytes32(ValueType, value)>>
getAllowed(k) == mapped[toBytes32(SetType, k)] # 0 \/ contains(k)
get(k) == fromBytes32(ValueType, mapped[toBytes32(SetType, k)])

MapNext ==
    \E k \in Element(SetType) :
        /\ asked' = k
        /\ \/ removeKey(k) /\ UNCHANGED given
           \/ \E v \in Element(ValueType) : set(k, v) /\ given' = v

MapSpec == MapInit /\ [][MapNext]_mapVars

-----------------------------------------------------------------------------
(* Properties *)

\* The ways to ask for a key agree, also when its value is zero and when it
\* was removed: get() reverts for exactly the keys that tryGet() and
\* contains() say are missing, and at() gives exactly the pairs that tryGet()
\* finds (EnumerableMap.js:113-168).
GettersAgree ==
    \A k \in Element(SetType) :
        /\ tryGet(k)[1] = contains(k)
        /\ getAllowed(k) = contains(k)
        /\ tryGet(k)[2] = get(k)
        /\ tryGet(k)[1] <=> \E i \in 1..length : pairAt(i) = <<k, get(k)>>

AbstractMap == INSTANCE AbstractMap WITH
    Key <- Element(SetType), Value <- Element(ValueType),
    map <- [k \in {x \in Element(SetType) : tryGet(x)[1]} |-> tryGet(k)[2]],
    changed <- result

\* What can be seen through the generated functions is a partial function.
RefinesMap == AbstractMap!Spec
=============================================================================
