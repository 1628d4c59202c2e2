---------------------------- MODULE EnumerableSet ----------------------------
(***************************************************************************)
(* OpenZeppelin's EnumerableSet, as scripts/generate/templates/            *)
(* EnumerableSet.js writes it: an array of the elements, a mapping from an *)
(* element to its position plus one, removal by swapping with the last.    *)
(* Positions are those of the source plus one: sequences begin at 1.       *)
(***************************************************************************)
EXTENDS Bytes32Words, Sequences, FiniteSets

CONSTANT SetType        \* the type of the elements: one of TYPES

ASSUME SetTypeAssumption == SetType \in ElementType

VARIABLES
    _values,            \* array of words
    _indexes,           \* position of a word in _values, 0 for none
    asked,              \* argument of the last add or remove ...
    result              \* ... and what it returned

vars == <<_values, _indexes, asked, result>>

Init ==
    /\ _values = <<>>
    /\ _indexes = [w \in Word |-> 0]
    /\ asked = 0
    /\ result = FALSE

_contains(w) == _indexes[w] # 0
_length == Len(_values)
_at(i) == _values[i]

\* Mutant: a value is pushed whether or not it is there.
_add_Again(w) ==
    /\ _values' = Append(_values, w)
    /\ _indexes' = [_indexes EXCEPT ![w] = Len(_values')]
    /\ result' = TRUE

_add(w) ==
    IF ~_contains(w)
    THEN /\ _values' = Append(_values, w)
         /\ _indexes' = [_indexes EXCEPT ![w] = Len(_values')]
         /\ result' = TRUE
    ELSE UNCHANGED <<_values, _indexes>> /\ result' = FALSE

Front(s) == SubSeq(s, 1, Len(s) - 1)

\* Mutants: the moved value keeps its old index; the index of the removed
\* value is deleted first, and written again when it is the last; the array
\* is turned round.
_remove_StaleIndex(w) ==
    IF _contains(w)
    THEN /\ _values' = Front([_values EXCEPT ![_indexes[w]] = _values[_length]])
         /\ _indexes' = [_indexes EXCEPT ![w] = 0]
         /\ result' = TRUE
    ELSE UNCHANGED <<_values, _indexes>> /\ result' = FALSE
_remove_DeletesFirst(w) ==
    IF _contains(w)
    THEN LET lastValue == _values[_length]
             valueIndex == _indexes[w]
         IN  /\ _values' = Front([_values EXCEPT ![valueIndex] = lastValue])
             /\ _indexes' = [_indexes EXCEPT ![w] = 0, ![lastValue] = valueIndex]
             /\ result' = TRUE
    ELSE UNCHANGED <<_values, _indexes>> /\ result' = FALSE
_remove_Reversed(w) ==
    IF _contains(w)
    THEN LET n == _length - 1
             kept == Front([_values EXCEPT ![_indexes[w]] = _values[_length]])
         IN  /\ _values' = [i \in 1..n |-> kept[n + 1 - i]]
             /\ _indexes' = [x \in Word |->
                    IF \E i \in 1..n : _values'[i] = x
                    THEN CHOOSE i \in 1..n : _values'[i] = x ELSE 0]
             /\ result' = TRUE
    ELSE UNCHANGED <<_values, _indexes>> /\ result' = FALSE

\* The last value takes the place of the removed one; when w is the last,
\* its place is dropped and its index deleted after all.
_remove(w) ==
    IF _contains(w)
    THEN LET lastValue == _values[_length]
             valueIndex == _indexes[w]
         IN  /\ _values' = Front([_values EXCEPT ![valueIndex] = lastValue])
             /\ _indexes' = [_indexes EXCEPT ![lastValue] = valueIndex, ![w] = 0]
             /\ result' = TRUE
    ELSE UNCHANGED <<_values, _indexes>> /\ result' = FALSE

-----------------------------------------------------------------------------
(* What the generated AddressSet, UintSet and Bytes32Set offer *)

add(v) == _add(toBytes32(SetType, v))
remove(v) == _remove(toBytes32(SetType, v))
contains(v) == _contains(toBytes32(SetType, v))
length == _length
at(i) == fromBytes32(SetType, _at(i))
values == {at(i) : i \in 1..length}

Next == \E v \in Element(SetType) : (add(v) \/ remove(v)) /\ asked' = v

Spec == Init /\ [][Next]_vars

-----------------------------------------------------------------------------
(* Properties *)

\* The variables have the types the library declares.
TypeOK ==
    /\ _values \in Seq(Word)
    /\ _indexes \in [Word -> Nat]
    /\ result \in BOOLEAN

\* The array and the index stay inverse of each other through every mix of
\* additions, swaps and pops (_add, _remove).
Indexed ==
    /\ TypeOK
    /\ \A w \in Word : _contains(w) =>
          _indexes[w] <= _length /\ _at(_indexes[w]) = w
    /\ \A i \in 1.._length : _indexes[_at(i)] = i

\* Enumerating by length() and at() meets each element contains() knows
\* exactly once and nothing else, in the element's own type, also when the
\* last element was the one removed (EnumerableSet.js:96-121).
EnumeratesOnce ==
    /\ values = {v \in Element(SetType) : contains(v)}
    /\ \A i, j \in 1..length : at(i) = at(j) => i = j

\* A caller that walks the array from its end may remove what it meets:
\* a removal moves only the last element (EnumerableSet.js:96-98, "This
\* modifies the order of the array").
OnlyLastMoves ==
    [][\A w \in Word :
          _contains(w) /\ _contains(w)' /\ _indexes'[w] # _indexes[w] =>
              _indexes[w] = _length /\ _length' = _length - 1]_vars

Abstract == INSTANCE AbstractSet WITH
    Member <- Element(SetType), members <- values, changed <- result

\* What can be seen through the generated functions is a set.
RefinesSet == Abstract!Spec
=============================================================================
