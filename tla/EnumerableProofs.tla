-------------------------- MODULE EnumerableProofs --------------------------
(***************************************************************************)
(* EnumerableSet keeps its array and its index inverse of each other and   *)
(* implements a set, and EnumerableMap implements a partial function, for  *)
(* words and addresses of any width.                                       *)
(***************************************************************************)
EXTENDS EnumerableMap, SequenceTheorems, TLAPS

\* Narrowing undoes widening for every element of the set's type.
LEMMA RoundTrip ==
    ASSUME NEW v \in Element(SetType)
    PROVE  /\ toBytes32(SetType, v) \in Word
           /\ fromBytes32(SetType, toBytes32(SetType, v)) = v
<1>1. CASE SetType = "address"
  <2>1. v \in 0..AddressMax
    BY <1>1 DEF Element
  <2>2. v % (AddressMax + 1) = v
    BY <2>1, WidthAssumption, SMTT(30)
  <2> QED
    BY <1>1, <2>1, <2>2, WidthAssumption
       DEF toBytes32, fromBytes32, Word
<1>2. CASE SetType # "address"
  BY <1>2 DEF Element, toBytes32, fromBytes32
<1> QED
  BY <1>1, <1>2

\* Dropping the last element keeps the others where they are.
LEMMA FrontOf ==
    ASSUME NEW S, NEW s \in Seq(S), Len(s) # 0
    PROVE  /\ Front(s) \in Seq(S)
           /\ Len(Front(s)) = Len(s) - 1
           /\ \A i \in 1..(Len(s) - 1) : Front(s)[i] = s[i]
<1> DEFINE m == Len(s) - 1
<1>1. m \in Nat /\ m < Len(s) /\ \A i \in 1..m : s[i] \in S
  OBVIOUS
<1> HIDE DEF m
<1>2. /\ SubSeq(s, 1, m) \in Seq(S)
      /\ Len(SubSeq(s, 1, m)) = IF 1 <= m THEN m - 1 + 1 ELSE 0
      /\ \A i \in 1..(m - 1 + 1) : SubSeq(s, 1, m)[i] = s[1 + i - 1]
  <2>1. 1 \in Int /\ m \in Int
    BY <1>1
  <2> QED
    BY <1>1, <2>1, SubSeqProperties
<1>3. Len(SubSeq(s, 1, m)) = m /\ \A i \in 1..m : SubSeq(s, 1, m)[i] = s[i]
  BY <1>1, <1>2
<1> QED
  BY <1>2, <1>3 DEF Front, m

\* The words in the array are elements of the set's type: nothing else is
\* ever added.
Typed == \A i \in 1.._length : _at(i) \in Element(SetType)

IInv == Indexed /\ Typed

LEMMA InitIInv == Init => IInv
<1> SUFFICES ASSUME Init PROVE IInv
  OBVIOUS
<1>1. _values \in Seq(Word) /\ Len(_values) = 0
  BY DEF Init
<1>2. _indexes \in [Word -> Nat] /\ \A w \in Word : _indexes[w] = 0
  BY DEF Init
<1>3. TypeOK
  BY <1>1, <1>2 DEF Init, TypeOK
<1>4. \A w \in Word : ~_contains(w)
  BY <1>2 DEF _contains
<1>5. 1.._length = {}
  BY <1>1 DEF _length
<1> QED
  BY <1>3, <1>4, <1>5 DEF IInv, Indexed, Typed

LEMMA AddIInv ==
    ASSUME IInv, NEW v \in Element(SetType), add(v)
    PROVE  IInv'
<1> DEFINE w == toBytes32(SetType, v)
<1>1. w \in Word /\ w = v
  BY RoundTrip DEF toBytes32
<1>2. CASE _contains(w)
  <2>1. UNCHANGED <<_values, _indexes>> /\ result' = FALSE
    BY <1>2 DEF add, _add
  <2> QED
    BY <2>1 DEF IInv, Indexed, TypeOK, Typed, _contains, _length, _at
<1>3. CASE ~_contains(w)
  <2>1. /\ _values' = Append(_values, w)
        /\ _indexes' = [_indexes EXCEPT ![w] = Len(_values) + 1]
        /\ result' = TRUE
        /\ _values \in Seq(Word) /\ _indexes \in [Word -> Nat]
    BY <1>1, <1>3 DEF add, _add, IInv, Indexed, TypeOK
  <2>2. /\ _values' \in Seq(Word)
        /\ Len(_values') = Len(_values) + 1
        /\ \A i \in 1..Len(_values) : _values'[i] = _values[i]
        /\ _values'[Len(_values) + 1] = w
    BY <1>1, <2>1
  <2>3. TypeOK'
    BY <1>1, <2>1, <2>2 DEF TypeOK
  <2>4. \A x \in Word : _contains(x)' => _indexes'[x] <= _length' /\ _at(_indexes[x])' = x
    BY <1>1, <2>1, <2>2 DEF IInv, Indexed, TypeOK, _contains, _length, _at
  <2>5. \A i \in 1.._length' : _indexes'[_at(i)'] = i
    <3> TAKE i \in 1.._length'
    <3>1. CASE i = Len(_values) + 1
      BY <3>1, <1>1, <2>1, <2>2 DEF _at
    <3>2. CASE i \in 1..Len(_values)
      BY <3>2, <1>1, <1>3, <2>1, <2>2
         DEF IInv, Indexed, TypeOK, _contains, _length, _at
    <3> QED
      BY <3>1, <3>2, <2>2 DEF _length
  <2>6. Typed'
    BY <1>1, <2>1, <2>2 DEF IInv, Typed, _length, _at
  <2> QED
    BY <2>3, <2>4, <2>5, <2>6 DEF IInv, Indexed
<1> QED
  BY <1>2, <1>3

\* What _remove does to a word that is there, position by position.
LEMMA RemovePresent ==
    ASSUME IInv, NEW w \in Word, _contains(w), _remove(w)
    PROVE  /\ IInv'
           /\ result' = TRUE
           /\ \A x \in Word : _contains(x)' <=> (_contains(x) /\ x # w)
<1> DEFINE n == Len(_values)
           k == _indexes[w]
           last == _values[n]
           moved == [_values EXCEPT ![k] = last]
<1>1. /\ _values \in Seq(Word) /\ _indexes \in [Word -> Nat]
      /\ n \in Nat /\ k \in 1..n /\ _values[k] = w
      /\ last \in Word /\ _indexes[last] = n
  BY DEF IInv, Indexed, TypeOK, _contains, _length, _at
<1>2. /\ moved \in Seq(Word) /\ Len(moved) = n /\ moved[k] = last
      /\ \A i \in 1..n : i # k => moved[i] = _values[i]
  BY <1>1
<1>3. /\ _values' = Front(moved)
      /\ _indexes' = [_indexes EXCEPT ![last] = k, ![w] = 0]
      /\ result' = TRUE
  BY <1>1 DEF _remove, _length
<1> HIDE DEF moved
<1>4. /\ _values' \in Seq(Word) /\ Len(_values') = n - 1
      /\ \A i \in 1..(n - 1) : _values'[i] = IF i = k THEN last ELSE _values[i]
  <2>1. /\ Front(moved) \in Seq(Word) /\ Len(Front(moved)) = Len(moved) - 1
        /\ \A i \in 1..(Len(moved) - 1) : Front(moved)[i] = moved[i]
    BY <1>1, <1>2, FrontOf
  <2>2. \A i \in 1..(n - 1) : moved[i] = IF i = k THEN last ELSE _values[i]
    BY <1>1, <1>2
  <2> HIDE DEF n, k, last
  <2> QED
    BY <2>1, <2>2, <1>2, <1>3
<1>5. /\ _indexes' \in [Word -> Nat]
      /\ \A x \in Word :
            _indexes'[x] = IF x = w THEN 0 ELSE IF x = last THEN k ELSE _indexes[x]
  BY <1>1, <1>3
<1>6. \A x \in Word : _contains(x)' <=> (_contains(x) /\ x # w)
  BY <1>1, <1>5 DEF _contains
<1>7. TypeOK'
  BY <1>3, <1>4, <1>5 DEF TypeOK
<1>8. \A x \in Word : _contains(x)' => _indexes'[x] <= _length' /\ _at(_indexes[x])' = x
  <2> SUFFICES ASSUME NEW x \in Word, _contains(x)'
               PROVE  _indexes'[x] <= _length' /\ _at(_indexes[x])' = x
    OBVIOUS
  <2>1. x # w /\ _contains(x)
    BY <1>6
  <2>2. _indexes[x] \in 1..n /\ _values[_indexes[x]] = x
    BY <2>1, <1>1 DEF IInv, Indexed, _contains, _length, _at
  <2>3. CASE x = last
    <3>1. k # n
      BY <2>1, <2>3, <1>1
    <3>2. _indexes'[x] = k /\ k \in 1..(n - 1)
      BY <3>1, <2>1, <2>3, <1>1, <1>5
    <3>3. _values'[k] = last
      BY <3>2, <1>4
    <3> QED
      BY <3>2, <3>3, <2>3, <1>1, <1>4 DEF _length, _at
  <2>4. CASE x # last
    <3>1. _indexes[x] # n /\ _indexes[x] # k
      BY <2>1, <2>2, <2>4, <1>1
    <3>2. _indexes[x] \in 1..(n - 1) /\ _indexes'[x] = _indexes[x]
      BY <3>1, <2>1, <2>2, <2>4, <1>1, <1>5
    <3>3. _values'[_indexes[x]] = x
      BY <3>1, <3>2, <2>2, <1>4
    <3> QED
      BY <3>2, <3>3, <1>1, <1>4 DEF _length, _at
  <2> QED
    BY <2>3, <2>4
<1>9. \A i \in 1.._length' : _indexes'[_at(i)'] = i
  <2> SUFFICES ASSUME NEW i \in 1..(n - 1)
               PROVE  _indexes'[_values'[i]] = i
    BY <1>4 DEF _length, _at
  <2>1. CASE i = k
    <3>1. last # w
      BY <2>1, <1>1
    <3> QED
      BY <3>1, <2>1, <1>1, <1>4, <1>5
  <2>2. CASE i # k
    <3>1. _values'[i] = _values[i] /\ _values[i] \in Word /\ _indexes[_values[i]] = i
      BY <2>2, <1>1, <1>4 DEF IInv, Indexed, _length, _at
    <3>2. _values[i] # w /\ _values[i] # last
      BY <3>1, <2>2, <1>1
    <3> QED
      BY <3>1, <3>2, <1>5
  <2> QED
    BY <2>1, <2>2
<1>10. Typed'
  <2>1. \A i \in 1..n : _values[i] \in Element(SetType)
    BY DEF IInv, Typed, _length, _at
  <2>2. \A i \in 1..(n - 1) : _values'[i] \in Element(SetType)
    <3> TAKE i \in 1..(n - 1)
    <3>1. _values'[i] = _values[n] \/ _values'[i] = _values[i]
      BY <1>4
    <3>2. i \in 1..n /\ n \in 1..n
      BY <1>1
    <3> QED
      BY <3>1, <3>2, <2>1
  <2> QED
    BY <2>2, <1>4 DEF Typed, _length, _at
<1> QED
  BY <1>3, <1>6, <1>7, <1>8, <1>9, <1>10 DEF IInv, Indexed

LEMMA RemoveAbsent ==
    ASSUME IInv, NEW w \in Word, ~_contains(w), _remove(w)
    PROVE  IInv' /\ UNCHANGED <<_values, _indexes>> /\ result' = FALSE
<1>1. UNCHANGED <<_values, _indexes>> /\ result' = FALSE
  BY DEF _remove
<1> QED
  BY <1>1 DEF IInv, Indexed, TypeOK, Typed, _contains, _length, _at

LEMMA StepIInv == IInv /\ [Next]_vars => IInv'
<1> SUFFICES ASSUME IInv, [Next]_vars PROVE IInv'
  OBVIOUS
<1>1. ASSUME NEW v \in Element(SetType), add(v) PROVE IInv'
  BY <1>1, AddIInv
<1>2. ASSUME NEW v \in Element(SetType), remove(v) PROVE IInv'
  BY <1>2, RoundTrip, RemovePresent, RemoveAbsent DEF remove
<1>3. CASE UNCHANGED vars
  BY <1>3 DEF vars, IInv, Indexed, TypeOK, Typed, _contains, _length, _at
<1> QED
  BY <1>1, <1>2, <1>3 DEF Next

\* The array and its index are inverse of each other, whatever the width of
\* the words and the number of elements (EnumerableSet.js _add, _remove).
THEOREM AlwaysIndexed == Spec => []Indexed
<1>1. IInv => Indexed
  BY DEF IInv
<1> QED
  BY <1>1, InitIInv, StepIInv, PTL DEF Spec

-----------------------------------------------------------------------------
(* What the typed functions show *)

LEMMA AtIsValue ==
    ASSUME IInv, NEW i \in 1..length
    PROVE  at(i) = _values[i] /\ at(i) \in Element(SetType)
           /\ at(i) \in Word
<1>1. _values[i] \in Element(SetType)
  BY DEF IInv, Typed, length, _length, _at
<1> QED
  BY <1>1, RoundTrip DEF at, _at, toBytes32

LEMMA ValuesAreContained ==
    IInv => values = {v \in Element(SetType) : contains(v)}
<1> SUFFICES ASSUME IInv
             PROVE  values = {v \in Element(SetType) : contains(v)}
  OBVIOUS
<1>1. \A i \in 1..length : contains(at(i)) /\ at(i) \in Element(SetType)
  <2> TAKE i \in 1..length
  <2>1. at(i) = _values[i] /\ at(i) \in Element(SetType)
    BY AtIsValue
  <2>2. i # 0 /\ _indexes[_values[i]] = i
    BY DEF IInv, Indexed, TypeOK, length, _length, _at
  <2> QED
    BY <2>1, <2>2 DEF contains, _contains, toBytes32
<1>2. ASSUME NEW v \in Element(SetType), contains(v)
      PROVE  \E i \in 1..length : at(i) = v
  <2>1. v \in Word
    BY RoundTrip DEF toBytes32
  <2>2. _indexes[v] \in 1..length /\ _values[_indexes[v]] = v
    BY <1>2, <2>1
       DEF IInv, Indexed, TypeOK, contains, _contains, toBytes32, length, _length, _at
  <2> QED
    BY <2>2, AtIsValue
<1> QED
  BY <1>1, <1>2 DEF values

LEMMA IInvEnumerates == IInv => EnumeratesOnce
<1> SUFFICES ASSUME IInv PROVE EnumeratesOnce
  OBVIOUS
<1>1. ASSUME NEW i \in 1..length, NEW j \in 1..length, at(i) = at(j)
      PROVE  i = j
  BY <1>1, AtIsValue DEF IInv, Indexed, length, _length, _at
<1> QED
  BY <1>1, ValuesAreContained DEF EnumeratesOnce

\* length() and at() enumerate each element once and nothing else.
THEOREM AlwaysEnumerates == Spec => []EnumeratesOnce
BY IInvEnumerates, InitIInv, StepIInv, PTL DEF Spec

-----------------------------------------------------------------------------
(* Refinement *)

LEMMA InitRefines == Init => Abstract!Init
BY DEF Init, Abstract!Init, values, length, _length

\* The same in the next state.
LEMMA ValuesAreContainedNext ==
    IInv' => values' = {v \in Element(SetType) : contains(v)'}
<1>1. (IInv => values = {v \in Element(SetType) : contains(v)})'
  BY ValuesAreContained, PTL
<1> QED
  BY <1>1

LEMMA AddRefines ==
    ASSUME IInv, NEW v \in Element(SetType), add(v)
    PROVE  Abstract!Add(v)
<1>1. IInv'
  BY AddIInv
<1>2. v \in Word /\ _indexes \in [Word -> Nat] /\ Len(_values) \in Nat
  BY RoundTrip DEF toBytes32, IInv, Indexed, TypeOK
<1>3. result' = ~contains(v)
  BY DEF add, _add, contains
<1>4. ASSUME NEW x \in Element(SetType)
      PROVE  contains(x)' <=> (contains(x) \/ x = v)
  <2>1. x \in Word
    BY RoundTrip DEF toBytes32
  <2>2. CASE contains(v)
    BY <2>2 DEF add, _add, contains, _contains, toBytes32
  <2>3. CASE ~contains(v)
    <3>1. _indexes' = [_indexes EXCEPT ![v] = Len(_values')]
          /\ _values' = Append(_values, v)
      BY <2>3 DEF add, _add, contains, toBytes32
    <3>2. Len(_values') # 0
      BY <3>1, <1>2 DEF IInv, Indexed, TypeOK
    <3> QED
      BY <2>1, <3>1, <3>2, <1>2 DEF contains, _contains, toBytes32
  <2> QED
    BY <2>2, <2>3
<1>5. /\ values = {x \in Element(SetType) : contains(x)}
      /\ values' = {x \in Element(SetType) : contains(x)'}
  BY <1>1, ValuesAreContained, ValuesAreContainedNext
<1>6. values' = values \cup {v}
  BY <1>4, <1>5
<1>7. result' = (v \notin values)
  BY <1>3, <1>5
<1> QED
  BY <1>6, <1>7 DEF Abstract!Add

LEMMA RemoveRefines ==
    ASSUME IInv, NEW v \in Element(SetType), remove(v)
    PROVE  Abstract!Remove(v)
<1>1. v \in Word
  BY RoundTrip DEF toBytes32
<1>2. /\ IInv'
      /\ result' = contains(v)
      /\ \A x \in Word : _contains(x)' <=> (_contains(x) /\ x # v)
  <2>1. CASE _contains(v)
    BY <2>1, <1>1, RemovePresent DEF remove, contains, toBytes32
  <2>2. CASE ~_contains(v)
    BY <2>2, <1>1, RemoveAbsent DEF remove, contains, _contains, toBytes32
  <2> QED
    BY <2>1, <2>2
<1>3. \A x \in Element(SetType) : contains(x)' <=> (contains(x) /\ x # v)
  BY <1>2, RoundTrip DEF contains, toBytes32
<1>4. /\ values = {x \in Element(SetType) : contains(x)}
      /\ values' = {x \in Element(SetType) : contains(x)'}
  BY <1>2, ValuesAreContained, ValuesAreContainedNext
<1>5. values' = values \ {v}
  BY <1>3, <1>4
<1>6. result' = (v \in values)
  BY <1>2, <1>4 DEF contains, _contains
<1> QED
  BY <1>5, <1>6 DEF Abstract!Remove

LEMMA StepRefines == IInv /\ [Next]_vars => [Abstract!Next]_(Abstract!vars)
<1> SUFFICES ASSUME IInv, [Next]_vars
             PROVE  [Abstract!Next]_(Abstract!vars)
  OBVIOUS
<1>1. ASSUME NEW v \in Element(SetType), add(v), asked' = v
      PROVE  Abstract!Next
  BY <1>1, AddRefines DEF Abstract!Next
<1>2. ASSUME NEW v \in Element(SetType), remove(v), asked' = v
      PROVE  Abstract!Next
  BY <1>2, RemoveRefines DEF Abstract!Next
<1>3. CASE UNCHANGED vars
  BY <1>3 DEF vars, Abstract!vars, values, at, _at, length, _length
<1> QED
  BY <1>1, <1>2, <1>3 DEF Next

\* What can be seen through contains(), length(), at() and the results of
\* add() and remove() is a set.
THEOREM ImplementsSet == Spec => RefinesSet
BY InitRefines, InitIInv, StepIInv, StepRefines, PTL
   DEF Spec, RefinesSet, Abstract!Spec

-----------------------------------------------------------------------------
(* Order *)

\* An addition moves nothing, a removal at most the last element.
LEMMA StepMovesLast ==
    ASSUME IInv, [Next]_vars, NEW w \in Word,
           _contains(w), _contains(w)', _indexes'[w] # _indexes[w]
    PROVE  _indexes[w] = _length /\ _length' = _length - 1
<1>1. _indexes \in [Word -> Nat] /\ _values \in Seq(Word)
  BY DEF IInv, Indexed, TypeOK
<1>2. PICK v \in Element(SetType) : add(v) \/ remove(v)
  BY DEF Next, vars
<1>3. v \in Word
  BY RoundTrip DEF toBytes32
<1>4. ~add(v)
  <2> SUFFICES ASSUME add(v) PROVE FALSE
    OBVIOUS
  <2>1. ~_contains(v) /\ _indexes' = [_indexes EXCEPT ![v] = Len(_values')]
    BY DEF add, _add, toBytes32
  <2> QED
    BY <1>1, <1>3, <2>1
<1>5. remove(v) /\ _contains(v)
  BY <1>2, <1>4 DEF remove, _remove, toBytes32
<1>6. PICK n, last, k : n = Len(_values) /\ last = _values[n] /\ k = _indexes[v]
  OBVIOUS
<1>7. /\ _values' = Front([_values EXCEPT ![k] = last])
      /\ _indexes' = [_indexes EXCEPT ![last] = k, ![v] = 0]
  BY <1>5, <1>6 DEF remove, _remove, toBytes32, _length
<1>8. n \in Nat /\ k \in 1..n /\ last \in Word /\ _indexes[last] = n
  BY <1>1, <1>3, <1>5, <1>6 DEF IInv, Indexed, _contains, _length, _at
<1>9. w = last
  BY <1>1, <1>3, <1>7, <1>8 DEF _contains
<1>10. Len(_values') = n - 1
  <2>1. PICK s : s = [_values EXCEPT ![k] = last]
    OBVIOUS
  <2>2. s \in Seq(Word) /\ Len(s) = n /\ n # 0
    BY <1>1, <1>6, <1>8, <2>1
  <2> QED
    BY <1>7, <2>1, <2>2, FrontOf
<1> QED
  BY <1>6, <1>8, <1>9, <1>10 DEF _length

\* A removal moves at most the last element, into the place of the removed
\* one, so that a caller may walk the array from its end and remove
\* (EnumerableSet.js _remove).
THEOREM MovesOnlyLast == Spec => OnlyLastMoves
<1> DEFINE Moves ==
      \A w \in Word :
          _contains(w) /\ _contains(w)' /\ _indexes'[w] # _indexes[w] =>
              _indexes[w] = _length /\ _length' = _length - 1
<1>1. IInv /\ [Next]_vars => [Moves]_vars
  BY StepMovesLast
<1> QED
  BY <1>1, InitIInv, StepIInv, PTL DEF Spec, OnlyLastMoves

-----------------------------------------------------------------------------
(* Maps *)

\* A map is a set of keys with values beside it.
LEMMA MapSteps ==
    /\ MapInit => Init
    /\ [MapNext]_mapVars => [Next]_vars
BY DEF MapInit, MapNext, mapVars, vars, Next, set, removeKey

\* The words beside the keys are values, and zero beside what is no key: the
\* getters take a word that is not zero for a sign that the key is there.
Valued ==
    /\ mapped \in [Word -> Element(ValueType)]
    /\ \A w \in Word : ~_contains(w) => mapped[w] = 0

MapIInv == IInv /\ Valued

\* Narrowing undoes widening for values as well.
LEMMA ValueRoundTrip ==
    ASSUME NEW v \in Element(ValueType)
    PROVE  /\ toBytes32(ValueType, v) = v
           /\ fromBytes32(ValueType, v) = v
<1>1. CASE ValueType = "address"
  <2>1. v \in 0..AddressMax
    BY <1>1 DEF Element
  <2>2. v % (AddressMax + 1) = v
    BY <2>1, WidthAssumption, SMTT(30)
  <2> QED
    BY <1>1, <2>2 DEF toBytes32, fromBytes32
<1>2. CASE ValueType # "address"
  BY <1>2 DEF toBytes32, fromBytes32
<1> QED
  BY <1>1, <1>2

LEMMA InitMapIInv == MapInit => MapIInv
<1> SUFFICES ASSUME MapInit PROVE MapIInv
  OBVIOUS
<1>1. IInv
  BY InitIInv, MapSteps
<1>2. 0 \in Element(ValueType)
  BY WidthAssumption DEF Element, Word
<1> QED
  BY <1>1, <1>2 DEF MapInit, MapIInv, Valued

\* What the two operations do to the keys.
LEMMA KeysAfter ==
    ASSUME IInv, NEW k \in Element(SetType)
    PROVE  /\ k \in Word
           /\ add(k) => \A w \in Word : _contains(w)' <=> (_contains(w) \/ w = k)
           /\ remove(k) => \A w \in Word : _contains(w)' <=> (_contains(w) /\ w # k)
           /\ add(k) => result' = ~_contains(k)
           /\ remove(k) => result' = _contains(k)
<1>1. k \in Word /\ _indexes \in [Word -> Nat] /\ _values \in Seq(Word)
  BY RoundTrip DEF toBytes32, IInv, Indexed, TypeOK
<1>2. ASSUME add(k)
      PROVE  /\ \A w \in Word : _contains(w)' <=> (_contains(w) \/ w = k)
             /\ result' = ~_contains(k)
  <2>1. CASE _contains(k)
    BY <1>2, <2>1 DEF add, _add, _contains, toBytes32
  <2>2. CASE ~_contains(k)
    <3>1. /\ _indexes' = [_indexes EXCEPT ![k] = Len(_values')]
          /\ _values' = Append(_values, k)
          /\ result' = TRUE
      BY <1>2, <2>2 DEF add, _add, toBytes32
    <3>2. Len(_values') # 0
      BY <1>1, <3>1
    <3> QED
      BY <1>1, <2>2, <3>1, <3>2 DEF _contains
  <2> QED
    BY <2>1, <2>2
<1>3. ASSUME remove(k)
      PROVE  /\ \A w \in Word : _contains(w)' <=> (_contains(w) /\ w # k)
             /\ result' = _contains(k)
  <2>1. CASE _contains(k)
    BY <1>1, <1>3, <2>1, RemovePresent DEF remove, toBytes32, _contains
  <2>2. CASE ~_contains(k)
    BY <1>1, <1>3, <2>2, RemoveAbsent DEF remove, toBytes32, _contains
  <2> QED
    BY <2>1, <2>2
<1> QED
  BY <1>1, <1>2, <1>3

LEMMA StepMapIInv == MapIInv /\ [MapNext]_mapVars => MapIInv'
<1> SUFFICES ASSUME MapIInv, [MapNext]_mapVars PROVE MapIInv'
  OBVIOUS
<1>1. IInv'
  BY StepIInv, MapSteps DEF MapIInv
<1>2. ASSUME NEW k \in Element(SetType), NEW v \in Element(ValueType), set(k, v)
      PROVE  Valued'
  <2>1. mapped' = [mapped EXCEPT ![k] = v] /\ add(k)
    BY <1>2, ValueRoundTrip DEF set, toBytes32
  <2> QED
    BY <2>1, KeysAfter DEF MapIInv, Valued
<1>3. ASSUME NEW k \in Element(SetType), removeKey(k) PROVE Valued'
  <2>1. mapped' = [mapped EXCEPT ![k] = 0] /\ remove(k)
    BY <1>3 DEF removeKey, toBytes32
  <2>2. 0 \in Element(ValueType)
    BY WidthAssumption DEF Element, Word
  <2> QED
    BY <2>1, <2>2, KeysAfter DEF MapIInv, Valued
<1>4. ASSUME UNCHANGED mapVars PROVE Valued'
  BY <1>4 DEF mapVars, vars, MapIInv, Valued, _contains
<1>5. Valued'
  BY <1>2, <1>3, <1>4 DEF MapNext
<1> QED
  BY <1>1, <1>5 DEF MapIInv

\* What is asked of a key, in words.
LEMMA Getters ==
    ASSUME MapIInv, NEW k \in Element(SetType)
    PROVE  /\ k \in Word
           /\ contains(k) <=> _contains(k)
           /\ tryGet(k)[1] = _contains(k) /\ tryGet(k)[2] = mapped[k]
           /\ getAllowed(k) = _contains(k) /\ get(k) = mapped[k]
<1>1. k \in Word
  BY RoundTrip DEF toBytes32
<1>2. mapped[k] \in Element(ValueType) /\ (~_contains(k) => mapped[k] = 0)
  BY <1>1 DEF MapIInv, Valued
<1>3. fromBytes32(ValueType, mapped[k]) = mapped[k]
  BY <1>2, ValueRoundTrip
<1>4. contains(k) = _contains(k) /\ _contains(k) \in BOOLEAN
  BY DEF contains, _contains, toBytes32
<1> QED
  BY <1>1, <1>2, <1>3, <1>4 DEF tryGet, getAllowed, get, toBytes32

\* The getters agree with each other and with the enumeration, for keys and
\* values of any width (EnumerableMap.js tryGet, get, contains, at).
THEOREM GettersAlwaysAgree == MapSpec => []GettersAgree
<1>1. ASSUME MapIInv PROVE GettersAgree
  <2> SUFFICES ASSUME NEW k \in Element(SetType)
               PROVE  /\ tryGet(k)[1] = contains(k)
                      /\ getAllowed(k) = contains(k)
                      /\ tryGet(k)[2] = get(k)
                      /\ tryGet(k)[1] <=> \E i \in 1..length : pairAt(i) = <<k, get(k)>>
    BY DEF GettersAgree
  <2>1. IInv
    BY <1>1 DEF MapIInv
  <2>2. contains(k) \in BOOLEAN /\ contains(k) = _contains(k)
    BY DEF contains, _contains, toBytes32
  <2>3. /\ tryGet(k)[1] = contains(k) /\ getAllowed(k) = contains(k)
        /\ tryGet(k)[2] = get(k) /\ get(k) = mapped[k]
    BY <1>1, <2>2, Getters
  <2>4. ASSUME NEW i \in 1..length PROVE pairAt(i) = <<at(i), mapped[at(i)]>>
    <3>1. at(i) = _values[i] /\ at(i) \in Word
      BY <2>1, AtIsValue
    <3>2. mapped[_values[i]] \in Element(ValueType)
      BY <1>1, <3>1 DEF MapIInv, Valued
    <3> QED
      BY <3>1, <3>2, ValueRoundTrip DEF pairAt, _at
  <2>5. contains(k) <=> \E i \in 1..length : at(i) = k
    <3>1. contains(k) <=> k \in values
      BY <2>1, ValuesAreContained
    <3> QED
      BY <3>1 DEF values
  <2> QED
    BY <2>3, <2>4, <2>5
<1> QED
  BY <1>1, InitMapIInv, StepMapIInv, PTL DEF MapSpec

-----------------------------------------------------------------------------
(* Refinement of a partial function *)

Keys == {x \in Element(SetType) : tryGet(x)[1]}
Shown == [k \in Keys |-> tryGet(k)[2]]

\* What the getters show is the words beside the keys.
ShownRight ==
    /\ Keys = {x \in Element(SetType) : _contains(x)}
    /\ Shown = [k \in Keys |-> mapped[k]]

LEMMA ShowsWords == MapIInv => ShownRight
<1> SUFFICES ASSUME MapIInv PROVE ShownRight
  OBVIOUS
<1>1. Keys = {x \in Element(SetType) : _contains(x)}
  BY Getters DEF Keys
<1>2. \A k \in Keys : tryGet(k)[2] = mapped[k]
  BY Getters DEF Keys
<1> QED
  BY <1>1, <1>2 DEF Shown, ShownRight

LEMMA ShowsWordsNext == MapIInv' => ShownRight'
  BY ShowsWords, PTL

LEMMA InitRefinesMap == MapInit => AbstractMap!Init
<1> SUFFICES ASSUME MapInit PROVE AbstractMap!Init
  OBVIOUS
<1>1. Keys = {}
  <2>1. Keys = {x \in Element(SetType) : _contains(x)}
    BY InitMapIInv, ShowsWords DEF ShownRight
  <2>2. \A x \in Element(SetType) : ~_contains(x)
    BY RoundTrip DEF MapInit, Init, _contains, toBytes32
  <2> QED
    BY <2>1, <2>2
<1>2. Shown = <<>>
  BY <1>1 DEF Shown
<1> QED
  BY <1>2 DEF MapInit, Init, AbstractMap!Init, Shown, Keys

LEMMA SetRefines ==
    ASSUME MapIInv, MapIInv', NEW k \in Element(SetType), NEW v \in Element(ValueType),
           set(k, v), asked' = k, given' = v
    PROVE  AbstractMap!Set(k, v)
<1>1. mapped' = [mapped EXCEPT ![k] = v] /\ add(k) /\ mapped \in [Word -> Element(ValueType)]
  BY ValueRoundTrip DEF set, toBytes32, MapIInv, Valued
<1>2. /\ k \in Word /\ result' = ~_contains(k)
      /\ \A w \in Word : _contains(w)' <=> (_contains(w) \/ w = k)
  BY <1>1, KeysAfter DEF MapIInv
<1>3. ShownRight /\ ShownRight'
  BY ShowsWords, ShowsWordsNext
<1>4. Keys' = Keys \cup {k}
  BY <1>2, <1>3, RoundTrip DEF ShownRight, toBytes32
<1>5. Shown' = [x \in Keys \cup {k} |-> IF x = k THEN v ELSE Shown[x]]
  <2>1. \A x \in Keys \cup {k} : x \in Word
    BY <1>2, <1>3, RoundTrip DEF ShownRight, toBytes32
  <2>2. \A x \in Keys \cup {k} : mapped'[x] = IF x = k THEN v ELSE Shown[x]
    BY <1>1, <1>3, <2>1 DEF ShownRight
  <2> QED
    BY <1>3, <1>4, <2>2 DEF ShownRight
<1>6. result' = (k \notin DOMAIN Shown)
  BY <1>2, <1>3 DEF ShownRight
<1> QED
  BY <1>5, <1>6 DEF AbstractMap!Set, Shown, Keys

LEMMA RemoveKeyRefines ==
    ASSUME MapIInv, MapIInv', NEW k \in Element(SetType),
           removeKey(k), asked' = k, UNCHANGED given
    PROVE  AbstractMap!Remove(k)
<1>1. mapped' = [mapped EXCEPT ![k] = 0] /\ remove(k) /\ mapped \in [Word -> Element(ValueType)]
  BY DEF removeKey, toBytes32, MapIInv, Valued
<1>2. /\ k \in Word /\ result' = _contains(k)
      /\ \A w \in Word : _contains(w)' <=> (_contains(w) /\ w # k)
  BY <1>1, KeysAfter DEF MapIInv
<1>3. ShownRight /\ ShownRight'
  BY ShowsWords, ShowsWordsNext
<1>4. Keys' = Keys \ {k}
  BY <1>2, <1>3, RoundTrip DEF ShownRight, toBytes32
<1>5. Shown' = [x \in Keys \ {k} |-> Shown[x]]
  <2>1. \A x \in Keys \ {k} : x \in Word
    BY <1>3, RoundTrip DEF ShownRight, toBytes32
  <2>2. \A x \in Keys \ {k} : mapped'[x] = Shown[x]
    BY <1>1, <1>3, <2>1 DEF ShownRight
  <2> QED
    BY <1>3, <1>4, <2>2 DEF ShownRight
<1>6. DOMAIN Shown = Keys
  BY DEF Shown
<1>7. result' = (k \in DOMAIN Shown)
  BY <1>2, <1>3, <1>6 DEF ShownRight, _contains
<1> QED
  BY <1>5, <1>6, <1>7 DEF AbstractMap!Remove, Shown, Keys

LEMMA StepRefinesMap ==
    MapIInv /\ MapIInv' /\ [MapNext]_mapVars => [AbstractMap!Next]_(AbstractMap!vars)
<1> SUFFICES ASSUME MapIInv, MapIInv', [MapNext]_mapVars
             PROVE  [AbstractMap!Next]_(AbstractMap!vars)
  OBVIOUS
<1>1. ASSUME NEW k \in Element(SetType), removeKey(k), asked' = k, UNCHANGED given
      PROVE  AbstractMap!Next
  BY <1>1, RemoveKeyRefines DEF AbstractMap!Next
<1>2. ASSUME NEW k \in Element(SetType), NEW v \in Element(ValueType),
             set(k, v), asked' = k, given' = v
      PROVE  AbstractMap!Next
  BY <1>2, SetRefines DEF AbstractMap!Next
<1>3. CASE UNCHANGED mapVars
  BY <1>3
  DEF mapVars, vars, AbstractMap!vars, tryGet, contains, _contains
<1> QED
  BY <1>1, <1>2, <1>3 DEF MapNext

\* What can be seen through tryGet(), get(), contains() and the results of
\* set() and remove() is a partial function: a removed key leaves nothing
\* behind and a key whose value is zero is there (EnumerableMap.js).
THEOREM ImplementsMap == MapSpec => RefinesMap
BY InitRefinesMap, InitMapIInv, StepMapIInv, StepRefinesMap, PTL
   DEF MapSpec, RefinesMap, AbstractMap!Spec

\* So the keys of a map are a set, in all that is shown of sets above.
THEOREM KeysAreASet ==
    MapSpec => []Indexed /\ []EnumeratesOnce /\ OnlyLastMoves /\ RefinesSet
<1>1. MapSpec => Spec
  BY MapSteps, PTL DEF MapSpec, Spec
<1> QED
  BY <1>1, AlwaysIndexed, AlwaysEnumerates, MovesOnlyLast, ImplementsSet, PTL
=============================================================================
