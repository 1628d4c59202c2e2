-------------------------- MODULE CheckpointsProofs --------------------------
(***************************************************************************)
(* Every lookup of a Trace or a History is right, and what is past stays,  *)
(* for arrays of any length, keys and values of any width; every cast is   *)
(* exact, for any number of bits.                                          *)
(***************************************************************************)
EXTENDS CheckpointsSafety, SafeCast, SumTheorems

LEMMA InitIInv == CheckpointsInit => IInv
<1> SUFFICES ASSUME CheckpointsInit PROVE IInv
  OBVIOUS
<1>1. _checkpoints = <<>> /\ len = 0 /\ search.pc = "idle" /\ keys = {}
  BY DEF CheckpointsInit, len, Idle
<1>2. CheckpointsTypeOK
  <2>1. inForce \in [Key -> Value]
    BY RangeAssumption DEF CheckpointsInit, Value
  <2>2. search \in Search
    BY RangeAssumption DEF CheckpointsInit, Search, Idle, Key, Value, LookupFn
  <2> QED
    BY <2>1, <2>2 DEF CheckpointsInit, CheckpointsTypeOK
<1>3. 1..len = {}
  BY <1>1
<1>4. IsHistory
  BY <1>1, <1>3 DEF CheckpointsInit, IsHistory
<1> QED
  BY <1>1, <1>2, <1>3, <1>4 DEF IInv, Increasing, Bracketed, LookupsRight

-----------------------------------------------------------------------------
(* Pushes *)

\* The array after _insert, position by position.
LEMMA Inserted ==
    ASSUME CheckpointsTypeOK, NEW key \in Key, NEW value \in Value, _insert(key, value)
    PROVE  /\ _checkpoints' \in Seq(Checkpoint)
           /\ len' \in {len, len + 1} /\ len' > 0
           /\ len' = len => len > 0 /\ _checkpoints[len]._key = key
           /\ len' = len + 1 => (len > 0 => _checkpoints[len]._key < key)
           /\ _checkpoints'[len']._key = key
           /\ _checkpoints'[len']._value = value
           /\ \A i \in 1..(len' - 1) :
                 i \in 1..len /\ _checkpoints'[i] = _checkpoints[i]
<1> DEFINE n == Len(_checkpoints)
<1>1. _checkpoints \in Seq(Checkpoint) /\ n \in Nat
  BY DEF CheckpointsTypeOK
<1>2. n > 0 => _checkpoints[n] \in Checkpoint /\ _checkpoints[n]._key \in Key
  <2>1. n > 0 => _checkpoints[n] \in Checkpoint
    BY <1>1
  <2> QED
    BY <2>1 DEF Checkpoint
<1>3. n > 0 => _checkpoints[n]._key <= key
  BY <1>1 DEF _insert, len, _unsafeAccess
<1>4. CASE n > 0 /\ _checkpoints[n]._key = key
  <2>1. _checkpoints' = [_checkpoints EXCEPT ![n]._value = value]
    BY <1>1, <1>4 DEF _insert, len, _unsafeAccess
  <2>2. [_checkpoints[n] EXCEPT !._value = value] \in Checkpoint
    BY <1>2, <1>4 DEF Checkpoint
  <2>3. /\ Len(_checkpoints') = n /\ _checkpoints' \in Seq(Checkpoint)
        /\ _checkpoints'[n] = [_checkpoints[n] EXCEPT !._value = value]
        /\ \A i \in 1..(n - 1) : _checkpoints'[i] = _checkpoints[i]
    BY <1>1, <1>4, <2>1, <2>2
  <2>4. _checkpoints'[n]._key = key /\ _checkpoints'[n]._value = value
    BY <1>2, <1>4, <2>3 DEF Checkpoint
  <2> QED
    BY <1>1, <1>4, <2>3, <2>4 DEF len
<1>5. CASE ~(n > 0 /\ _checkpoints[n]._key = key)
  <2> DEFINE new == [_key |-> key, _value |-> value]
  <2>1. _checkpoints' = Append(_checkpoints, new)
    BY <1>1, <1>5 DEF _insert, len, _unsafeAccess
  <2>2. new \in Checkpoint /\ new._key = key /\ new._value = value
    BY DEF Checkpoint
  <2> HIDE DEF new
  <2>3. /\ Len(_checkpoints') = n + 1 /\ _checkpoints' \in Seq(Checkpoint)
        /\ _checkpoints'[n + 1] = new
        /\ \A i \in 1..n : _checkpoints'[i] = _checkpoints[i]
    BY <1>1, <2>1, <2>2
  <2>4. n > 0 => _checkpoints[n]._key < key
    BY <1>2, <1>3, <1>5 DEF Key, RangeAssumption
  <2> QED
    BY <1>1, <2>2, <2>3, <2>4 DEF len
<1> QED
  BY <1>4, <1>5

LEMMA PushIInv ==
    ASSUME IInv, NEW key \in Key, NEW value \in Value,
           search.pc = "idle", _insert(key, value), Recorded(key, value)
    PROVE  IInv'
<1> DEFINE m == len'
<1>1. /\ CheckpointsTypeOK /\ Increasing /\ IsHistory
      /\ len \in Nat
      /\ \A i \in 1..len : _checkpoints[i] \in Checkpoint /\ _checkpoints[i]._key \in Key
  <2>1. \A i \in 1..len : _checkpoints[i] \in Checkpoint
    BY DEF IInv, CheckpointsTypeOK, len
  <2>2. \A c \in Checkpoint : c._key \in Key
    BY DEF Checkpoint
  <2> QED
    BY <2>1, <2>2 DEF IInv, CheckpointsTypeOK, len
<1>2. /\ _checkpoints' \in Seq(Checkpoint)
      /\ m \in {len, len + 1} /\ m > 0
      /\ m = len => len > 0 /\ _checkpoints[len]._key = key
      /\ m = len + 1 => (len > 0 => _checkpoints[len]._key < key)
      /\ _checkpoints'[m]._key = key
      /\ _checkpoints'[m]._value = value
      /\ \A i \in 1..(m - 1) :
            i \in 1..len /\ _checkpoints'[i] = _checkpoints[i]
  BY <1>1, Inserted
<1>3. /\ inForce' = [k \in Key |-> IF k >= key THEN value ELSE inForce[k]]
      /\ keys' = keys \cup {key}
      /\ block' = block /\ search' = search
  BY DEF Recorded
<1>4. CheckpointsTypeOK'
  BY <1>1, <1>2, <1>3 DEF CheckpointsTypeOK
<1> HIDE DEF m
<1>5. \A i \in 1..(m - 1) : _checkpoints[i]._key < key
  <2> SUFFICES ASSUME NEW i \in 1..(m - 1) PROVE _checkpoints[i]._key < key
    OBVIOUS
  <2>1. i \in 1..len /\ len > 0 /\ len \in 1..len
    BY <1>1, <1>2
  <2>2. CASE m = len
    BY <2>1, <2>2, <1>1, <1>2 DEF Increasing
  <2>3. CASE m = len + 1
    <3>1. i = len \/ _checkpoints[i]._key < _checkpoints[len]._key
      BY <2>1, <2>3, <1>1 DEF Increasing
    <3> QED
      BY <3>1, <2>1, <2>3, <1>1, <1>2, RangeAssumption DEF Key
  <2> QED
    BY <2>2, <2>3, <1>2
<1>6. Increasing'
  <2> SUFFICES ASSUME NEW i \in 1..m, NEW j \in 1..m, i < j
               PROVE  _checkpoints'[i]._key < _checkpoints'[j]._key
    BY DEF Increasing, m
  <2>1. i \in 1..(m - 1) /\ m \in Nat
    BY <1>1, <1>2
  <2>2. CASE j = m
    BY <2>1, <2>2, <1>2, <1>5
  <2>3. CASE j # m
    <3>1. j \in 1..(m - 1)
      BY <2>1, <2>3
    <3> QED
      BY <3>1, <2>1, <1>1, <1>2 DEF Increasing
  <2> QED
    BY <2>2, <2>3
<1>7. keys' = {_checkpoints'[i]._key : i \in 1..m}
  <2>1. keys = {_checkpoints[i]._key : i \in 1..len}
    BY <1>1 DEF IsHistory
  <2>2. \A i \in 1..len : _checkpoints[i]._key = key \/ i \in 1..(m - 1)
    BY <1>1, <1>2
  <2>3. \A i \in 1..m : i = m \/ i \in 1..(m - 1)
    BY <1>1, <1>2
  <2>4. m \in 1..m /\ \A i \in 1..(m - 1) : i \in 1..m
    BY <1>1, <1>2
  <2>5. ASSUME NEW x \in keys' PROVE \E i \in 1..m : x = _checkpoints'[i]._key
    <3>1. CASE x = key
      BY <3>1, <2>4, <1>2
    <3>2. CASE x # key
      <4>1. PICK i \in 1..len : x = _checkpoints[i]._key
        BY <3>2, <2>5, <2>1, <1>3
      <4> QED
        BY <4>1, <3>2, <2>2, <2>4, <1>2
    <3> QED
      BY <3>1, <3>2
  <2>6. ASSUME NEW i \in 1..m PROVE _checkpoints'[i]._key \in keys'
    <3>1. CASE i = m
      BY <3>1, <1>2, <1>3
    <3>2. CASE i \in 1..(m - 1)
      BY <3>2, <1>2, <1>3, <2>1
    <3> QED
      BY <3>1, <3>2, <2>3
  <2> QED
    BY <2>5, <2>6
<1>8. ASSUME NEW k \in Key, \A i \in 1..m : k < _checkpoints'[i]._key
      PROVE  inForce'[k] = 0
  <2>1. k < key
    BY <1>8, <1>1, <1>2
  <2>2. ASSUME NEW i \in 1..len PROVE k < _checkpoints[i]._key
    <3>1. CASE i \in 1..(m - 1)
      <4>1. i \in 1..m
        BY <3>1, <1>1, <1>2
      <4> QED
        BY <4>1, <3>1, <1>2, <1>8
    <3>2. CASE i \notin 1..(m - 1)
      BY <3>2, <2>1, <1>1, <1>2
    <3> QED
      BY <3>1, <3>2
  <2>3. inForce'[k] = inForce[k]
    BY <2>1, <1>3, RangeAssumption DEF Key
  <2> QED
    BY <2>2, <2>3, <1>1 DEF IsHistory
<1>9. ASSUME NEW k \in Key, NEW i \in 1..m,
             _checkpoints'[i]._key <= k, i < m => k < _checkpoints'[i + 1]._key
      PROVE  inForce'[k] = _checkpoints'[i]._value
  <2>1. CASE i = m
    BY <2>1, <1>2, <1>3, <1>9, RangeAssumption DEF Key
  <2>2. CASE i # m
    <3>1. i \in 1..(m - 1) /\ i < m /\ i \in 1..len
          /\ _checkpoints'[i] = _checkpoints[i]
      BY <2>2, <1>1, <1>2
    <3>2. k < key
      <4>1. CASE i + 1 = m
        BY <4>1, <3>1, <1>2, <1>9
      <4>2. CASE i + 1 # m
        <5>1. i + 1 \in 1..(m - 1)
          BY <4>2, <3>1, <1>1, <1>2
        <5>2. k < _checkpoints[i + 1]._key /\ _checkpoints[i + 1]._key < key
              /\ _checkpoints[i + 1]._key \in Key
          BY <5>1, <3>1, <1>1, <1>2, <1>5, <1>9
        <5> QED
          BY <5>2, RangeAssumption DEF Key
      <4> QED
        BY <4>1, <4>2
    <3>3. inForce'[k] = inForce[k]
      BY <3>2, <1>3, RangeAssumption DEF Key
    <3>4. i < len => k < _checkpoints[i + 1]._key
      <4> SUFFICES ASSUME i < len PROVE k < _checkpoints[i + 1]._key
        OBVIOUS
      <4>1. CASE i + 1 \in 1..(m - 1)
        BY <4>1, <3>1, <1>2, <1>9
      <4>2. CASE i + 1 \notin 1..(m - 1)
        <5>1. i + 1 = m /\ m = len
          BY <4>2, <3>1, <1>1, <1>2
        <5> QED
          BY <5>1, <3>2, <1>2
      <4> QED
        BY <4>1, <4>2
    <3> QED
      BY <3>1, <3>3, <3>4, <1>1, <1>9 DEF IsHistory
  <2> QED
    BY <2>1, <2>2
<1>10. IsHistory'
  BY <1>7, <1>8, <1>9 DEF IsHistory, m
<1>11. Bracketed' /\ LookupsRight'
  BY <1>3 DEF Bracketed, LookupsRight
<1> QED
  BY <1>4, <1>6, <1>10, <1>11 DEF IInv

-----------------------------------------------------------------------------
(* Searches *)

\* The parts of the invariant a search does not touch.
Stored == UNCHANGED <<_checkpoints, block, inForce, keys>>

LEMMA StoredKept ==
    ASSUME IInv, Stored, search' \in Search
    PROVE  CheckpointsTypeOK' /\ Increasing' /\ IsHistory'
BY DEF IInv, Stored, CheckpointsTypeOK, Increasing, IsHistory, len

\* The array's keys, as numbers.
LEMMA KeysTyped ==
    ASSUME IInv
    PROVE  /\ len \in Nat /\ search \in Search
           /\ \A i \in 1..len :
                 /\ _checkpoints[i]._key \in Key /\ _checkpoints[i]._key \in Int
                 /\ _checkpoints[i]._value \in Value
<1>1. \A i \in 1..len : _checkpoints[i] \in Checkpoint
  BY DEF IInv, CheckpointsTypeOK, len
<1>2. \A c \in Checkpoint : c._key \in Key /\ c._key \in Int /\ c._value \in Value
  BY DEF Checkpoint, Key
<1> QED
  BY <1>1, <1>2 DEF IInv, CheckpointsTypeOK, len

\* A search may begin on any part of the array outside of which its key
\* cannot be.
LEMMA BeginIInv ==
    ASSUME IInv, NEW fn \in LookupFn, NEW key \in Key,
           NEW low \in Nat, NEW high \in Nat,
           Begin(fn, key, low, high),
           low <= high, high <= len,
           low # 0 \/ high # len => fn # "lowerLookup",
           \A i \in 1..len :
              /\ i <= low => _checkpoints[i]._key <= key
              /\ i > high => ~(_checkpoints[i]._key <= key)
    PROVE  IInv'
<1>1. /\ search' = [pc |-> "search", fn |-> fn, key |-> key, low |-> low,
                    high |-> high, answer |-> 0]
      /\ Stored
  BY DEF Begin, Stored
<1>2. search' \in Search
  BY <1>1, RangeAssumption DEF Search, Value
<1>3. CheckpointsTypeOK' /\ Increasing' /\ IsHistory'
  BY <1>1, <1>2, StoredKept
<1>4. len' = len /\ len \in Nat
  BY <1>1, KeysTyped DEF len, Stored
<1>5. Bracketed'
  <2>1. CASE fn = "lowerLookup"
    BY <2>1, <1>1, <1>4 DEF Bracketed
  <2>2. CASE fn # "lowerLookup"
    BY <2>2, <1>1, <1>4 DEF Bracketed, Before, IsLower, Stored
  <2> QED
    BY <2>1, <2>2
<1>6. LookupsRight'
  BY <1>1 DEF LookupsRight
<1> QED
  BY <1>3, <1>5, <1>6 DEF IInv

LEMMA WholeArray ==
    ASSUME IInv, NEW fn \in LookupFn, NEW key \in Key, Begin(fn, key, 0, len)
    PROVE  IInv'
<1>1. len \in Nat /\ 0 \in Nat /\ 0 <= len /\ len <= len
  BY KeysTyped
<1>2. \A i \in 1..len :
         /\ i <= 0 => _checkpoints[i]._key <= key
         /\ i > len => ~(_checkpoints[i]._key <= key)
  BY <1>1
<1> QED
  BY <1>1, <1>2, BeginIInv

\* The rounded root of a positive number is positive and not above it.
LEMMA SqrtBounds ==
    ASSUME NEW n \in Nat \ {0}
    PROVE  Sqrt(n) \in 1..n
<1> DEFINE R == {r \in 1..n : r * r <= n}
<1>1. IsFiniteSet(1..n) /\ Cardinality(1..n) = n
  BY FS_Interval
<1>2. R \subseteq 1..n
  OBVIOUS
<1>3. IsFiniteSet(R) /\ Cardinality(R) <= n
  BY <1>1, <1>2, FS_Subset
<1>4. 1 \in R
  OBVIOUS
<1>5. Cardinality(R) # 0 /\ Cardinality(R) \in Nat
  BY <1>3, <1>4, FS_EmptySet, FS_CardinalityType
<1> QED
  BY <1>3, <1>5 DEF Sqrt

LEMMA RecentIInv ==
    ASSUME IInv, NEW key \in Key,
           Begin("getAtProbablyRecentBlock", key,
                 RecentRange(key)[1], RecentRange(key)[2])
    PROVE  IInv'
<1> DEFINE mid == len - Sqrt(len)
<1>1. len \in Nat /\ "getAtProbablyRecentBlock" \in LookupFn
  BY KeysTyped DEF LookupFn
<1>2. CASE len <= 5
  <2>1. RecentRange(key) = <<0, len>>
    BY <1>2 DEF RecentRange
  <2> QED
    BY <2>1, <1>1, WholeArray
<1>3. CASE len > 5
  <2>1. mid \in 0..(len - 1) /\ mid + 1 \in 1..len
    BY <1>1, <1>3, SqrtBounds
  <2>2. Increasing /\ _checkpoints[mid + 1]._key \in Int /\ key \in Int
        /\ \A i \in 1..len : _checkpoints[i]._key \in Int
    BY <2>1, KeysTyped DEF IInv, Key
  <2>3. RecentRange(key) =
           IF key < _checkpoints[mid + 1]._key THEN <<0, mid>> ELSE <<mid + 1, len>>
    BY <1>1, <1>3 DEF RecentRange, _unsafeAccess
  <2> HIDE DEF mid
  <2>4. CASE key < _checkpoints[mid + 1]._key
    <3>1. RecentRange(key)[1] = 0 /\ RecentRange(key)[2] = mid
      BY <2>3, <2>4
    <3>2. \A i \in 1..len :
             /\ i <= 0 => _checkpoints[i]._key <= key
             /\ i > mid => ~(_checkpoints[i]._key <= key)
      <4> TAKE i \in 1..len
      <4>1. i = mid + 1 \/ (i > mid => mid + 1 < i)
        BY <2>1, <1>1
      <4> QED
        BY <4>1, <2>1, <2>2, <2>4, <1>1 DEF Increasing
    <3>3. mid \in Nat /\ 0 \in Nat /\ 0 <= mid /\ mid <= len
      BY <2>1, <1>1
    <3>4. Begin("getAtProbablyRecentBlock", key, 0, mid)
      BY <3>1
    <3> QED
      BY <3>2, <3>3, <3>4, <1>1, BeginIInv
  <2>5. CASE ~(key < _checkpoints[mid + 1]._key)
    <3>1. RecentRange(key)[1] = mid + 1 /\ RecentRange(key)[2] = len
      BY <2>3, <2>5
    <3>2. \A i \in 1..len :
             /\ i <= mid + 1 => _checkpoints[i]._key <= key
             /\ i > len => ~(_checkpoints[i]._key <= key)
      <4> TAKE i \in 1..len
      <4>1. i = mid + 1 \/ (i <= mid + 1 => i < mid + 1)
        BY <2>1, <1>1
      <4> QED
        BY <4>1, <2>1, <2>2, <2>5, <1>1 DEF Increasing
    <3>3. mid + 1 \in Nat /\ len \in Nat /\ mid + 1 <= len /\ len <= len
      BY <2>1, <1>1
    <3>4. Begin("getAtProbablyRecentBlock", key, mid + 1, len)
      BY <3>1
    <3> QED
      BY <3>2, <3>3, <3>4, <1>1, BeginIInv
  <2> QED
    BY <2>4, <2>5
<1> QED
  BY <1>1, <1>2, <1>3

LEMMA BisectIInv == ASSUME IInv, Bisect PROVE IInv'
<1> DEFINE k == _checkpoints[Mid + 1]._key
<1>1. /\ search \in Search /\ len \in Nat
      /\ search.low < search.high /\ search.high <= len
      /\ search.low \in Nat /\ search.high \in Nat /\ search.key \in Int
      /\ search.pc = "search"
  BY KeysTyped DEF Bisect, IInv, Bracketed, Search, Key
<1>2. Mid \in Nat /\ search.low <= Mid /\ Mid < search.high /\ Mid + 1 \in 1..len
  BY <1>1 DEF Mid
<1>3. /\ k \in Int /\ Increasing
      /\ \A i \in 1..len : _checkpoints[i]._key \in Int
  BY <1>2, KeysTyped DEF IInv
<1>4. Stored
  BY DEF Bisect, Stored
<1>5. /\ search' = IF (IF IsLower THEN k < search.key ELSE ~(k > search.key))
                   THEN [search EXCEPT !.low = Mid + 1]
                   ELSE [search EXCEPT !.high = Mid]
  BY DEF Bisect, Bisected, _unsafeAccess
<1>6. search' \in Search
  BY <1>1, <1>2, <1>5 DEF Search
<1>7. /\ search'.pc = "search" /\ search'.key = search.key
      /\ search'.fn = search.fn
  BY <1>1, <1>5 DEF Search
<1>8. /\ len' = len /\ IsLower' = IsLower
      /\ \A i : Before(i)' = Before(i)
  BY <1>4, <1>7 DEF len, IsLower, Before, Stored
<1>9. Before(Mid + 1) <=> (IF IsLower THEN k < search.key ELSE ~(k > search.key))
  BY <1>1, <1>3 DEF Before
<1> HIDE DEF k
<1>10. \A i, j \in 1..len : i <= j /\ Before(j) => Before(i)
  <2> TAKE i, j \in 1..len
  <2>1. i = j \/ (i <= j => i < j)
    BY <1>1
  <2> QED
    BY <2>1, <1>1, <1>3 DEF Before, Increasing
<1>11. \A i \in 1..len :
          /\ i <= search.low => Before(i)
          /\ i > search.high => ~Before(i)
  BY <1>1 DEF IInv, Bracketed
<1>12. Bracketed'
  <2>1. CASE Before(Mid + 1)
    <3>1. search'.low = Mid + 1 /\ search'.high = search.high
      BY <2>1, <1>1, <1>5, <1>9 DEF Search
    <3>2. \A i \in 1..len :
             /\ i <= Mid + 1 => Before(i)
             /\ i > search.high => ~Before(i)
      BY <2>1, <1>2, <1>10, <1>11
    <3> QED
      BY <3>1, <3>2, <1>1, <1>2, <1>8 DEF Bracketed
  <2>2. CASE ~Before(Mid + 1)
    <3>1. search'.low = search.low /\ search'.high = Mid
      BY <2>2, <1>1, <1>5, <1>9 DEF Search
    <3>2. \A i \in 1..len :
             /\ i <= search.low => Before(i)
             /\ i > Mid => ~Before(i)
      <4> TAKE i \in 1..len
      <4>1. i > Mid => Mid + 1 <= i
        BY <1>2
      <4> QED
        BY <4>1, <2>2, <1>2, <1>10, <1>11
    <3> QED
      BY <3>1, <3>2, <1>1, <1>2, <1>8 DEF Bracketed
  <2> QED
    BY <2>1, <2>2
<1>13. CheckpointsTypeOK' /\ Increasing' /\ IsHistory'
  BY <1>4, <1>6, StoredKept
<1>14. LookupsRight'
  BY <1>7 DEF LookupsRight
<1> QED
  BY <1>12, <1>13, <1>14 DEF IInv

\* When the bounds meet, what lies there is what the search is for.
LEMMA AnswerRight ==
    ASSUME IInv, Found
    PROVE  Answer(search.high) = Expected /\ Answer(search.high) \in Value
<1> DEFINE pos == search.high
<1>1. /\ pos \in Nat /\ len \in Nat /\ pos <= len /\ search.low = pos
      /\ search.key \in Key /\ search.key \in Int
  BY KeysTyped DEF Found, IInv, Bracketed, Search, Key
<1>2. \A i \in 1..len :
         /\ i <= pos => Before(i)
         /\ i > pos => ~Before(i)
  BY <1>1 DEF Found, IInv, Bracketed
<1>3. /\ IsHistory /\ Increasing
      /\ \A i \in 1..len :
            /\ _checkpoints[i]._key \in Key /\ _checkpoints[i]._key \in Int
            /\ _checkpoints[i]._value \in Value
  BY KeysTyped DEF IInv
<1>4. 0 \in Value
  BY RangeAssumption DEF Value
<1> HIDE DEF pos
<1>5. CASE ~IsLower /\ pos = 0
  <2>1. Answer(pos) = 0
    BY <1>5 DEF Answer
  <2>2. \A i \in 1..len : search.key < _checkpoints[i]._key
    BY <1>1, <1>2, <1>3, <1>5 DEF Before
  <2>3. inForce[search.key] = 0
    BY <2>2, <1>1, <1>3 DEF IsHistory
  <2> QED
    BY <2>1, <2>3, <1>4, <1>5 DEF Expected, pos
<1>6. CASE ~IsLower /\ pos # 0
  <2>1. pos \in 1..len
    BY <1>1, <1>6
  <2>2. Answer(pos) = _checkpoints[pos]._value
    <3>1. pos - 1 + 1 = pos
      BY <1>1
    <3> QED
      BY <3>1, <1>6 DEF Answer, _unsafeAccess
  <2>3. _checkpoints[pos]._key <= search.key
    BY <2>1, <1>1, <1>2, <1>6 DEF Before
  <2>4. pos < len => search.key < _checkpoints[pos + 1]._key
    <3> SUFFICES ASSUME pos < len PROVE search.key < _checkpoints[pos + 1]._key
      OBVIOUS
    <3>1. pos + 1 \in 1..len /\ pos + 1 > pos
      BY <1>1
    <3>2. ~(_checkpoints[pos + 1]._key <= search.key)
      BY <3>1, <1>2, <1>6 DEF Before
    <3> QED
      BY <3>1, <3>2, <1>1, <1>3
  <2>5. inForce[search.key] = _checkpoints[pos]._value
    BY <2>1, <2>3, <2>4, <1>1, <1>3 DEF IsHistory
  <2> QED
    BY <2>1, <2>2, <2>5, <1>3, <1>6 DEF Expected, pos
<1>7. CASE IsLower
  <2> DEFINE later == {k \in keys : k >= search.key}
  <2>1. keys = {_checkpoints[i]._key : i \in 1..len}
    BY <1>3 DEF IsHistory
  <2>2. \A i \in 1..len : i <= pos => _checkpoints[i]._key < search.key
    BY <1>2, <1>7 DEF Before
  <2>3. \A i \in 1..len : i > pos => _checkpoints[i]._key >= search.key
    BY <1>1, <1>2, <1>3, <1>7 DEF Before
  <2>4. CASE pos = len
    <3>1. later = {}
      BY <2>1, <2>2, <2>4, <1>1, <1>3
    <3> QED
      BY <3>1, <2>4, <1>4, <1>7 DEF Expected, Answer, pos
  <2>5. CASE pos # len
    <3> DEFINE m == _checkpoints[pos + 1]._key
    <3>1. pos + 1 \in 1..len /\ pos + 1 > pos
      BY <2>5, <1>1
    <3>2. m \in Key /\ m \in Int /\ m \in later
      BY <3>1, <2>1, <2>3, <1>3
    <3>3. \A k \in later : m <= k /\ k \in Int
      <4> TAKE k \in later
      <4>1. PICK i \in 1..len : k = _checkpoints[i]._key
        BY <2>1
      <4>2. ~(i <= pos)
        BY <4>1, <2>2, <1>1, <1>3
      <4>3. i = pos + 1 \/ pos + 1 < i
        BY <4>2, <1>1
      <4> QED
        BY <4>1, <4>3, <3>1, <3>2, <1>3 DEF Increasing
    <3> HIDE DEF m, later
    <3>4. \A k \in later : (\A l \in later : k <= l) => k = m
      BY <3>2, <3>3
    <3>5. (CHOOSE k \in later : \A l \in later : k <= l) = m
      BY <3>2, <3>3, <3>4
    <3>6. inForce[m] = _checkpoints[pos + 1]._value
      <4>1. pos + 1 < len => m < _checkpoints[pos + 1 + 1]._key
        BY <3>1, <1>1, <1>3 DEF Increasing, m
      <4>2. m <= m /\ m = _checkpoints[pos + 1]._key
        BY <3>2 DEF m
      <4> QED
        BY <4>1, <4>2, <3>1, <3>2, <1>3 DEF IsHistory
    <3>7. Expected = inForce[m]
      BY <3>2, <3>5, <1>7 DEF Expected, later
    <3> QED
      BY <3>1, <3>6, <3>7, <2>5, <1>3, <1>7 DEF Answer, _unsafeAccess, pos
  <2> QED
    BY <2>4, <2>5
<1> QED
  BY <1>5, <1>6, <1>7 DEF pos

LEMMA FoundIInv == ASSUME IInv, Found PROVE IInv'
<1>1. /\ search' = [search EXCEPT !.pc = "done", !.answer = Answer(search.high)]
      /\ Stored /\ search \in Search
  BY KeysTyped DEF Found, Stored
<1>2. /\ search' \in Search /\ search'.pc = "done"
      /\ search'.answer = Answer(search.high)
      /\ search'.key = search.key /\ search'.fn = search.fn
  BY <1>1, AnswerRight DEF Search
<1>3. CheckpointsTypeOK' /\ Increasing' /\ IsHistory'
  BY <1>1, <1>2, StoredKept
<1>4. Expected' = Expected
  BY <1>1, <1>2 DEF Expected, IsLower, Stored
<1> QED
  BY <1>2, <1>3, <1>4, AnswerRight DEF IInv, Bracketed, LookupsRight

LEMMA ReturnedIInv == ASSUME IInv, Returned PROVE IInv'
<1>1. search' = Idle /\ Stored /\ search'.pc = "idle"
  BY DEF Returned, Stored, Idle
<1>2. search' \in Search
  BY <1>1, RangeAssumption DEF Search, Idle, Key, Value, LookupFn
<1> QED
  BY <1>1, <1>2, StoredKept DEF IInv, Bracketed, LookupsRight

LEMMA NextBlockIInv == ASSUME IInv, NextBlock PROVE IInv'
BY DEF NextBlock, IInv, CheckpointsTypeOK, Increasing, IsHistory, Bracketed, Before,
  IsLower,
       LookupsRight, Expected, len

LEMMA StutterIInv == ASSUME IInv, UNCHANGED checkpointsVars PROVE IInv'
BY DEF checkpointsVars, IInv, CheckpointsTypeOK, Increasing, IsHistory, Bracketed,
  Before, IsLower,
       LookupsRight, Expected, len

-----------------------------------------------------------------------------
(* Traces and Histories *)

LEMMA TraceStep == IInv /\ [TraceNext]_checkpointsVars => IInv'
<1> SUFFICES ASSUME IInv, [TraceNext]_checkpointsVars PROVE IInv'
  OBVIOUS
<1>1. ASSUME NEW key \in Key, NEW value \in PushedValues \cap Value,
             TracePush(key, value)
      PROVE  IInv'
  BY <1>1, PushIInv DEF TracePush
<1>2. ASSUME NEW key \in Key, NEW fn \in {"lowerLookup", "upperLookup"},
             TraceLookup(fn, key)
      PROVE  IInv'
  BY <1>2, WholeArray DEF TraceLookup, LookupFn
<1> QED
  BY <1>1, <1>2, BisectIInv, FoundIInv, ReturnedIInv, StutterIInv
     DEF TraceNext, LookupStep

LEMMA HistoryPushIInv ==
    ASSUME IInv, NEW value \in Int, value >= 0, HistoryPush(value)
    PROVE  IInv'
<1>1. block \in Key
  BY DEF HistoryPush, CastSucceeds, Uint32, IInv, CheckpointsTypeOK, Key
<1>2. value \in Value
  BY DEF HistoryPush, Value
<1> QED
  BY <1>1, <1>2, PushIInv DEF HistoryPush, Uint32

LEMMA HistoryStep == IInv /\ [HistoryNext]_checkpointsVars => IInv'
<1> SUFFICES ASSUME IInv, [HistoryNext]_checkpointsVars PROVE IInv'
  OBVIOUS
<1>1. ASSUME NEW value \in PushedValues, HistoryPush(value)
      PROVE  IInv'
  BY <1>1, HistoryPushIInv, RangeAssumption
<1>2. ASSUME NEW op \in {"add", "subtract"}, NEW delta \in PushedValues,
             HistoryPushOp(op, delta)
      PROVE  IInv'
  <2>1. latest \in Nat /\ delta \in Nat
    <3>1. len > 0 => len - 1 + 1 = len /\ len \in 1..len
      BY KeysTyped
    <3>2. len > 0 => _checkpoints[len]._value \in Value
      BY <3>1, KeysTyped
    <3> QED
      BY <3>1, <3>2, KeysTyped, RangeAssumption DEF latest, _unsafeAccess, Value
  <2>2. latest + delta \in Int /\ latest - delta \in Int
        /\ latest + delta >= 0 /\ (latest >= delta => latest - delta >= 0)
    BY <2>1
  <2>3. CASE op = "add"
    BY <2>2, <2>3, <1>2, HistoryPushIInv DEF HistoryPushOp
  <2>4. CASE op = "subtract"
    BY <2>2, <2>4, <1>2, HistoryPushIInv DEF HistoryPushOp
  <2> QED
    BY <2>3, <2>4
<1>3. ASSUME NEW n \in 0..MaxBlock, getAtBlock(n)
      PROVE  IInv'
  <2>1. n \in Key /\ "getAtBlock" \in LookupFn
    BY <1>3, RangeAssumption DEF getAtBlock, CastSucceeds, Uint32, Key, LookupFn
  <2> QED
    BY <2>1, <1>3, WholeArray DEF getAtBlock, Uint32
<1>4. ASSUME NEW n \in 0..MaxBlock, getAtProbablyRecentBlock(n)
      PROVE  IInv'
  <2>1. n \in Key
    BY <1>4, RangeAssumption DEF getAtProbablyRecentBlock, CastSucceeds, Uint32, Key
  <2> QED
    BY <2>1, <1>4, RecentIInv DEF getAtProbablyRecentBlock, Uint32
<1> QED
  BY <1>1, <1>2, <1>3, <1>4, BisectIInv, FoundIInv, ReturnedIInv, NextBlockIInv,
     StutterIInv
     DEF HistoryNext, LookupStep

\* The invariant of a Trace: the array is sorted and is the history of its
\* pushes, and a search has bracketed what it looks for.
THEOREM TraceInvariant == TraceSpec => []IInv
BY InitIInv, TraceStep, PTL DEF TraceSpec

\* Every lookup of a Trace answers with the value in force at its key, or at
\* the next key that was pushed (upperLookup, lowerLookup).
THEOREM TraceLookupsRight == TraceSpec => []LookupsRight
<1>1. IInv => LookupsRight
  BY DEF IInv
<1> QED
  BY <1>1, InitIInv, TraceStep, PTL DEF TraceSpec

\* The two lookups of a History are right, and so agree with one another.
THEOREM HistoryLookupsRight == HistorySpec => []LookupsRight
<1>1. IInv => LookupsRight
  BY DEF IInv
<1> QED
  BY <1>1, InitIInv, HistoryStep, PTL DEF HistorySpec

-----------------------------------------------------------------------------
(* What a push cannot change *)

\* Among positions up to n there is a last one.
LEMMA LastPosition ==
    ASSUME NEW n \in Nat, NEW S \in SUBSET (1..n), S # {}
    PROVE  \E i \in S : \A j \in S : j <= i
<1> DEFINE T == {m \in Nat : n - m \in S}
<1>1. PICK s \in S : TRUE
  OBVIOUS
<1>2. n - s \in T
  <2>1. s \in 1..n /\ n - s \in Nat /\ n - (n - s) = s
    BY <1>1
  <2> QED
    BY <1>1, <2>1
<1>3. T \in SUBSET Nat /\ T # {}
  BY <1>2
<1> HIDE DEF T
<1>4. PICK k \in T : \A m \in T : k <= m
  BY <1>3, Smallest
<1>5. k \in Nat /\ n - k \in S
  BY <1>4 DEF T
<1>6. ASSUME NEW j \in S PROVE j <= n - k
  <2>1. j \in 1..n /\ n - j \in Nat /\ n - (n - j) = j
    OBVIOUS
  <2>2. n - j \in T
    BY <2>1 DEF T
  <2> QED
    BY <1>4, <1>5, <2>1, <2>2
<1> QED
  BY <1>5, <1>6

\* Bisecting the array would find the value in force.
Finds == \A k \in Key : ValueAt(k) = inForce[k]

LEMMA FindsHistory == IInv => Finds
<1> SUFFICES ASSUME IInv, NEW k \in Key PROVE ValueAt(k) = inForce[k]
  BY DEF Finds
<1>1. /\ len \in Nat /\ k \in Int
      /\ \A i \in 1..len : _checkpoints[i]._key \in Int
  BY KeysTyped DEF Key
<1>2. PICK S : S = {i \in 1..len : _checkpoints[i]._key <= k}
  OBVIOUS
<1>3. CASE S = {}
  <2>1. \A i \in 1..len : k < _checkpoints[i]._key
    BY <1>1, <1>2, <1>3
  <2> QED
    BY <1>2, <1>3, <2>1 DEF IInv, IsHistory, ValueAt
<1>4. CASE S # {}
  <2>1. \E h \in S : \A j \in S : j <= h
    BY <1>1, <1>2, <1>4, LastPosition
  <2>2. PICK i : i = CHOOSE h \in S : \A j \in S : j <= h
    OBVIOUS
  <2>3. i \in S /\ \A j \in S : j <= i
    BY <2>1, <2>2
  <2>4. i \in 1..len /\ _checkpoints[i]._key <= k
    BY <1>2, <2>3
  <2>5. i < len => k < _checkpoints[i + 1]._key
    <3> SUFFICES ASSUME i < len PROVE k < _checkpoints[i + 1]._key
      OBVIOUS
    <3>1. i + 1 \in 1..len /\ ~(i + 1 <= i)
      BY <1>1, <2>4
    <3>2. i + 1 \notin S
      BY <2>3, <3>1
    <3> QED
      BY <1>1, <1>2, <3>1, <3>2
  <2>6. inForce[k] = _checkpoints[i]._value
    BY <2>4, <2>5 DEF IInv, IsHistory
  <2> QED
    BY <1>2, <1>4, <2>2, <2>6 DEF ValueAt
<1> QED
  BY <1>3, <1>4

LEMMA FindsHistoryNext == IInv' => Finds'
  BY FindsHistory, PTL

\* A step that records a push at a key leaves what is in force before it.
LEMMA PushKeepsBefore ==
    ASSUME IInv, IInv', NEW key \in Key, NEW value, Recorded(key, value),
           NEW k \in Key, k < key
    PROVE  ValueAt(k)' = ValueAt(k)
<1>1. inForce'[k] = inForce[k]
  BY DEF Recorded, Key
<1>2. ValueAt(k) = inForce[k] /\ ValueAt(k)' = inForce'[k]
  BY FindsHistory, FindsHistoryNext DEF Finds
<1> QED
  BY <1>1, <1>2

\* A push goes no further back than the last key.
LEMMA InsertsAtTip ==
    ASSUME IInv, IInv', NEW key \in Key, NEW value,
           _insert(key, value), Recorded(key, value),
           NEW k \in Key, len > 0, k < _unsafeAccess(len - 1)._key
    PROVE  ValueAt(k)' = ValueAt(k)
<1>1. _unsafeAccess(len - 1)._key <= key
  BY DEF _insert
<1>2. _unsafeAccess(len - 1)._key \in Int
  <2>1. len \in 1..len /\ len - 1 + 1 = len
    BY KeysTyped
  <2> QED
    BY <2>1, KeysTyped DEF _unsafeAccess
<1>3. k < key
  BY <1>1, <1>2 DEF Key
<1> QED
  BY <1>3, PushKeepsBefore

\* Lookups and blocks leave the array alone.
LEMMA StoredValues ==
    ASSUME UNCHANGED _checkpoints, NEW k
    PROVE  ValueAt(k)' = ValueAt(k)
BY DEF ValueAt, len

OnlyTip ==
    \A k \in Key :
        len > 0 /\ k < _unsafeAccess(len - 1)._key => ValueAt(k)' = ValueAt(k)
Past == \A k \in Key : k < block => ValueAt(k)' = ValueAt(k)

LEMMA TraceTip == IInv /\ IInv' /\ [TraceNext]_checkpointsVars => OnlyTip
<1> SUFFICES ASSUME IInv, IInv', [TraceNext]_checkpointsVars, NEW k \in Key,
                    len > 0, k < _unsafeAccess(len - 1)._key
             PROVE  ValueAt(k)' = ValueAt(k)
  BY DEF OnlyTip
<1>1. CASE UNCHANGED _checkpoints
  BY <1>1, StoredValues
<1>2. ASSUME NEW key \in Key, NEW value, TracePush(key, value)
      PROVE  ValueAt(k)' = ValueAt(k)
  BY <1>2, InsertsAtTip DEF TracePush
<1> QED
  BY <1>1, <1>2
  DEF TraceNext, TraceLookup, Begin, LookupStep, Bisect, Found, Returned, checkpointsVars

LEMMA HistoryPast == IInv /\ IInv' /\ [HistoryNext]_checkpointsVars => OnlyTip /\ Past
<1> SUFFICES ASSUME IInv, IInv', [HistoryNext]_checkpointsVars, NEW k \in Key
             PROVE  /\ len > 0 /\ k < _unsafeAccess(len - 1)._key
                          => ValueAt(k)' = ValueAt(k)
                    /\ k < block => ValueAt(k)' = ValueAt(k)
  BY DEF OnlyTip, Past
<1>1. CASE UNCHANGED _checkpoints
  BY <1>1, StoredValues
<1>2. CASE \E value : HistoryPush(value)
  <2>1. PICK value : HistoryPush(value)
    BY <1>2
  <2>2. /\ block \in Key
        /\ _insert(block, value) /\ Recorded(block, value)
    BY <2>1 DEF HistoryPush, CastSucceeds, Uint32, IInv, CheckpointsTypeOK, Key
  <2>3. len > 0 /\ k < _unsafeAccess(len - 1)._key => ValueAt(k)' = ValueAt(k)
    BY <2>2, InsertsAtTip
  <2>4. k < block => ValueAt(k)' = ValueAt(k)
    BY <2>2, PushKeepsBefore
  <2> QED
    BY <2>3, <2>4
<1>3. (\E value : HistoryPush(value)) \/ UNCHANGED _checkpoints
  BY DEF HistoryNext, HistoryPushOp, getAtBlock, getAtProbablyRecentBlock, Begin,
         LookupStep, Bisect, Found, Returned, NextBlock, checkpointsVars
<1> QED
  BY <1>1, <1>2, <1>3

\* A push changes nothing before the last key of a Trace, whatever key its
\* caller gives (_insert).
THEOREM TraceOnlyTip == TraceSpec => OnlyTipChanges
<1>1. IInv /\ IInv' /\ [TraceNext]_checkpointsVars => [OnlyTip]_checkpointsVars
  BY TraceTip
<1> QED
  BY <1>1, TraceInvariant, PTL DEF TraceSpec, OnlyTipChanges, OnlyTip

\* The value of a History at a block that is past stays what it was.
THEOREM HistoryPastIsFixed == HistorySpec => PastIsFixed /\ OnlyTipChanges
<1>1. IInv /\ IInv' /\ [HistoryNext]_checkpointsVars =>
        [OnlyTip]_checkpointsVars /\ [Past]_checkpointsVars
  BY HistoryPast
<1>2. HistorySpec => []IInv
  BY InitIInv, HistoryStep, PTL DEF HistorySpec
<1> QED
  BY <1>1, <1>2, PTL DEF HistorySpec, OnlyTipChanges, OnlyTip, PastIsFixed, Past

-----------------------------------------------------------------------------
(* Powers of two *)

\* The prover knows of powers only that a set of n elements has 2 ^ n subsets.
LEMMA PowerCounts ==
  ASSUME NEW n \in Nat
  PROVE  /\ IsFiniteSet(1..n) /\ IsFiniteSet(SUBSET (1..n))
         /\ Cardinality(SUBSET (1..n)) = 2 ^ n
         /\ 2 ^ n \in Nat /\ 2 ^ n > 0
<1>1. IsFiniteSet(1..n) /\ Cardinality(1..n) = n
  <2>1. (IF 1 > n THEN 0 ELSE n - 1 + 1) = n
    OBVIOUS
  <2> QED
    BY <2>1, FS_Interval
<1>2. IsFiniteSet(SUBSET (1..n)) /\ Cardinality(SUBSET (1..n)) = 2 ^ n
  BY <1>1, FS_SUBSET
<1>3. SUBSET (1..n) # {}
  OBVIOUS
<1>4. Cardinality(SUBSET (1..n)) \in Nat /\ Cardinality(SUBSET (1..n)) # 0
  BY <1>2, <1>3, FS_CardinalityType, FS_EmptySet
<1> QED
  BY <1>1, <1>2, <1>4

LEMMA PowerDoubles == ASSUME NEW n \in Nat PROVE 2 ^ (n + 1) = 2 * 2 ^ n
<1> DEFINE A == SUBSET (1..n)
           B == {s \cup {n + 1} : s \in A}
           f == [s \in A |-> s \cup {n + 1}]
<1>1. IsFiniteSet(A) /\ Cardinality(A) = 2 ^ n /\ 2 ^ n \in Nat
  BY PowerCounts
<1>2. Cardinality(SUBSET (1..(n + 1))) = 2 ^ (n + 1)
  <2>1. n + 1 \in Nat
    OBVIOUS
  <2> QED
    BY <2>1, PowerCounts
<1>3. n + 1 \notin 1..n /\ 1..(n + 1) = (1..n) \cup {n + 1}
  OBVIOUS
<1>4. SUBSET (1..(n + 1)) = A \cup B
  <2>1. ASSUME NEW s \in SUBSET (1..(n + 1)), s \notin A PROVE s \in B
    <3>1. s \ {n + 1} \in A /\ n + 1 \in s
      BY <1>3, <2>1
    <3>2. s = (s \ {n + 1}) \cup {n + 1}
      BY <3>1
    <3> QED
      BY <3>1, <3>2
  <2> QED
    BY <1>3, <2>1
<1>5. A \cap B = {}
  BY <1>3
<1>6. f \in Bijection(A, B)
  <2>1. \A s, t \in A : f[s] = f[t] => s = t
    <3> SUFFICES ASSUME NEW s \in A, NEW t \in A, s \cup {n + 1} = t \cup {n + 1}
                 PROVE  s = t
      OBVIOUS
    <3>1. n + 1 \notin s /\ n + 1 \notin t
      BY <1>3
    <3> QED
      BY <3>1
  <2>2. f \in [A -> B] /\ \A t \in B : \E s \in A : f[s] = t
    OBVIOUS
  <2>3. f \in Injection(A, B)
    <3> HIDE DEF A, B, f
    <3> QED
      BY <2>1, <2>2 DEF Injection, IsInjective
  <2>4. f \in Surjection(A, B)
    <3> HIDE DEF A, B, f
    <3> QED
      BY <2>2 DEF Surjection
  <2> QED
    BY <2>3, <2>4 DEF Bijection
<1>7. IsFiniteSet(B) /\ Cardinality(B) = 2 ^ n
  BY <1>1, <1>6, FS_Bijection DEF ExistsBijection
<1>8. Cardinality(A \cup B) = 2 ^ n + 2 ^ n - Cardinality(A \cap B)
  BY <1>1, <1>7, FS_Union
<1>9. Cardinality(A \cap B) = 0
  BY <1>5, FS_EmptySet
<1>10. 2 ^ (n + 1) = 2 ^ n + 2 ^ n - 0
  BY <1>2, <1>4, <1>8, <1>9
<1> QED
  BY <1>1, <1>10

\* A power of two divides those above it.
LEMMA PowerDivides ==
  ASSUME NEW m \in Nat, NEW d \in Nat
  PROVE  2 ^ m <= 2 ^ (m + d) /\ \E k \in Nat : 2 ^ (m + d) = k * 2 ^ m
<1> DEFINE Above(e) ==
             2 ^ m <= 2 ^ (m + e) /\ \E k \in Nat : 2 ^ (m + e) = k * 2 ^ m
           Bad == {e \in Nat : ~Above(e)}
<1>1. SUFFICES ASSUME Bad # {} PROVE FALSE
  OBVIOUS
<1>2. PICK e \in Bad : \A i \in Bad : e <= i
  <2>1. Bad \in SUBSET Nat
    OBVIOUS
  <2> HIDE DEF Bad
  <2> QED
    BY <1>1, <2>1, Smallest
<1>3. e \in Nat /\ ~Above(e)
  OBVIOUS
<1> HIDE DEF Bad
<1>4. 2 ^ m \in Nat /\ 2 ^ m > 0
  BY PowerCounts
<1>5. CASE e = 0
  <2>1. m + e = m /\ 2 ^ m = 1 * 2 ^ m
    BY <1>4, <1>5
  <2> QED
    BY <1>3, <1>4, <2>1
<1>6. CASE e > 0
  <2>1. e - 1 \in Nat /\ m + e = (m + (e - 1)) + 1 /\ m + (e - 1) \in Nat
    BY <1>3, <1>6
  <2>2. Above(e - 1)
    <3>1. e - 1 \notin Bad
      BY <1>2, <1>3, <2>1
    <3> QED
      BY <2>1, <3>1 DEF Bad
  <2>3. PICK k \in Nat : 2 ^ (m + (e - 1)) = k * 2 ^ m
    BY <2>2
  <2>4. 2 ^ (m + e) = 2 * 2 ^ (m + (e - 1)) /\ 2 ^ (m + (e - 1)) \in Nat
    BY <2>1, PowerDoubles, PowerCounts
  <2>5. 2 ^ (m + e) = (2 * k) * 2 ^ m /\ 2 * k \in Nat
    <3>1. PICK p \in Nat : p = 2 ^ m
      BY <1>4
    <3>2. 2 * (k * p) = (2 * k) * p
      OBVIOUS
    <3> QED
      BY <2>3, <2>4, <3>1, <3>2
  <2>6. 2 ^ m <= 2 ^ (m + e)
    BY <1>4, <2>2, <2>4
  <2> QED
    BY <1>3, <2>5, <2>6
<1> QED
  BY <1>3, <1>5, <1>6

\* Remainders, as three facts the prover knows.
LEMMA ModSmall ==
  ASSUME NEW a \in Nat, NEW b \in Nat, a < b PROVE a % b = a
  OBVIOUS

LEMMA ModMultiple ==
  ASSUME NEW b \in Nat, b > 0, NEW k \in Nat, NEW a \in Nat, a < b
  PROVE (k * b + a) % b = a
  OBVIOUS

LEMMA ModRange ==
  ASSUME NEW b \in Nat, b > 0, NEW a \in Nat
  PROVE a % b \in Nat /\ a % b < b
  OBVIOUS

-----------------------------------------------------------------------------
(* Casts *)

CastTyped == argument \in Register /\ argument.length = FullLength

\* What one bit less comes to.
LEMMA PowerHalves ==
  ASSUME NEW n \in Nat \ {0}
  PROVE  /\ 2 ^ n \in Nat /\ 2 ^ (n - 1) \in Nat /\ 2 ^ (n - 1) > 0
         /\ 2 ^ n = 2 * 2 ^ (n - 1)
<1>1. n - 1 \in Nat /\ (n - 1) + 1 = n
  OBVIOUS
<1>2. 2 ^ ((n - 1) + 1) = 2 * 2 ^ (n - 1)
  BY <1>1, PowerDoubles
<1> QED
  BY <1>1, <1>2, PowerCounts

\* A call that succeeds exactly when its argument is a number of the type
\* asked for, and returns that number.
Right(allowed, r) ==
  LET fits == Number(argument) \in MinOf(r.signed, r.length)..MaxOf(r.signed, r.length)
  IN  (allowed <=> fits) /\ (fits => Number(r) = Number(argument))

LEMMA CameRight ==
  ASSUME UNCHANGED argument, NEW allowed \in BOOLEAN, NEW r, Right(allowed, r),
         Came(allowed, r)
  PROVE  CastsAreExact'
<1>1. /\ outcome'.done /\ outcome'.reverted = ~allowed /\ outcome'.register = r
  BY DEF Came
<1> QED
  BY <1>1 DEF CastsAreExact, Right, Number

LEMMA ArgumentBits ==
  ASSUME CastTyped
  PROVE  /\ argument.bits \in Nat /\ argument.bits < 2 ^ FullLength
         /\ argument.signed \in BOOLEAN
         /\ argument.length = FullLength
         /\ FullLength \in Nat /\ FullLength \in Nat \ {0}
<1>1. 2 ^ FullLength \in Nat /\ FullLength \in Nat \ {0}
  BY LengthAssumption, PowerCounts
<1> QED
  BY <1>1 DEF CastTyped, Register

LEMMA ToUintDownRight ==
  ASSUME CastTyped, NEW n \in LENGTHS, ~argument.signed
  PROVE  Right(toUintDownCastAllowed(argument, n), Cast(argument, FALSE, n))
<1>1. n \in Nat
  BY LengthAssumption
<1>2. PICK p \in Nat : p = 2 ^ n
  BY <1>1, PowerCounts
<1>3. PICK x \in Nat : x = argument.bits
  BY ArgumentBits
<1>4. PICK r : r = Cast(argument, FALSE, n)
  OBVIOUS
<1>5. r.signed = FALSE /\ r.length = n /\ r.bits = x % p
  BY <1>2, <1>3, <1>4 DEF Cast
<1>6. x < p => x % p = x
  BY <1>2, <1>3, ModSmall
<1>7. Number(argument) = x /\ Number(r) = x % p
  BY <1>3, <1>5 DEF Number
<1>8. MinOf(r.signed, r.length) = 0 /\ MaxOf(r.signed, r.length) = p - 1
      /\ MaxOf(FALSE, n) = p - 1
  BY <1>2, <1>5 DEF MinOf, MaxOf
<1>9. toUintDownCastAllowed(argument, n) <=> x <= p - 1
  BY <1>7, <1>8 DEF toUintDownCastAllowed
<1>10. Right(toUintDownCastAllowed(argument, n), r)
  BY <1>2, <1>3, <1>6, <1>7, <1>8, <1>9 DEF Right
<1> QED
  BY <1>4, <1>10

LEMMA ToIntRight ==
  ASSUME CastTyped, ~argument.signed
  PROVE  Right(toIntAllowed(argument), Cast(argument, TRUE, FullLength))
<1>1. PICK h \in Nat : h = 2 ^ (FullLength - 1) /\ 2 ^ FullLength = 2 * h
  BY ArgumentBits, PowerHalves
<1>2. PICK x \in Nat : x = argument.bits /\ x < 2 * h
  BY <1>1, ArgumentBits
<1>3. PICK r : r = Cast(argument, TRUE, FullLength)
  OBVIOUS
<1>4. r.signed = TRUE /\ r.length = FullLength /\ r.bits = x % (2 * h)
  BY <1>1, <1>2, <1>3 DEF Cast
<1>5. r.bits = x
  <2>1. PICK f \in Nat : f = 2 * h
    OBVIOUS
  <2>2. x % f = x
    BY <1>2, <2>1, ModSmall
  <2> QED
    BY <1>4, <2>1, <2>2
<1>6. Number(argument) = x /\ (x < h => Number(r) = x)
  BY <1>1, <1>2, <1>4, <1>5 DEF Number
<1>7. MinOf(r.signed, r.length) = -h /\ MaxOf(r.signed, r.length) = h - 1
  BY <1>1, <1>4 DEF MinOf, MaxOf
<1>8. toIntAllowed(argument) <=> x <= h - 1
  <2>1. MaxOf(TRUE, argument.length) = h - 1
    BY <1>1, ArgumentBits DEF MaxOf
  <2> QED
    BY <1>2, <2>1 DEF toIntAllowed
<1>9. Right(toIntAllowed(argument), r)
  BY <1>1, <1>2, <1>6, <1>7, <1>8 DEF Right
<1> QED
  BY <1>3, <1>9

\* The number of a signed argument, by the half of its range.
LEMMA SignedArgument ==
  ASSUME CastTyped, argument.signed
  PROVE  \E h, x \in Nat :
            /\ 2 ^ FullLength = 2 * h /\ h > 0
            /\ x = argument.bits /\ x < 2 * h
            /\ x < h => Number(argument) = x
            /\ x >= h => Number(argument) = x - 2 * h
<1>1. PICK h \in Nat : h = 2 ^ (FullLength - 1) /\ 2 ^ FullLength = 2 * h /\ h > 0
  BY ArgumentBits, PowerHalves
<1>2. PICK x \in Nat : x = argument.bits /\ x < 2 * h /\ argument.length = FullLength
  BY <1>1, ArgumentBits
<1>3. /\ x < h => Number(argument) = x
      /\ x >= h => Number(argument) = x - 2 * h
  BY <1>1, <1>2 DEF Number
<1> QED
  BY <1>1, <1>2, <1>3

LEMMA ToUintRight ==
  ASSUME CastTyped, argument.signed
  PROVE  Right(toUintAllowed(argument), Cast(argument, FALSE, FullLength))
<1>1. PICK h \in Nat, x \in Nat :
            /\ 2 ^ FullLength = 2 * h /\ h > 0
            /\ x = argument.bits /\ x < 2 * h
            /\ x < h => Number(argument) = x
            /\ x >= h => Number(argument) = x - 2 * h
  BY SignedArgument
<1>2. PICK r : r = Cast(argument, FALSE, FullLength)
  OBVIOUS
<1>3. r.signed = FALSE /\ r.length = FullLength /\ r.bits = x % (2 * h)
  BY <1>1, <1>2 DEF Cast
<1>4. r.bits = x
  <2>1. PICK f \in Nat : f = 2 * h
    BY <1>1
  <2>2. x % f = x
    BY <1>1, <2>1, ModSmall
  <2> QED
    BY <1>3, <2>1, <2>2
<1>5. Number(r) = x
  BY <1>3, <1>4 DEF Number
<1>6. MinOf(r.signed, r.length) = 0 /\ MaxOf(r.signed, r.length) = 2 * h - 1
  BY <1>1, <1>3 DEF MinOf, MaxOf
<1>7. toUintAllowed(argument) <=> x < h
  BY <1>1 DEF toUintAllowed
<1>8. Right(toUintAllowed(argument), r)
  BY <1>1, <1>5, <1>6, <1>7 DEF Right
<1> QED
  BY <1>2, <1>8

Divides(part, full) == \E k \in Nat : full = k * part
LowPart(x, full, part) == x % part = x - full + part

\* Two's complement: the low bits of a number that fits are that number's.
LEMMA LowBits ==
  ASSUME NEW x \in Nat, NEW full \in Nat, x < full, NEW part \in Nat, part > 0,
         Divides(part, full), full - part <= x
  PROVE  LowPart(x, full, part)
<1>1. PICK k \in Nat : full = k * part /\ k > 0
  BY DEF Divides
<1>2. PICK a \in Nat, j \in Nat : a = x - full + part /\ j = k - 1 /\ a < part
  BY <1>1
<1>3. j * part = full - part
  BY <1>1, <1>2
<1>4. x = j * part + a
  BY <1>2, <1>3
<1>5. (j * part + a) % part = a
  BY <1>2, ModMultiple
<1> QED
  BY <1>2, <1>4, <1>5 DEF LowPart

LEMMA ToIntDownRight ==
  ASSUME CastTyped, NEW n \in LENGTHS, argument.signed
  PROVE  Right(toIntDownCastAllowed(argument, n), Cast(argument, TRUE, n))
<1>1. n \in Nat /\ n \in Nat \ {0} /\ n < FullLength /\ FullLength \in Nat
  BY LengthAssumption
<1>2. PICK h \in Nat, x \in Nat :
            /\ 2 ^ FullLength = 2 * h /\ h > 0
            /\ x = argument.bits /\ x < 2 * h
            /\ x < h => Number(argument) = x
            /\ x >= h => Number(argument) = x - 2 * h
  BY SignedArgument
<1>3. PICK g \in Nat : g = 2 ^ (n - 1) /\ 2 ^ n = 2 * g /\ g > 0
  BY <1>1, PowerHalves
<1>4. PICK k \in Nat : g <= h /\ 2 * h = k * (2 * g)
  <2>1. PICK d \in Nat : n + d = FullLength
    BY <1>1
  <2>2. 2 ^ n <= 2 ^ (n + d) /\ \E k \in Nat : 2 ^ (n + d) = k * 2 ^ n
    BY <1>1, PowerDivides
  <2> QED
    BY <1>2, <1>3, <2>1, <2>2
<1>5. PICK f \in Nat, p \in Nat : f = 2 * h /\ p = 2 * g
  BY <1>2, <1>3
<1>6. PICK r : r = Cast(argument, TRUE, n)
  OBVIOUS
<1>7. r.signed = TRUE /\ r.length = n /\ r.bits = x % p
  BY <1>2, <1>3, <1>5, <1>6 DEF Cast
<1>8. PICK y \in Nat : y = x % p /\ y < p
  BY <1>2, <1>3, <1>5, ModRange
<1>9. /\ y < g => Number(r) = y
      /\ y >= g => Number(r) = y - p
  BY <1>3, <1>5, <1>7, <1>8 DEF Number
<1>10. ASSUME Number(argument) \in (-g)..(g - 1)
       PROVE  Number(r) = Number(argument)
  <2>1. CASE x < h
    <3>1. Number(argument) = x /\ x < g /\ x < p
      BY <1>2, <1>3, <1>5, <1>10, <2>1
    <3>2. x % p = x
      BY <1>2, <1>5, <3>1, ModSmall
    <3> QED
      BY <1>8, <1>9, <3>1, <3>2
  <2>2. CASE x >= h
    <3>1. Number(argument) = x - f /\ f - g <= x
      BY <1>2, <1>3, <1>5, <1>10, <2>2
    <3>2. x < f /\ p > 0 /\ f - p <= x /\ f = k * p
      BY <1>2, <1>3, <1>4, <1>5, <3>1
    <3>3. x % p = x - f + p
      <4>1. x \in Nat /\ f \in Nat /\ p \in Nat /\ k \in Nat
        BY <1>2, <1>4, <1>5
      <4> QED
        <5>1. Divides(p, f)
          BY <3>2, <4>1 DEF Divides
        <5>2. LowPart(x, f, p)
          BY <3>2, <4>1, <5>1, LowBits
        <5> QED
          BY <5>2 DEF LowPart
    <3>4. y >= g
      BY <1>3, <1>5, <1>8, <3>1, <3>3
    <3> QED
      BY <1>2, <1>5, <1>8, <1>9, <3>1, <3>3, <3>4
  <2> QED
    BY <1>2, <2>1, <2>2
<1>11. MinOf(r.signed, r.length) = -g /\ MaxOf(r.signed, r.length) = g - 1
  BY <1>3, <1>7 DEF MinOf, MaxOf
<1>12. toIntDownCastAllowed(argument, n) <=> Number(r) = Number(argument)
  BY <1>6 DEF toIntDownCastAllowed
<1>13. Number(r) \in (-g)..(g - 1)
  BY <1>3, <1>5, <1>8, <1>9
<1>14. Right(toIntDownCastAllowed(argument, n), r)
  BY <1>10, <1>11, <1>12, <1>13 DEF Right
<1> QED
  BY <1>6, <1>14

LEMMA CastStep == CastTyped /\ CastsAreExact /\ [CastNext]_castVars
                    => CastTyped' /\ CastsAreExact'
<1> SUFFICES ASSUME CastTyped, CastsAreExact, [CastNext]_castVars
             PROVE  CastTyped' /\ CastsAreExact'
  OBVIOUS
<1>1. CASE UNCHANGED castVars
  BY <1>1 DEF castVars, CastTyped, Register, CastsAreExact, Number
<1>2. CASE NextArgument
  <2>1. ~outcome'.done
    BY <1>2 DEF NextArgument, Uncalled
  <2> QED
    BY <1>2, <2>1 DEF NextArgument, CastTyped, CastsAreExact
<1>3. ASSUME UNCHANGED argument, toInt PROVE CastsAreExact'
  <2>1. toIntAllowed(argument) \in BOOLEAN
    BY DEF toIntAllowed
  <2> QED
    BY <1>3, <2>1, ToIntRight, CameRight DEF toInt
<1>4. ASSUME UNCHANGED argument, toUint PROVE CastsAreExact'
  <2>1. toUintAllowed(argument) \in BOOLEAN
    BY DEF toUintAllowed
  <2> QED
    BY <1>4, <2>1, ToUintRight, CameRight DEF toUint
<1>5. ASSUME UNCHANGED argument, NEW n \in LENGTHS, toUintDownCast(n)
      PROVE  CastsAreExact'
  <2>1. toUintDownCastAllowed(argument, n) \in BOOLEAN
    BY DEF toUintDownCastAllowed
  <2> QED
    BY <1>5, <2>1, ToUintDownRight, CameRight DEF toUintDownCast
<1>6. ASSUME UNCHANGED argument, NEW n \in LENGTHS, toIntDownCast(n)
      PROVE  CastsAreExact'
  <2>1. toIntDownCastAllowed(argument, n) \in BOOLEAN
    BY DEF toIntDownCastAllowed
  <2> QED
    BY <1>6, <2>1, ToIntDownRight, CameRight DEF toIntDownCast
<1>7. UNCHANGED argument => CastTyped'
  BY DEF CastTyped, Register
<1> QED
  BY <1>1, <1>2, <1>3, <1>4, <1>5, <1>6, <1>7 DEF CastNext

\* Every cast returns the number it was given or reverts because the type
\* has no such number, for registers and lengths of any number of bits.
THEOREM CastsExact == CastSpec => []CastsAreExact
<1>1. CastInit => CastTyped /\ CastsAreExact
  <2> SUFFICES ASSUME CastInit PROVE CastTyped /\ CastsAreExact
    OBVIOUS
  <2>1. 2 ^ FullLength \in Nat /\ 2 ^ FullLength > 0
    BY LengthAssumption, PowerCounts
  <2> QED
    BY <2>1 DEF CastInit, CastTyped, Register, CastsAreExact, Uncalled
<1> QED
  BY <1>1, CastStep, PTL DEF CastSpec
=============================================================================
