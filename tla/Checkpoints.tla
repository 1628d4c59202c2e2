----------------------------- MODULE Checkpoints -----------------------------
(***************************************************************************)
(* OpenZeppelin's Checkpoints (templates/Checkpoints.js): a growing array  *)
(* of keys and values, searched by bisection.  It is generated as Trace,   *)
(* whose caller gives the keys, and as History, whose keys are blocks.     *)
(* The functions are views within one transaction: no push comes between   *)
(* the steps of a search.  Positions are those of the source: self[pos] is *)
(* _checkpoints[pos + 1].                                                  *)
(***************************************************************************)
EXTENDS Integers, Sequences, FiniteSets

CONSTANTS
    KeyMax, ValueMax,   \* the largest uint32 and uint224, or uint96 and uint160
    PushedValues,       \* values that are pushed, also too large ones
    MaxBlock            \* bound: the last block

ASSUME RangeAssumption ==
    /\ KeyMax \in Nat /\ ValueMax \in Nat /\ MaxBlock \in Nat
    /\ PushedValues \subseteq Nat

Key == 0..KeyMax
Value == 0..ValueMax

VARIABLES
    _checkpoints,
    block,              \* block.number
    search,             \* the lookup in progress
    inForce, keys       \* history: the value in force at each key, and the
                        \* keys that were pushed

checkpointsVars == <<_checkpoints, block, search, inForce, keys>>

Checkpoint == [_key : Key, _value : Value]
LookupFn == {"lowerLookup", "upperLookup", "getAtBlock", "getAtProbablyRecentBlock"}
Search ==
    [pc : {"idle", "search", "done"}, fn : LookupFn, key : Key,
     low : Nat, high : Nat, answer : Value]

Idle ==
    [pc |-> "idle", fn |-> "upperLookup", key |-> 0, low |-> 0, high |-> 0,
     answer |-> 0]

CheckpointsInit ==
    /\ _checkpoints = <<>>
    /\ block = 0
    /\ search = Idle
    /\ inForce = [k \in Key |-> 0]
    /\ keys = {}

len == Len(_checkpoints)
_unsafeAccess(pos) == _checkpoints[pos + 1]
latest == IF len = 0 THEN 0 ELSE _unsafeAccess(len - 1)._value

\* Mutant: keys need not increase.
_insert_Unordered(key, value) ==
    _checkpoints' =
        IF len > 0 /\ _unsafeAccess(len - 1)._key = key
        THEN [_checkpoints EXCEPT ![len]._value = value]
        ELSE Append(_checkpoints, [_key |-> key, _value |-> value])

\* A new checkpoint, or a new value for the last one.
_insert(key, value) ==
    /\ len > 0 => _unsafeAccess(len - 1)._key <= key
    /\ _checkpoints' =
          IF len > 0 /\ _unsafeAccess(len - 1)._key = key
          THEN [_checkpoints EXCEPT ![len]._value = value]
          ELSE Append(_checkpoints, [_key |-> key, _value |-> value])

Recorded(key, value) ==
    /\ inForce' = [k \in Key |-> IF k >= key THEN value ELSE inForce[k]]
    /\ keys' = keys \cup {key}
    /\ UNCHANGED <<block, search>>

\* Mutant: toUint32 wraps.
Uint32_Wraps(n) == n % (KeyMax + 1)

\* What SafeCast.toUint32 returns if it does not revert.
Uint32(n) == n
CastSucceeds(n) == Uint32(n) <= KeyMax

\* push of a Trace, and the two of a History.
TracePush(key, value) ==
    /\ search.pc = "idle"
    /\ _insert(key, value)
    /\ Recorded(key, value)
HistoryPush(value) ==
    /\ search.pc = "idle"
    /\ CastSucceeds(block) /\ value <= ValueMax
    /\ _insert(Uint32(block), value)
    /\ Recorded(Uint32(block), value)
HistoryPushOp(op, delta) ==
    CASE op = "add" -> HistoryPush(latest + delta)
      [] op = "subtract" -> latest >= delta /\ HistoryPush(latest - delta)

-----------------------------------------------------------------------------
(* Lookups *)

Begin(fn, key, low, high) ==
    /\ search.pc = "idle"
    /\ search' = [pc |-> "search", fn |-> fn, key |-> key, low |-> low,
                  high |-> high, answer |-> 0]
    /\ UNCHANGED <<_checkpoints, block, inForce, keys>>

\* lowerLookup and upperLookup of a Trace; getAtBlock of a History.
TraceLookup(fn, key) == Begin(fn, key, 0, len)
getAtBlock(blockNumber) ==
    /\ blockNumber < block /\ CastSucceeds(blockNumber)
    /\ Begin("getAtBlock", Uint32(blockNumber), 0, len)

\* Math.sqrt, rounded down.
Sqrt(n) == Cardinality({r \in 1..n : r * r <= n})

\* Mutant: the middle itself is not part of the recent range.
RecentRange_SkipsMiddle(key) ==
    LET mid == len - Sqrt(len) IN
    IF len <= 5 THEN <<0, len>>
    ELSE IF key <= _unsafeAccess(mid)._key THEN <<0, mid>> ELSE <<mid + 1, len>>

\* Only the last sqrt(len) checkpoints are searched if the key is there.
RecentRange(key) ==
    LET mid == len - Sqrt(len) IN
    IF len <= 5 THEN <<0, len>>
    ELSE IF key < _unsafeAccess(mid)._key THEN <<0, mid>> ELSE <<mid + 1, len>>

getAtProbablyRecentBlock(blockNumber) ==
    LET key == Uint32(blockNumber)
        range == RecentRange(key)
    IN  /\ blockNumber < block /\ CastSucceeds(blockNumber)
        /\ Begin("getAtProbablyRecentBlock", key, range[1], range[2])

Mid == (search.low + search.high) \div 2
IsLower == search.fn = "lowerLookup"

\* Mutant: the lower bound stays at the middle.
Bisected_Stuck(isLower) ==
    IF (IF isLower THEN _unsafeAccess(Mid)._key < search.key
        ELSE ~(_unsafeAccess(Mid)._key > search.key))
    THEN [search EXCEPT !.low = Mid] ELSE [search EXCEPT !.high = Mid]

\* One iteration of _lowerBinaryLookup or _upperBinaryLookup.
Bisected(isLower) ==
    IF (IF isLower THEN _unsafeAccess(Mid)._key < search.key
        ELSE ~(_unsafeAccess(Mid)._key > search.key))
    THEN [search EXCEPT !.low = Mid + 1] ELSE [search EXCEPT !.high = Mid]

Bisect ==
    /\ search.pc = "search" /\ search.low < search.high
    /\ search' = Bisected(IsLower)
    /\ UNCHANGED <<_checkpoints, block, inForce, keys>>

\* Mutant: a lower lookup past the last key answers with the last value.
Answer_PastEnd(pos) ==
    IF IsLower THEN IF pos = len THEN latest ELSE _unsafeAccess(pos)._value
    ELSE IF pos = 0 THEN 0 ELSE _unsafeAccess(pos - 1)._value

Answer(pos) ==
    IF IsLower THEN IF pos = len THEN 0 ELSE _unsafeAccess(pos)._value
    ELSE IF pos = 0 THEN 0 ELSE _unsafeAccess(pos - 1)._value

Found ==
    /\ search.pc = "search" /\ search.low >= search.high
    /\ search' = [search EXCEPT !.pc = "done", !.answer = Answer(search.high)]
    /\ UNCHANGED <<_checkpoints, block, inForce, keys>>

LookupStep == Bisect \/ Found

Returned ==
    /\ search.pc = "done"
    /\ search' = Idle
    /\ UNCHANGED <<_checkpoints, block, inForce, keys>>

NextBlock ==
    /\ search.pc = "idle" /\ block < MaxBlock
    /\ block' = block + 1
    /\ UNCHANGED <<_checkpoints, search, inForce, keys>>

TraceNext ==
    \/ \E key \in Key, value \in PushedValues \cap Value : TracePush(key, value)
    \/ \E key \in Key, fn \in {"lowerLookup", "upperLookup"} : TraceLookup(fn, key)
    \/ LookupStep \/ Returned

HistoryNext ==
    \/ \E value \in PushedValues : HistoryPush(value)
    \/ \E op \in {"add", "subtract"}, delta \in PushedValues : HistoryPushOp(op, delta)
    \/ \E n \in 0..MaxBlock : getAtBlock(n) \/ getAtProbablyRecentBlock(n)
    \/ LookupStep \/ Returned
    \/ NextBlock

TraceSpec == CheckpointsInit /\ [][TraceNext]_checkpointsVars
HistorySpec == CheckpointsInit /\ [][HistoryNext]_checkpointsVars
=============================================================================
