-------------------------- MODULE CheckpointsSafety --------------------------
(* What Checkpoints promises, of its Traces and of its Histories. *)
EXTENDS Checkpoints

\* Every variable has its type.
CheckpointsTypeOK ==
    /\ _checkpoints \in Seq(Checkpoint)
    /\ block \in Nat
    /\ search \in Search
    /\ inForce \in [Key -> Value]
    /\ keys \subseteq Key

\* Keys strictly increase.
Increasing ==
    \A i, j \in 1..len : i < j => _checkpoints[i]._key < _checkpoints[j]._key

\* The array is the history of the pushes: a checkpoint holds from its key
\* to the next one, and zero before the first.
IsHistory ==
    /\ keys = {_checkpoints[i]._key : i \in 1..len}
    /\ \A k \in Key :
          (\A i \in 1..len : k < _checkpoints[i]._key) => inForce[k] = 0
    /\ \A k \in Key, i \in 1..len :
          /\ _checkpoints[i]._key <= k
          /\ i < len => k < _checkpoints[i + 1]._key
          => inForce[k] = _checkpoints[i]._value

\* What a search has found out: the checkpoints below low are before the
\* one it looks for, those from high on are not.
Before(i) ==
    IF IsLower THEN _checkpoints[i]._key < search.key
    ELSE _checkpoints[i]._key <= search.key
Bracketed ==
    search.pc = "search" =>
        /\ search.low <= search.high /\ search.high <= len
        /\ \A i \in 1..len :
              /\ i <= search.low => Before(i)
              /\ i > search.high => ~Before(i)

\* A search answers with the value in force at the key; a lower search with
\* that of the next key that was pushed (Checkpoints.js:47-63, 84-124): no
\* matter how often the last checkpoint was overwritten, where the key lies
\* among the others, or which part of the array was searched.
Expected ==
    IF ~IsLower THEN inForce[search.key]
    ELSE LET later == {k \in keys : k >= search.key}
         IN  IF later = {} THEN 0
             ELSE inForce[CHOOSE k \in later : \A l \in later : k <= l]
LookupsRight == search.pc = "done" => search.answer = Expected

\* The invariant that is inductive.
IInv ==
    CheckpointsTypeOK /\ Increasing /\ IsHistory /\ Bracketed /\ LookupsRight

\* What a bisection would find now, from the array alone.
ValueAt(k) ==
    LET S == {i \in 1..len : _checkpoints[i]._key <= k} IN
    IF S = {} THEN 0
    ELSE _checkpoints[CHOOSE i \in S : \A j \in S : j <= i]._value

\* The value at a block that is past is never changed, by pushes in later
\* blocks or by the block number outgrowing the type of the keys: what a
\* vote counted stays so (Checkpoints.js:84, getAtBlock).
PastIsFixed ==
    [][\A k \in Key : k < block => ValueAt(k)' = ValueAt(k)]_checkpointsVars

\* In a Trace a push changes nothing before the last key, whatever key its
\* caller gives (Checkpoints.js:155, _insert).
OnlyTipChanges ==
    [][\A k \in Key :
          len > 0 /\ k < _unsafeAccess(len - 1)._key =>
              ValueAt(k)' = ValueAt(k)]_checkpointsVars

\* Every search ends.
SearchEnds == search.pc = "search" ~> search.pc = "done"
=============================================================================
