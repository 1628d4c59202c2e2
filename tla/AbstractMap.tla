----------------------------- MODULE AbstractMap -----------------------------
(* A function whose domain grows and shrinks, and the last operation. *)
CONSTANTS Key, Value
VARIABLES map, asked, given, changed

vars == <<map, asked, given, changed>>

Init == map = <<>> /\ asked = 0 /\ given = 0 /\ changed = FALSE

Set(k, v) ==
    /\ map' = [x \in DOMAIN map \cup {k} |-> IF x = k THEN v ELSE map[x]]
    /\ asked' = k /\ given' = v
    /\ changed' = (k \notin DOMAIN map)

Remove(k) ==
    /\ map' = [x \in DOMAIN map \ {k} |-> map[x]]
    /\ asked' = k /\ UNCHANGED given
    /\ changed' = (k \in DOMAIN map)

Next == \E k \in Key : Remove(k) \/ \E v \in Value : Set(k, v)

Spec == Init /\ [][Next]_vars
=============================================================================
