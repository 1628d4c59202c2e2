----------------------------- MODULE AbstractSet -----------------------------
(* A set, the last element asked for and whether that changed the set. *)
EXTENDS FiniteSets

CONSTANT Member
VARIABLES members, asked, changed

vars == <<members, asked, changed>>

Init == members = {} /\ asked = 0 /\ changed = FALSE

Add(v) ==
    /\ members' = members \cup {v}
    /\ changed' = (v \notin members)

Remove(v) ==
    /\ members' = members \ {v}
    /\ changed' = (v \in members)

Next == \E v \in Member : (Add(v) \/ Remove(v)) /\ asked' = v

Spec == Init /\ [][Next]_vars
=============================================================================
