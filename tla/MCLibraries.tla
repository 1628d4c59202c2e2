---------------------------- MODULE MCLibraries ----------------------------
(* One of the generated libraries, chosen once: a map over its set of      *)
(* keys, a Trace, a History, or the casts of their keys and values.        *)
EXTENDS EnumerableMap, CheckpointsSafety, SafeCast

VARIABLE kind       \* "Map", "Trace", "History" or "SafeCast"

mcVars == <<mapVars, checkpointsVars, castVars, kind>>

InitKind ==
    /\ MapInit /\ CheckpointsInit /\ CastInit
    /\ kind \in {"Map", "Trace", "History", "SafeCast"}
NextKind ==
    /\ \/ kind = "Map" /\ MapNext /\ UNCHANGED <<checkpointsVars, castVars>>
       \/ kind = "Trace" /\ TraceNext /\ UNCHANGED <<mapVars, castVars>>
       \/ kind = "History" /\ HistoryNext /\ UNCHANGED <<mapVars, castVars>>
       \/ kind = "SafeCast" /\ CastNext /\ UNCHANGED <<mapVars, checkpointsVars>>
    /\ UNCHANGED kind

\* A search is one uninterrupted view: it goes on.
FairSpec == InitKind /\ [][NextKind]_mcVars /\ WF_checkpointsVars(LookupStep)
=============================================================================
