------------------------ MODULE MCSequentialPerformer ------------------------
(***************************************************************************)
(* Two sequential ad-hoc subprocesses sharing a performer, one with two    *)
(* child activities.                                                       *)
(***************************************************************************)
EXTENDS SequentialPerformer

CONSTANTS a, b, c, adhoc1, adhoc2

MCTokens == {a, b, c}
MCScopes == {adhoc1, adhoc2}
MCScopeOf == [t \in MCTokens |-> IF t = c THEN adhoc2 ELSE adhoc1]
=============================================================================
