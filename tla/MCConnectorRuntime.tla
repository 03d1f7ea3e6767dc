------------------------- MODULE MCConnectorRuntime -------------------------
(* Two sources of one type, with different credentials, and one of another.*)
EXTENDS ConnectorRuntime, TLC

CONSTANTS g, j

MCTypes == {g, j}
MCTypeOf == 1 :> g @@ 2 :> g @@ 3 :> j
=============================================================================
