-------------------------- MODULE MCRouterOutbound --------------------------
(***************************************************************************)
(* Small instances of RouterOutbound.                                      *)
(***************************************************************************)
EXTENDS RouterOutbound

CONSTANT r1

\* The router is who its RC says it is.
Same == [r \in Remotes |-> r]
=============================================================================
