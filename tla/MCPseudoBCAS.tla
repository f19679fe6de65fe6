---------------------------- MODULE MCPseudoBCAS ----------------------------
(***************************************************************************)
(* An instance of the pseudo B-CAS card with a history of two ECMs, which  *)
(* overflows, and no more memory than it needs, so that it is used again.  *)
(***************************************************************************)
EXTENDS PseudoBCAS

CONSTANTS e1, e2, c1, c2, c3, c4

MCEcm   == {e1, e2}
MCCells == {c1, c2, c3, c4}
=============================================================================
