----------------------------- MODULE MCHardening -----------------------------
(***************************************************************************)
(* Values for Hardening.                                                   *)
(***************************************************************************)
EXTENDS Hardening

CONSTANTS a1, a2, b1, b2

MCCall     == {a1, a2}
MCProvider == {b1, b2}
MCPriority == [p \in MCProvider |-> IF p = b1 THEN 2 ELSE 1]
=============================================================================
