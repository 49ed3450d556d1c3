-------------------------- MODULE MCIngestionPipeline --------------------------
(***************************************************************************)
(* Values for IngestionPipeline: a record with an invalid id and a valid   *)
(* one, and two runs that may be under way together.                       *)
(***************************************************************************)
EXTENDS IngestionPipeline

CONSTANTS x1, x2, r1, r2

MCId      == {x1, x2}
MCInvalid == {x2}
MCRun     == {r1, r2}
=============================================================================
