------------------------- MODULE MCIngestionManifest -------------------------
(***************************************************************************)
(* Values for IngestionManifest: two processes, one record id, a record    *)
(* that is routed to the fast lane and one that is quarantined.            *)
(***************************************************************************)
EXTENDS IngestionManifest

CONSTANTS p1, p2, i1

MCProc == {p1, p2}
MCId   == {i1}

MCEntry == {[id |-> i1, lane |-> "fast",       flags |-> {}],
            [id |-> i1, lane |-> "quarantine", flags |-> {}]}

NoFaults  == {}
AllFaults == {"append", "rewrite", "crash"}
=============================================================================
