----------------------------- MODULE ManifestLog -----------------------------
(***************************************************************************)
(* What the ingestion manifest promises, without files, locks or           *)
(* processes: a log that only grows at its end, and from which a line      *)
(* leaves in one of two ways.  It is moved to the archive, or it is a line *)
(* nobody can parse and is thrown away.  IngestionManifest implements it   *)
(* (property Implements there).                                            *)
(***************************************************************************)
EXTENDS Naturals

CONSTANT  Garbled     \* what a line that does not parse holds

VARIABLES log,        \* the lines of the manifest; each has a position n
          archived    \* the lines of the archive files

logVars == <<log, archived>>

Init == log = {} /\ archived = {}

\* A writer adds one line behind every line there ever was.
Add(l) ==
  /\ \A m \in log \cup archived : m.n < l.n
  /\ log' = log \cup {l}
  /\ UNCHANGED archived

\* Lines move to the archive: they enter it in the step that takes them out.
\* Lines that do not parse are dropped on the way.
Move(S, T) ==
  /\ \A l \in T : l.rec = Garbled
  /\ log' = log \ (S \cup T)
  /\ archived' = archived \cup S

Next ==
  \/ \E l \in log' : Add(l)
  \/ \E S, T \in SUBSET log : Move(S, T)

Spec == Init /\ [][Next]_logVars
=============================================================================
