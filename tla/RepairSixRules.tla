----------------------------- MODULE RepairSixRules -----------------------------
(***************************************************************************)
(* The repair of the manifest under the six rules                          *)
(* (ingestion/repairManifest.SixRules.ts): it counts the lines of the      *)
(* manifest, repairs it and judges the repair by criteria and by the       *)
(* lines that are gone since the count.  The count takes no lock, so other *)
(* processes append, prune and repair between it and the repair, and it    *)
(* may find the file emptied by one that rewrites it.                      *)
(*                                                                         *)
(* IngestionManifest has the repair itself line by line, with what may     *)
(* fail in it; here a manifest is how many lines of each sort it has.      *)
(***************************************************************************)
EXTENDS Integers

CONSTANTS
  Wrapper,     \* processes that repair under the six rules, each once
  Criteria,    \* acceptance criteria: max, min (percent), timeout
  Manifest,    \* manifests a behaviour starts with: valid, lacking, torn
  MaxLines,    \* bound: lines
  MaxArchived, \* bound: lines of a sort that one prune archives
  MaxChanges   \* bound: changes by others

Total(m) == m.valid + m.lacking + m.torn
Corrupted(m) == m.lacking + m.torn

ASSUME RepairConstants ==
  /\ Manifest \subseteq [valid : Nat, lacking : Nat, torn : Nat]
  /\ MaxLines \in Nat /\ MaxArchived \in Nat /\ MaxChanges \in Nat
  /\ \A c \in Criteria : c.max \in Int /\ c.min \in Int /\ c.timeout \in Int
  /\ {"nobody", "prune"} \cap Wrapper = {}

VARIABLES
  lines,       \* the manifest
  rewrite,     \* what the holder of the lock is about to write, when it has emptied the file
  wrapper,     \* by process: the step it is at, its criteria, counts and verdict
  changes      \* changes by others

repairVars == <<lines, rewrite, wrapper, changes>>

Emptied == [valid |-> 0, lacking |-> 0, torn |-> 0]
NoRewrite == [by |-> "nobody", left |-> Emptied]

\* crossed: what others did to the manifest between the count and the repair
Unrepaired == [at |-> "idle", criteria |-> [max |-> 0, min |-> 0, timeout |-> 0],
               before |-> Emptied, stats |-> Emptied,
               drift |-> FALSE, success |-> FALSE, crossed |-> {}]

RepairInit ==
  /\ lines \in Manifest /\ rewrite = NoRewrite /\ changes = 0
  /\ wrapper = [w \in Wrapper |-> Unrepaired]

Unlocked == rewrite = NoRewrite

\* A change by others crosses every process that has counted.
Crossed(how) ==
  [w \in Wrapper |-> IF wrapper[w].at = "counted"
                     THEN [wrapper[w] EXCEPT !.crossed = @ \union {how}] ELSE wrapper[w]]

Cut(left) == IF Total(left) < Total(lines) THEN Crossed("shrunk") ELSE wrapper

-----------------------------------------------------------------------------
\* Other processes.

RecordLine(torn) ==
  /\ Unlocked /\ Total(lines) < MaxLines /\ changes < MaxChanges
  /\ lines' = IF torn THEN [lines EXCEPT !.torn = @ + 1] ELSE [lines EXCEPT !.valid = @ + 1]
  /\ wrapper' = Crossed("grown")
  /\ changes' = changes + 1
  /\ UNCHANGED rewrite

\* prune archives what has expired, keeps lines that lack fields and drops those that do
\* not parse
PruneLines(valid, lacking) ==
  /\ Unlocked /\ valid <= lines.valid /\ lacking <= lines.lacking /\ changes < MaxChanges
  /\ rewrite' = [by |-> "prune", left |-> [valid |-> lines.valid - valid,
                                          lacking |-> lines.lacking - lacking, torn |-> 0]]
  /\ lines' = Emptied
  /\ wrapper' = Cut(rewrite'.left)
  /\ changes' = changes + 1

PruneWrites ==
  /\ rewrite.by = "prune"
  /\ lines' = rewrite.left /\ rewrite' = NoRewrite
  /\ UNCHANGED <<wrapper, changes>>

-----------------------------------------------------------------------------
\* The repair under the six rules.

ValidateCriteria(c) == c.max \in 0..100 /\ c.min \in 0..100 /\ c.timeout > 0

RefuseCriteria(w, c) ==
  /\ wrapper[w].at = "idle" /\ ~ ValidateCriteria(c)
  /\ wrapper' = [wrapper EXCEPT ![w] = [Unrepaired EXCEPT !.at = "refused", !.criteria = c,
                                                          !.drift = TRUE]]
  /\ UNCHANGED <<lines, rewrite, changes>>

\* getRepairStats, whoever has the lock
GetRepairStats(w, c) ==
  /\ wrapper[w].at = "idle" /\ ValidateCriteria(c)
  /\ wrapper' = [wrapper EXCEPT ![w] =
       [Unrepaired EXCEPT !.at = "counted", !.criteria = c, !.before = lines,
                          !.crossed = IF Unlocked THEN {} ELSE {"blind"}]]
  /\ UNCHANGED <<lines, rewrite, changes>>

\* repairManifest has the lock, reads and empties the file
RepairManifest(w) ==
  /\ wrapper[w].at = "counted" /\ Unlocked
  /\ rewrite' = [by |-> w, left |-> [lines EXCEPT !.lacking = 0, !.torn = 0]]
  /\ lines' = Emptied
  /\ wrapper' = [Cut(rewrite'.left) EXCEPT ![w] = [wrapper[w] EXCEPT !.at = "repairing",
                                                                    !.stats = lines]]
  /\ UNCHANGED changes

\* repairManifest gives up on the lock, which its holder may have left for good
RepairFails(w) ==
  /\ wrapper[w].at = "counted"
  /\ wrapper' = [wrapper EXCEPT ![w].at = "failed", ![w].stats = wrapper[w].before,
                                ![w].drift = TRUE]
  /\ UNCHANGED <<lines, rewrite, changes>>

CheckCriteria(c, stats) ==
  \/ Total(stats) = 0
  \/ /\ 100 * Corrupted(stats) <= c.max * Total(stats)
     /\ 100 * stats.valid >= c.min * Total(stats)

\* Slip: the lines that are gone are told by the length the repair found.
DriftByLength(before, stats) ==
  Total(before) >= 10 /\ 10 * (Total(before) - Total(stats)) > 3 * Total(before)

\* more than thirty percent of what was counted, when that was ten lines or more
DetectRepairDrift(before, stats) ==
  Total(before) >= 10 /\ 10 * (Total(before) - stats.valid) > 3 * Total(before)

\* the repair has written the file, and is judged
RepairWithSixRules(w, slow) ==
  LET own == wrapper[w] IN
  /\ rewrite.by = w
  /\ lines' = rewrite.left /\ rewrite' = NoRewrite
  /\ wrapper' = [wrapper EXCEPT
       ![w].at = "judged",
       ![w].drift = DetectRepairDrift(own.before, own.stats),
       ![w].success = /\ CheckCriteria(own.criteria, own.stats)
                      /\ ~ DetectRepairDrift(own.before, own.stats)
                      /\ ~ slow]
  /\ UNCHANGED changes

RepairNext ==
  \/ \E torn \in BOOLEAN : RecordLine(torn)
  \/ \E valid, lacking \in 0..MaxArchived : PruneLines(valid, lacking)
  \/ PruneWrites
  \/ \E w \in Wrapper :
       \/ \E c \in Criteria : RefuseCriteria(w, c) \/ GetRepairStats(w, c)
       \/ RepairManifest(w) \/ RepairFails(w)
       \/ \E slow \in BOOLEAN : RepairWithSixRules(w, slow)

RepairSpec == RepairInit /\ [][RepairNext]_repairVars

-----------------------------------------------------------------------------
\* Property.

\* The judgement is of the repair it names: one that nothing crossed is called drift just
\* when it took more than thirty percent of ten lines or more, whatever happened to be
\* counted otherwise; a drift that is not the repair's own took others who shrank the
\* manifest after the count, and one that went unseen took lines they added or a count of
\* an emptied file.  A success never took more lines than its criteria allow
\* (repairManifest.SixRules.ts:98-125, 203-222: the count is made without the lock).
RepairJudged ==
  \A w \in Wrapper :
    LET own == wrapper[w]
        taken == Corrupted(own.stats)
        tooMuch == Total(own.stats) >= 10 /\ 10 * taken > 3 * Total(own.stats)
    IN own.at = "judged" =>
         /\ own.drift /\ ~ tooMuch => "shrunk" \in own.crossed
         /\ tooMuch /\ ~ own.drift => own.crossed \intersect {"grown", "blind"} # {}
         /\ own.success => /\ 100 * taken <= own.criteria.max * Total(own.stats)
                           /\ tooMuch => own.crossed # {}
=============================================================================
