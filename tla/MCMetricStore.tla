--------------------------- MODULE MCMetricStore ---------------------------
(* MetricStore for TLC: an experiment belongs to the one connection. *)
EXTENDS MetricStore, TLC

CONSTANTS c1, k1

ConnOfExp == [x \in Exps |-> c1]
Symmetry  == Permutations(RowIds) \cup Permutations(Syncs)
               \cup Permutations(Handlers) \cup Permutations(EventIds)
=============================================================================
