----------------------------- MODULE MCSyncRuns -----------------------------
(* SyncRuns for TLC: the interchangeable identities are model values. *)
EXTENDS SyncRuns, TLC

Symmetry == Permutations(RunIds) \cup Permutations(Workers) \cup Permutations(Callers)
=============================================================================
