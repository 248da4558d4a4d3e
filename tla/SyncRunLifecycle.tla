-------------------------- MODULE SyncRunLifecycle --------------------------
(***************************************************************************)
(* What the service promises a client that polls GET /sync-runs/{id}: a    *)
(* run it was given waits, is worked on and is done, in this order, or is  *)
(* turned away before any work; what is done stays done, and every run     *)
(* comes to its end.                                                       *)
(***************************************************************************)
CONSTANT Runs
VARIABLE phase

Phases == {"absent", "waiting", "working", "done"}

Init == phase = [r \in Runs |-> "absent"]

Move(r, from, to) ==
  /\ phase[r] = from
  /\ phase' = [phase EXCEPT ![r] = to]

Accept(r)   == Move(r, "absent", "waiting")
Start(r)    == Move(r, "waiting", "working")
TurnAway(r) == Move(r, "waiting", "done")
Finish(r)   == Move(r, "working", "done")

Next == \E r \in Runs : Accept(r) \/ Start(r) \/ TurnAway(r) \/ Finish(r)

Fairness ==
  \A r \in Runs :
    /\ WF_phase(Start(r) \/ TurnAway(r))
    /\ WF_phase(Finish(r))

\* The order of the phases alone, and with the promise that a run ends.
SafeSpec == Init /\ [][Next]_phase
Spec == SafeSpec /\ Fairness
=============================================================================
