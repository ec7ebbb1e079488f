--------------------------- MODULE MCLabOwnership ---------------------------
(* Instances of LabOwnership for TLC, and mutated operations.               *)
EXTENDS LabOwnership, TLC

CONSTANTS r1, r2, p1, p2

(* The kinds of scenario the catalog has.  FieldPlans: settings with their  *)
(* reload, the Service label, a queue row.  ProgressPlans: settings with    *)
(* their reload, the monitor path, a library case.                          *)
FieldPlans == {{"config", "inventory"}, {"service"}, {"queue"}}
ProgressPlans == {{"config", "inventory"}, {"monitor"}, {"library"}}
MonitorPlan == {{"monitor"}}

Symmetry == Permutations(Run) \cup Permutations(Probe)
=============================================================================
