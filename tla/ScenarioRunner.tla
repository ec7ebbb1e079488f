--------------------------- MODULE ScenarioRunner ---------------------------
(***************************************************************************)
(* tools/run_scenarios.py: another client of lab-control, which reconciles *)
(* a start whose answer it did not get with the status, and recovers only  *)
(* a run it has seen confirmed.                                            *)
(***************************************************************************)
EXTENDS LabApi

CONSTANT Legacy  \* the owner of its one case

VARIABLE case  \* the case: where it is and whether its recovery was ok

LegacyInit == case = "settle"

Becomes(pc) == case' = pc

Settle ==
  /\ case = "settle"
  /\ active = None
  /\ Becomes("baseline")
  /\ UNCHANGED labVars

(* The ownership record, then the one POST.                                *)
Inject ==
  /\ case = "baseline"
  /\ PostStart(Legacy)
  /\ Becomes("posted")

Confirm ==
  /\ case = "posted"
  /\ StartSucceeds(Legacy)
  /\ Becomes("observe")

(* An error status is handled like an answer that never came.              *)
Deny == case = "posted" /\ StartFails(Legacy) /\ Becomes("reconcile")

GiveUp == case = "posted" /\ Becomes("reconcile") /\ UNCHANGED labVars

(* The start is carried out after its client has gone.                     *)
LandsLate ==
  /\ case # "posted"
  /\ StartSucceeds(Legacy) \/ StartFails(Legacy)
  /\ UNCHANGED case

(* Mutated ReconcileStart: no active run is taken for its own.             *)
ReconcileLoosely ==
  /\ case = "reconcile"
  /\ \/ active \in {Legacy, None} /\ Becomes("observe")
     \/ Becomes("failed")
  /\ UNCHANGED labVars

ReconcileStart ==
  /\ case = "reconcile"
  /\ \/ active = Legacy /\ Becomes("observe")
     \/ Becomes("failed")   \* another run, no run, or no status: no write
  /\ UNCHANGED labVars

ObserveCase ==
  /\ case = "observe"
  /\ Becomes("recover")
  /\ UNCHANGED labVars

RecoverCase ==
  /\ case = "recover"
  /\ \/ RecoverOwned(Legacy) /\ Becomes("settled")
     \/ (RecoverPending(Legacy) \/ RecoverRefused(Legacy)) /\ Becomes("failed")
     \/ (RecoverOwned(Legacy) \/ UNCHANGED labVars) /\ Becomes("failed")

LegacyStep ==
  \/ Settle \/ Inject \/ Confirm \/ Deny \/ GiveUp \/ LandsLate
  \/ ReconcileStart \/ ObserveCase \/ RecoverCase
=============================================================================
