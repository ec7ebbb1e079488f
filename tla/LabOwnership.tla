---------------------------- MODULE LabOwnership ----------------------------
(***************************************************************************)
(* The controller, the external screenshot runs, the operator and the       *)
(* network over the shared objects, and what must hold of them together.    *)
(***************************************************************************)
EXTENDS LabController, ExternalProbe

vars == <<storeVars, localVars, probeVars>>

TypeOK == StoreTypeOK /\ ControllerTypeOK /\ ProbeTypeOK

Init == StoreInit /\ ControllerInit /\ ProbeInit

ControllerStep == ControllerNext /\ UNCHANGED probeVars
ProbeStep == ProbeNext(active.run) /\ UNCHANGED localVars
EnvironmentStep == Environment /\ UNCHANGED <<localVars, probeVars>>

Next == ControllerStep \/ ProbeStep \/ EnvironmentStep

Spec == Init /\ [][Next]_vars

(* The controller's thread goes on while it holds the lock; the watchdog    *)
(* thread wakes every five seconds, and startup recovers too.  A probe's    *)
(* processes run until they end, and application leases run out.  Starting  *)
(* an intervention, editing, crashing and late delivery are not promised.   *)
Fairness ==
  /\ WF_vars((StartSteps \/ RecoverySteps) /\ UNCHANGED probeVars)
  /\ WF_vars((RecoverActive \/ AdoptPersisted) /\ UNCHANGED probeVars)
  /\ \A p \in Probe :
       /\ WF_vars((ParentSteps(p, active.run) \/ RestoreSteps(p, "parent"))
                    /\ UNCHANGED localVars)
       /\ WF_vars(WatchdogSteps(p) /\ UNCHANGED localVars)
  /\ \A a \in App : WF_vars(LeaseExpires(a) /\ UNCHANGED <<localVars, probeVars>>)

FairSpec == Spec /\ Fairness

-----------------------------------------------------------------------------
(* The annotations implement a lock: a controller claim and a probe's lock  *)
(* never coexist, and an owner that has given the Lab back never gets it    *)
(* again, whatever calls fail, arrive late or meet a restart               *)
(* (_claim_run, _clear_run_claim, claim_external_run, release_external_run). *)
Holder == IF Config.run # None THEN Config.run ELSE Config.probe

Lock == INSTANCE LabLock WITH
          Party <- Run \cup Probe, Nobody <- None, holder <- Holder, past <- cleared

ImplementsLock == Lock!Spec

(* The Lab is never owned twice.                                            *)
OneOwner == Config.run = None \/ Config.probe = None

(* A controlled field holds what the operator last wrote to it, unless an   *)
(* intervention has written its fault there and kept the operator's value   *)
(* in the field journal (_claim_fields, _restore_owned_fields) or, on the   *)
(* monitor, under the probe's mark (patch_monitor, restore).  It ends with  *)
(* a call of a probe that outlives its timeout, or a setup that outlasts    *)
(* the rollback time: patch_monitor can then land after the release.        *)
OperatorValueKept ==
  abandoned \cap Probe = {} =>
    \A o \in Object :
      LET d == store[o] IN
        \/ d.val = opval[o]
        \/ (d.owner # None /\ d.base = opval[o] /\ d.val = Fault)
        \/ (o = "monitor" /\ d.probe # None /\ opval[o] = Base /\ d.val = Fault)

(* What a run may leave behind: a field journal with its fault, a row in    *)
(* lab_jobs, an application in its fault mode.                              *)
HasFault(r) ==
  \/ \E o \in Object : store[o].owner = r
  \/ r \in queue
  \/ \E a \in App : app[a] = r

(* As long as no call of it outlives its timeout, every fault of a run is   *)
(* covered by its persisted claim: nothing is injected before the claim,    *)
(* and the claim is not removed before everything is back (start, _recover).*)
FaultsAreClaimed ==
  \A r \in Run \ abandoned : HasFault(r) => Config.run = r

(* Whatever the calls do, a controller restarted now would find in the      *)
(* journal each target of the run it holds in memory once that run may have *)
(* touched anything (_claim_run before _start, _persisted_run).             *)
RunIsDurable ==
  (\/ pc \in {"start", "start_get", "start_patch", "job_get", "job_patch"}
   \/ pc = "idle" /\ active.status = "running")
  => (Config.run = active.run /\ active.targets \subseteq Config.targets)

(* The fault path and the temporary rule of a probe are under its lock      *)
(* until they are gone, unless a call of it outlives its timeout or its     *)
(* setup the rollback time (run, watchdog, restore).                        *)
ProbeFaultsAreLocked ==
  \A p \in Probe \ abandoned :
    (store["monitor"].probe = p \/ rule = p) => Config.probe = p

(* Somebody else may have written to the fields of a run, where its         *)
(* recovery will not: an operator, or a probe that comes after its release. *)
Overwritten == edits > 0 \/ abandoned \cap Probe # {}

(* A recovery that has begun is finished: the run leaves the controller's   *)
(* memory, unless somebody else's value is in the way (watchdog, _recover). *)
RecoveryCompletes ==
  active.status = "recovering" ~> (active = Idle \/ Overwritten)

(* A persisted claim does not stay for ever, even if the controller that    *)
(* made it is restarted with nothing in memory (watchdog, _persisted_run).  *)
ClaimIsReleased ==
  \A r \in Run : Config.run = r ~> (Config.run # r \/ Overwritten)

(* Once the watchdog waits, the fault path goes away although one call     *)
(* fails or the parent is killed (watchdog, restore).                       *)
FaultIsRolledBack ==
  \A p \in Probe :
    (store["monitor"].probe = p /\ At(p, "watchdog", "waiting"))
      ~> (store["monitor"].probe # p \/ faults + crashes > 1 \/ edits > 0)

(* Once recovery.json says that a probe is restored, its lock goes away     *)
(* too, even if the parent is killed (watchdog, restore,                    *)
(* release_external_run).                                                   *)
RestoredProbeFreesTheLab ==
  \A p \in Probe :
    (p \in recovered /\ Config.probe = p /\ At(p, "watchdog", "waiting"))
      ~> Config.probe # p

(* A recovered run leaves nothing behind.                                   *)
RecoveredRunIsClean ==
  \A r \in Run \cap cleared : ~HasFault(r)
=============================================================================
