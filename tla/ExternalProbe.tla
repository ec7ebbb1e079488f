---------------------------- MODULE ExternalProbe ----------------------------
(***************************************************************************)
(* The external screenshot runner, tools/evaluate_external_screenshot.py:   *)
(* the parent process (run), the local watchdog it spawns (watchdog), and   *)
(* the guarded restoration both of them perform (restore).                  *)
(***************************************************************************)
EXTENDS LabStore

VARIABLES
  proc,       \* where the parent and the watchdog of a probe are
  monitorRv,  \* resourceVersion of the monitor in before.json
  readRv,     \* resourceVersion of the document a process read last
  recovered   \* recovery.json is in the probe's directory

Actor == {"parent", "watchdog"}

ProcPC == {"none", "lock_get", "lock_patch", "spawn", "recheck", "create", "break",
           "observe", "waiting", "restore", "unbreak", "remove", "save",
           "release_get", "release_patch", "done", "raised", "killed"}

(* A process that will take no further step.                                *)
Ended == {"done", "raised", "killed"}

(* The parent is on its way to the fault.                                   *)
SetUp == {"recheck", "create", "break"}

probeVars == <<proc, monitorRv, readRv, recovered>>

ProbeTypeOK ==
  /\ proc \in [Probe -> [Actor -> ProcPC]]
  /\ monitorRv \in [Probe -> Nat]
  /\ readRv \in [Probe -> [Actor -> Nat]]
  /\ recovered \subseteq Probe

ProbeInit ==
  /\ proc = [p \in Probe |-> [a \in Actor |-> "none"]]
  /\ monitorRv = [p \in Probe |-> 0]
  /\ readRv = [p \in Probe |-> [a \in Actor |-> 0]]
  /\ recovered = {}

At(p, a, at) == proc[p][a] = at
Go(p, a, to) == proc' = [proc EXCEPT ![p][a] = to]
Keeps(p, a, rv) == readRv' = [readRv EXCEPT ![p][a] = rv]

(* Two outcomes of a call that only differ in where the process goes on.    *)
Calls(p, a, m, ok, failed) ==
  \/ Answered(m) /\ Go(p, a, ok)
  \/ Failed(m) /\ Go(p, a, failed)

-----------------------------------------------------------------------------
(* run *)

(* The snapshot before: an idle Lab, the deployed path, no temporary rule.  *)
(* shown is the run that lab-control's /api/status reports, or None.        *)
Preflight(p, shown) ==
  /\ At(p, "parent", "none")
  /\ shown = None
  /\ store["monitor"].val = Base /\ store["monitor"].probe = None
  /\ rule = None
  /\ monitorRv' = [monitorRv EXCEPT ![p] = store["monitor"].rv]
  /\ Go(p, "parent", "lock_get")
  /\ UNCHANGED <<readRv, recovered, storeVars>>

(* claim_external_run.  It is called before the try block: a failure ends   *)
(* the parent without a restoration.                                        *)
LockGet(p) ==
  /\ At(p, "parent", "lock_get")
  /\ LET d == store["config"]
         free == d.run = None /\ d.owner = None /\ d.probe = None
     IN \/ /\ free
           /\ Keeps(p, "parent", d.rv) /\ Go(p, "parent", "lock_patch")
           /\ UNCHANGED storeVars
        \/ ~free /\ Go(p, "parent", "raised") /\ UNCHANGED <<readRv, storeVars>>
        \/ ReadFails /\ Go(p, "parent", "raised") /\ UNCHANGED readRv
  /\ UNCHANGED <<monitorRv, recovered>>

LockPatch(p) ==
  /\ At(p, "parent", "lock_patch")
  /\ Calls(p, "parent", ToObject("lock", "config", readRv[p]["parent"], p),
           "spawn", "raised")
  /\ Keeps(p, "parent", 0)
  /\ UNCHANGED <<monitorRv, recovered>>

Spawn(p) ==
  /\ At(p, "parent", "spawn")
  /\ proc' = [proc EXCEPT ![p] = [parent |-> "recheck", watchdog |-> "waiting"]]
  /\ UNCHANGED <<monitorRv, readRv, recovered, storeVars>>

(* The snapshot under the lock.                                             *)
Recheck(p, shown) ==
  /\ At(p, "parent", "recheck")
  /\ LET idle == shown = None /\ store["monitor"].val = Base IN
       \/ idle /\ Go(p, "parent", "create") /\ UNCHANGED storeVars
       \/ ~idle /\ Go(p, "parent", "restore") /\ UNCHANGED storeVars
       \/ ReadFails /\ Go(p, "parent", "restore")
  /\ UNCHANGED <<monitorRv, readRv, recovered>>

CreateRule(p) ==
  /\ At(p, "parent", "create")
  /\ Calls(p, "parent", ToOther("create", "rule", p), "break", "restore")
  /\ UNCHANGED <<monitorRv, readRv, recovered>>

(* patch_monitor with the document of the first snapshot.                   *)
BreakMonitor(p) ==
  /\ At(p, "parent", "break")
  /\ Calls(p, "parent", ToObject("break", "monitor", monitorRv[p], p),
           "observe", "restore")
  /\ monitorRv' = [monitorRv EXCEPT ![p] = 0]
  /\ UNCHANGED <<readRv, recovered>>

(* The fault loop ends: captured, timed out or unsafe.                      *)
StopObserving(p) ==
  /\ At(p, "parent", "observe")
  /\ Go(p, "parent", "restore")
  /\ UNCHANGED <<monitorRv, readRv, recovered, storeVars>>

-----------------------------------------------------------------------------
(* watchdog *)

WatchdogReturns(p) ==
  /\ At(p, "watchdog", "waiting") /\ p \in recovered
  /\ Go(p, "watchdog", "done")
  /\ UNCHANGED <<monitorRv, readRv, recovered, storeVars>>

(* The rollback time finds the parent in its setup, or past it.             *)
SetupMayOverrun(p) ==
  \/ /\ proc[p]["parent"] \in SetUp
     /\ SpendFault
     /\ abandoned' = abandoned \cup {p}
  \/ /\ proc[p]["parent"] \notin SetUp
     /\ UNCHANGED <<faults, edits, crashes, abandoned, opval>>

(* Mutated RollbackTime: the watchdog dies with its parent.                 *)
RollbackWithParent(p) ==
  /\ At(p, "watchdog", "waiting")
  /\ proc[p]["parent"] # "killed"
  /\ Go(p, "watchdog", "restore")
  /\ SetupMayOverrun(p)
  /\ UNCHANGED <<monitorRv, readRv, recovered, effects, flight>>

(* 240 seconds after run.json; recovery.json is not looked at once more.    *)
(* The parent may still be setting up, its reads and calls having taken     *)
(* that long, which spends a fault: its calls to come are then those of an  *)
(* abandoned probe.                                                         *)
RollbackTime(p) ==
  /\ At(p, "watchdog", "waiting")
  /\ Go(p, "watchdog", "restore")
  /\ SetupMayOverrun(p)
  /\ UNCHANGED <<monitorRv, readRv, recovered, effects, flight>>

-----------------------------------------------------------------------------
(* restore *)

(* The monitor holds what the probe wrote; mutated: only its mark counts.   *)
OwnMark(p, d) == d.probe = p
OwnFault(p, d) == d.probe = p /\ d.val = Fault

RestoreMonitorGet(p, a) ==
  /\ At(p, a, "restore")
  /\ LET d == store["monitor"]
         owned == OwnFault(p, d)
     IN \/ /\ owned
           /\ Keeps(p, a, d.rv) /\ Go(p, a, "unbreak") /\ UNCHANGED storeVars
        \/ /\ d.probe = None /\ d.val = Base
           /\ Go(p, a, "remove") /\ UNCHANGED <<readRv, storeVars>>
        \/ /\ ~owned /\ (d.probe # None \/ d.val # Base)
           /\ Go(p, a, "raised") /\ UNCHANGED <<readRv, storeVars>>
        \/ ReadFails /\ Go(p, a, "raised") /\ UNCHANGED readRv
  /\ UNCHANGED <<monitorRv, recovered>>

(* Mutated UnbreakMonitor: the restoration goes on when its patch fails.    *)
UnbreakAnyway(p, a) ==
  /\ At(p, a, "unbreak")
  /\ Calls(p, a, ToObject("unbreak", "monitor", readRv[p][a], p), "remove", "remove")
  /\ Keeps(p, a, 0)
  /\ UNCHANGED <<monitorRv, recovered>>

UnbreakMonitor(p, a) ==
  /\ At(p, a, "unbreak")
  /\ Calls(p, a, ToObject("unbreak", "monitor", readRv[p][a], p), "remove", "raised")
  /\ Keeps(p, a, 0)
  /\ UNCHANGED <<monitorRv, recovered>>

(* The rule is deleted by uid, when it is there and the probe's own.        *)
RemoveRule(p, a) ==
  /\ At(p, a, "remove")
  /\ \/ rule = None /\ Go(p, a, "save") /\ UNCHANGED storeVars
     \/ rule \notin {None, p} /\ Go(p, a, "raised") /\ UNCHANGED storeVars
     \/ rule = p /\ Calls(p, a, ToOther("remove", "rule", p), "save", "raised")
  /\ UNCHANGED <<monitorRv, readRv, recovered>>

SaveRecovery(p, a) ==
  /\ At(p, a, "save")
  /\ recovered' = recovered \cup {p}
  /\ Go(p, a, "release_get")
  /\ UNCHANGED <<monitorRv, readRv, storeVars>>

(* release_external_run *)
ReleaseGet(p, a) ==
  /\ At(p, a, "release_get")
  /\ LET d == store["config"] IN
       \/ /\ d.probe = p
          /\ Keeps(p, a, d.rv) /\ Go(p, a, "release_patch") /\ UNCHANGED storeVars
       \/ /\ d.probe = None
          /\ Go(p, a, "done") /\ UNCHANGED <<readRv, storeVars>>
       \/ /\ d.probe \notin {None, p}
          /\ Go(p, a, "raised") /\ UNCHANGED <<readRv, storeVars>>
       \/ ReadFails /\ Go(p, a, "raised") /\ UNCHANGED readRv
  /\ UNCHANGED <<monitorRv, recovered>>

ReleasePatch(p, a) ==
  /\ At(p, a, "release_patch")
  /\ Calls(p, a, ToObject("unlock", "config", readRv[p][a], p), "done", "raised")
  /\ Keeps(p, a, 0)
  /\ UNCHANGED <<monitorRv, recovered>>

-----------------------------------------------------------------------------
(* The parent process dies (the watchdog is a process of its own).          *)
ParentKilled(p) ==
  /\ crashes < MaxCrashes
  /\ proc[p]["parent"] \notin {"none"} \cup Ended
  /\ crashes' = crashes + 1
  /\ Go(p, "parent", "killed")
  /\ UNCHANGED <<monitorRv, readRv, recovered, effects, flight, faults, edits,
                 abandoned, opval>>

ParentSteps(p, shown) ==
  \/ LockGet(p) \/ LockPatch(p) \/ Spawn(p) \/ Recheck(p, shown) \/ CreateRule(p)
  \/ BreakMonitor(p) \/ StopObserving(p)

RestoreSteps(p, a) ==
  \/ RestoreMonitorGet(p, a) \/ UnbreakMonitor(p, a) \/ RemoveRule(p, a)
  \/ SaveRecovery(p, a) \/ ReleaseGet(p, a) \/ ReleasePatch(p, a)

WatchdogSteps(p) == WatchdogReturns(p) \/ RollbackTime(p) \/ RestoreSteps(p, "watchdog")

ProbeNext(shown) ==
  \E p \in Probe :
    \/ Preflight(p, shown) \/ ParentSteps(p, shown) \/ RestoreSteps(p, "parent")
    \/ WatchdogSteps(p) \/ ParentKilled(p)
=============================================================================
