---------------------------- MODULE LabController ----------------------------
(***************************************************************************)
(* ControlState of app/control.py: start, recover and the watchdog.         *)
(*                                                                          *)
(* The reentrant lock is held from the first to the last step of a start    *)
(* or a recovery, so there is one controller thread and pc says where it    *)
(* is.  Every call over the network is a step of its own, and a patch is    *)
(* two: the read of the document and the write that names its version.      *)
(***************************************************************************)
EXTENDS LabStore

CONSTANTS
  Plans   \* what scenarios do: sets of steps, as the catalog combines them

ASSUME PlanAssumption == Plans \subseteq SUBSET Step

(* The order in which _start and _recover visit the targets of a run.       *)
Rank == [monitor |-> 1, config |-> 2, service |-> 3, inventory |-> 4, queue |-> 5,
         worker |-> 6, orders |-> 7, edge |-> 8, library |-> 9]

Status == {"none", "starting", "running", "recovering"}
Activity == [run: Owner, status: Status, targets: SUBSET Step, job: BOOLEAN]
Idle == [run |-> None, status |-> "none", targets |-> {}, job |-> FALSE]

PC == {"idle", "claim_get", "claim_patch", "claim_check", "start", "start_get",
       "start_patch", "job_get", "job_patch", "recover", "restore_patch",
       "clear_patch"}

VARIABLES
  pc,      \* where the thread that holds the lock is; "idle" when it is free
  active,  \* self.active
  todo,    \* targets the start or the recovery has still to visit
  seen,    \* the resourceVersion of the document read last
  errors,  \* _recover's errors is not empty
  restored, \* _recover's config_restored
  used     \* history: run identities handed out

localVars == <<pc, active, todo, seen, errors, restored, used>>

ControllerTypeOK ==
  /\ pc \in PC
  /\ active \in Activity
  /\ todo \subseteq Step
  /\ seen \in Nat
  /\ errors \in BOOLEAN /\ restored \in BOOLEAN
  /\ used \subseteq Run

ControllerInit ==
  /\ pc = "idle" /\ active = Idle /\ todo = {} /\ seen = 0
  /\ errors = FALSE /\ restored = TRUE /\ used = {}

(* The target visited next.                                                 *)
Due == CHOOSE t \in todo : \A u \in todo : Rank[t] <= Rank[u]

Config == store["config"]

(* _persisted_run: the owner in the journal; it raises on a field journal   *)
(* without one.                                                             *)
Orphaned == Config.run = None /\ \E o \in Object : store[o].owner # None

(* Mutated Persisted: the job identity is not read back.                    *)
PersistedWithoutJob == [run |-> Config.run, status |-> "recovering",
                        targets |-> Config.targets]

Persisted == [run |-> Config.run, status |-> "recovering",
              targets |-> Config.targets, job |-> Config.job]

-----------------------------------------------------------------------------
(* Recovery begins: by the API, the watchdog (low memory, an expired lease, *)
(* an unfinished recovery), or a failed start.                              *)

BeginRecovery(a) ==
  /\ active' = a
  /\ pc' = "recover"
  /\ todo' = {"config", "service"} \cup a.targets
  /\ errors' = FALSE /\ restored' = TRUE /\ seen' = 0

(* Mutated RecoverActive: an unfinished recovery is not tried again.        *)
RecoverRunning ==
  /\ pc = "idle" /\ active.status = "running"
  /\ BeginRecovery(active)
  /\ UNCHANGED <<used, storeVars>>

(* recover, or a turn of the watchdog, with a run in memory.                *)
RecoverActive ==
  /\ pc = "idle" /\ active.run # None
  /\ BeginRecovery(active)
  /\ UNCHANGED <<used, storeVars>>

(* Mutated AdoptPersisted: any field journal counts as an orphan.           *)
AdoptUnlessJournal ==
  /\ pc = "idle" /\ active.run = None
  /\ Config.run # None /\ \A o \in Object : store[o].owner = None
  /\ BeginRecovery(Persisted)
  /\ UNCHANGED <<used, storeVars>>

(* recover (at startup too), or a turn of the watchdog, without one: the    *)
(* persisted run is adopted.  Nothing happens when there is none, or when   *)
(* the journal does not validate.                                           *)
AdoptPersisted ==
  /\ pc = "idle" /\ active.run = None
  /\ Config.run # None
  /\ BeginRecovery(Persisted)
  /\ UNCHANGED <<used, storeVars>>

StartFailed ==
  /\ BeginRecovery([active EXCEPT !.status = "recovering"])
  /\ UNCHANGED used

(* The method returns and its local variables are gone.                     *)
Return == pc' = "idle" /\ todo' = {} /\ seen' = 0 /\ errors' = FALSE /\ restored' = TRUE

-----------------------------------------------------------------------------
(* start *)

Start(r, plan) ==
  /\ pc = "idle" /\ active.run = None
  /\ r \notin used
  /\ Config.run = None /\ ~Orphaned
  /\ active' = [run |-> r, status |-> "starting", targets |-> plan \ {"config"},
                job |-> FALSE]
  /\ todo' = plan
  /\ used' = used \cup {r}
  /\ pc' = "claim_get"
  /\ UNCHANGED <<seen, errors, restored, storeVars>>

(* _claim_run's checks, and mutated: the external runner's mark is ignored. *)
UnclaimedByRun == Config.run = None
Unowned == Config.run = None /\ Config.probe = None

ClaimGet ==
  /\ pc = "claim_get"
  /\ \/ /\ Unowned
        /\ seen' = Config.rv
        /\ pc' = "claim_patch"
        /\ UNCHANGED storeVars
     \/ ~Unowned /\ pc' = "claim_check" /\ UNCHANGED <<seen, storeVars>>
     \/ ReadFails /\ pc' = "claim_check" /\ UNCHANGED seen
  /\ UNCHANGED <<active, todo, errors, restored, used>>

ClaimPatch ==
  /\ pc = "claim_patch"
  /\ LET m == ClaimMessage(seen, active.run, active.targets) IN
       \/ Answered(m) /\ pc' = "start"
       \/ Failed(m) /\ pc' = "claim_check"
  /\ seen' = 0
  /\ UNCHANGED <<active, todo, errors, restored, used>>

(* The claim raised: the journal says whether it was written all the same.  *)
ClaimCheck ==
  /\ pc = "claim_check"
  /\ \/ /\ Config.run = active.run
        /\ StartFailed /\ UNCHANGED storeVars
     \/ /\ \/ Config.run # active.run /\ UNCHANGED storeVars
           \/ ReadFails
        /\ Return /\ active' = Idle
        /\ UNCHANGED used

(* The monitor must be healthy and free of a probe before it is claimed.    *)
CheckMonitor ==
  /\ pc = "start" /\ todo # {} /\ Due = "monitor"
  /\ LET healthy == store["monitor"].val = Base /\ store["monitor"].probe = None IN
       \/ /\ healthy
          /\ pc' = "start_get"
          /\ UNCHANGED <<active, todo, seen, errors, restored, used, storeVars>>
       \/ ~healthy /\ StartFailed /\ UNCHANGED storeVars
       \/ ReadFails /\ StartFailed

(* _claim_fields: read, refuse another owner, journal and write.            *)
FieldGet ==
  /\ \/ pc = "start" /\ todo # {} /\ Due \in {"config", "service"}
     \/ pc = "start_get"
  /\ LET d == store[Due]
         mine == /\ d.owner \in {None, active.run}
                 /\ Due = "config" => d.run = active.run
     IN \/ /\ mine
           /\ seen' = d.rv
           /\ pc' = "start_patch"
           /\ UNCHANGED <<active, todo, errors, restored, used, storeVars>>
        \/ ~mine /\ StartFailed /\ UNCHANGED storeVars
        \/ ReadFails /\ StartFailed

FieldPatch ==
  /\ pc = "start_patch"
  /\ LET m == ToObject("journal", Due, seen, active.run) IN
       \/ /\ Answered(m)
          /\ todo' = todo \ {Due} /\ pc' = "start" /\ seen' = 0
          /\ UNCHANGED <<active, errors, restored, used>>
       \/ Failed(m) /\ StartFailed

PostFault ==
  /\ pc = "start" /\ todo # {} /\ Due \in App
  /\ LET m == ToOther("fault", Due, active.run) IN
       \/ /\ Answered(m)
          /\ todo' = todo \ {Due}
          /\ UNCHANGED <<pc, active, seen, errors, restored, used>>
       \/ Failed(m) /\ StartFailed

(* INSERT INTO lab_jobs, then the row's identity goes into the journal.     *)
InsertJob ==
  /\ pc = "start" /\ todo # {} /\ Due = "queue"
  /\ LET m == ToOther("insert", "queue", active.run) IN
       \/ /\ Answered(m)
          /\ active' = [active EXCEPT !.job = TRUE]
          /\ pc' = "job_get"
          /\ UNCHANGED <<todo, seen, errors, restored, used>>
       \/ Failed(m) /\ StartFailed

JobGet ==
  /\ pc = "job_get"
  /\ \/ /\ Config.run = active.run
        /\ seen' = Config.rv /\ pc' = "job_patch"
        /\ UNCHANGED <<active, todo, errors, restored, used, storeVars>>
     \/ Config.run # active.run /\ StartFailed /\ UNCHANGED storeVars
     \/ ReadFails /\ StartFailed

JobPatch ==
  /\ pc = "job_patch"
  /\ LET m == ToObject("note_job", "config", seen, active.run) IN
       \/ /\ Answered(m)
          /\ todo' = todo \ {Due} /\ pc' = "start" /\ seen' = 0
          /\ UNCHANGED <<active, errors, restored, used>>
       \/ Failed(m) /\ StartFailed

Running ==
  /\ pc = "start" /\ todo = {}
  /\ active' = [active EXCEPT !.status = "running"]
  /\ Return
  /\ UNCHANGED <<used, storeVars>>

StartSteps ==
  \/ ClaimGet \/ ClaimPatch \/ ClaimCheck \/ CheckMonitor \/ FieldGet \/ FieldPatch
  \/ PostFault \/ InsertJob \/ JobGet \/ JobPatch \/ Running

-----------------------------------------------------------------------------
(* _recover *)

(* Mutated NextTarget: a failed step does not count as an error.            *)
NextTargetAnyway(failed) ==
  /\ todo' = todo \ {Due}
  /\ restored' = (restored /\ ~(failed /\ Due = "config"))
  /\ UNCHANGED <<active, used, errors>>

NextTarget(failed) ==
  /\ todo' = todo \ {Due}
  /\ errors' = (errors \/ failed)
  /\ restored' = (restored /\ ~(failed /\ Due = "config"))
  /\ UNCHANGED <<active, used>>

(* The field still holds what the run wrote; mutated: only the owner counts.*)
OwnJournal(d) == d.owner = active.run
Restorable(d) == d.owner = active.run /\ d.val = Fault

(* _restore_owned_fields up to its patch: an object without a field journal *)
(* is done; a changed owner or value is preserved and is an error.          *)
RestoreGet ==
  /\ pc = "recover" /\ todo # {} /\ Due \in Object
  /\ LET d == store[Due]
         lost == Due = "config" /\ d.run # active.run
     IN \/ /\ ~lost /\ Restorable(d)
           /\ seen' = d.rv /\ pc' = "restore_patch"
           /\ UNCHANGED <<active, todo, errors, restored, used, storeVars>>
        \/ /\ ~lost /\ d.owner = None
           /\ NextTarget(FALSE) /\ UNCHANGED <<pc, seen, storeVars>>
        \/ /\ lost \/ (d.owner # None /\ ~Restorable(d))
           /\ NextTarget(TRUE) /\ UNCHANGED <<pc, seen, storeVars>>
        \/ ReadFails /\ NextTarget(TRUE) /\ UNCHANGED <<pc, seen>>

RestorePatch ==
  /\ pc = "restore_patch"
  /\ LET m == ToObject("restore", Due, seen, active.run) IN
       \/ Answered(m) /\ NextTarget(FALSE)
       \/ Failed(m) /\ NextTarget(TRUE)
  /\ pc' = "recover" /\ seen' = 0

(* Applications whose settings follow the ConfigMap are left alone until it *)
(* is restored.                                                             *)
PostNormal ==
  /\ pc = "recover" /\ todo # {} /\ Due \in App
  /\ \/ /\ Due \in {"inventory", "orders"} /\ ~restored
        /\ NextTarget(FALSE) /\ UNCHANGED storeVars
     \/ /\ Due \in {"inventory", "orders"} => restored
        /\ LET m == ToOther("normal", Due, active.run) IN
             \/ Answered(m) /\ NextTarget(FALSE)
             \/ Failed(m) /\ NextTarget(TRUE)
  /\ UNCHANGED <<pc, seen>>

(* DELETE by identity and owner, or by owner when no identity is known: the *)
(* run has at most one row.                                                 *)
DeleteJob ==
  /\ pc = "recover" /\ todo # {} /\ Due = "queue"
  /\ LET m == ToOther("delete", "queue", active.run) IN
       \/ Answered(m) /\ NextTarget(FALSE)
       \/ Failed(m) /\ NextTarget(TRUE)
  /\ UNCHANGED <<pc, seen>>

(* Errors keep the run recovering, to be retried by the next turn; mutated: *)
(* the status stays what it was.                                            *)
StillAsBefore == active' = active
StillRecovering == active' = [active EXCEPT !.status = "recovering"]

KeepRecovering ==
  /\ pc = "recover" /\ todo = {} /\ errors
  /\ StillRecovering /\ Return
  /\ UNCHANGED <<used, storeVars>>

(* _clear_run_claim, when nothing failed.                                   *)
ClearGet ==
  /\ pc = "recover" /\ todo = {} /\ ~errors
  /\ \/ /\ Config.run = active.run
        /\ seen' = Config.rv /\ pc' = "clear_patch"
        /\ UNCHANGED <<active, todo, errors, restored, storeVars>>
     \/ /\ \/ Config.run # active.run /\ UNCHANGED storeVars
           \/ ReadFails
        /\ StillRecovering /\ Return
  /\ UNCHANGED used

ClearPatch ==
  /\ pc = "clear_patch"
  /\ LET m == ToObject("clear", "config", seen, active.run) IN
       \/ Answered(m) /\ active' = Idle
       \/ Failed(m) /\ StillRecovering
  /\ Return
  /\ UNCHANGED used

RecoverySteps ==
  \/ RestoreGet \/ RestorePatch \/ PostNormal \/ DeleteJob
  \/ KeepRecovering \/ ClearGet \/ ClearPatch

-----------------------------------------------------------------------------
(* The process dies, and is started again with nothing in memory.           *)
ControllerCrash ==
  /\ crashes < MaxCrashes
  /\ pc # "idle" \/ active # Idle
  /\ crashes' = crashes + 1
  /\ Return /\ active' = Idle
  /\ UNCHANGED <<used, effects, flight, faults, edits, abandoned, opval>>

ControllerNext ==
  \/ \E r \in Run, plan \in Plans : Start(r, plan)
  \/ StartSteps \/ RecoverySteps
  \/ RecoverActive \/ AdoptPersisted
  \/ ControllerCrash
=============================================================================
