------------------------- MODULE LabOwnershipProofs -------------------------
(***************************************************************************)
(* Theorems about LabOwnership for any sets of runs and probes, any plans   *)
(* and any bounds: its types, and that the annotations are a lock.          *)
(***************************************************************************)
EXTENDS LabOwnership, TLAPS

-----------------------------------------------------------------------------
(* Calls are sent to what they can change, by whom they belong to.          *)
ObjectKind == {"claim", "journal", "restore", "note_job", "clear",
               "lock", "unlock", "break", "unbreak"}

WellFormed(m) ==
  /\ m \in Message
  /\ m.to \in Object => m.kind \in ObjectKind
  /\ m.kind \in {"claim", "clear", "lock", "unlock"} => m.to = "config"
  /\ m.kind \in {"break", "unbreak"} => m.to = "monitor"
  /\ m.kind \in {"lock", "unlock", "break", "unbreak"} => m.by \in Probe
  /\ m.kind \in {"claim", "journal", "restore", "note_job", "clear"} => m.by \in Run
  /\ m.to \in App \cup {"queue"} => m.by \in Run
  /\ m.to = "rule" => m.by \in Probe

(* Where the controller's thread is when it names a target.                 *)
AtTarget ==
  /\ pc # "idle" => active.run \in Run
  /\ pc = "start_get" => todo # {} /\ Due = "monitor"
  /\ pc \in {"start_patch", "restore_patch"} => todo # {} /\ Due \in Object

TypeInv == TypeOK /\ AtTarget /\ \A m \in flight : WellFormed(m)

LEMMA PatchedType ==
  ASSUME NEW d \in Document, NEW m, WellFormed(m), m.to \in Object
  PROVE  Patched(d, m) \in Document
<1>1. m.kind \in ObjectKind /\ m.targets \in SUBSET Step
  BY DEF WellFormed, Message
<1>2. /\ m.kind \in {"claim", "journal"} => m.by \in Owner
      /\ m.kind \in {"lock", "break"} => m.by \in Locker
  BY DEF WellFormed, Owner, Locker
<1>3. /\ d.base \in Value /\ d.val \in Value /\ Fault \in Value /\ Base \in Value
      /\ None \in Owner /\ None \in Locker
  BY DEF Document, Value, Owner, Locker
<1>4. CASE m.kind = "claim"
  <2>1. Patched(d, m) = [d EXCEPT !.run = m.by, !.targets = m.targets]
    BY <1>4 DEF Patched
  <2> QED BY <2>1, <1>1, <1>2, <1>3, <1>4 DEF Document
<1>5. CASE m.kind = "journal"
  <2>1. Patched(d, m) = [d EXCEPT !.owner = m.by, !.val = Fault,
                           !.base = IF d.owner = m.by THEN d.base ELSE d.val]
    BY <1>5 DEF Patched
  <2> QED BY <2>1, <1>1, <1>2, <1>3, <1>5 DEF Document
<1>6. CASE m.kind = "restore"
  <2>1. Patched(d, m) = [d EXCEPT !.owner = None, !.val = d.base, !.base = Base]
    BY <1>6 DEF Patched
  <2> QED BY <2>1, <1>1, <1>2, <1>3, <1>6 DEF Document
<1>7. CASE m.kind = "note_job"
  <2>1. Patched(d, m) = [d EXCEPT !.job = TRUE]
    BY <1>7 DEF Patched
  <2> QED BY <2>1, <1>1, <1>2, <1>3, <1>7 DEF Document
<1>8. CASE m.kind = "clear"
  <2>1. Patched(d, m) = [d EXCEPT !.run = None, !.targets = {}, !.job = FALSE]
    BY <1>8 DEF Patched
  <2> QED BY <2>1, <1>1, <1>2, <1>3, <1>8 DEF Document
<1>9. CASE m.kind = "lock"
  <2>1. Patched(d, m) = [d EXCEPT !.probe = m.by]
    BY <1>9 DEF Patched
  <2> QED BY <2>1, <1>1, <1>2, <1>3, <1>9 DEF Document
<1>10. CASE m.kind = "unlock"
  <2>1. Patched(d, m) = [d EXCEPT !.probe = None]
    BY <1>10 DEF Patched
  <2> QED BY <2>1, <1>1, <1>2, <1>3, <1>10 DEF Document
<1>11. CASE m.kind = "break"
  <2>1. Patched(d, m) = [d EXCEPT !.probe = m.by, !.val = Fault]
    BY <1>11 DEF Patched
  <2> QED BY <2>1, <1>1, <1>2, <1>3, <1>11 DEF Document
<1>12. CASE m.kind = "unbreak"
  <2>1. Patched(d, m) = [d EXCEPT !.probe = None, !.val = Base]
    BY <1>12 DEF Patched
  <2> QED BY <2>1, <1>1, <1>2, <1>3, <1>12 DEF Document
<1> QED BY <1>1, <1>4, <1>5, <1>6, <1>7, <1>8, <1>9, <1>10, <1>11, <1>12 DEF ObjectKind

EffectsTypeOK ==
  /\ store \in [Object -> Document]
  /\ app \in [App -> Owner]
  /\ queue \subseteq Run
  /\ rule \in Locker
  /\ cleared \subseteq Run \cup Probe

LEMMA PerformType ==
  ASSUME EffectsTypeOK, NEW m, WellFormed(m), Perform(m)
  PROVE  EffectsTypeOK'
<1>0. m \in Message BY DEF WellFormed
<1>1. CASE PerformObject(m)
  <2>1. /\ store[m.to] \in Document /\ m.to \in Object
        /\ Patched(store[m.to], m) \in Document
    BY <1>1, PatchedType DEF PerformObject, EffectsTypeOK
  <2>3. [Patched(store[m.to], m) EXCEPT !.rv = store[m.to].rv + 1] \in Document
    BY <2>1 DEF Document
  <2>2. store' \in [Object -> Document]
    BY <1>1, <2>1, <2>3 DEF PerformObject, EffectsTypeOK
  <2> QED BY <1>0, <1>1, <2>2 DEF PerformObject, EffectsTypeOK, Message
<1>2. CASE PerformApp(m)
  BY <1>2 DEF PerformApp, EffectsTypeOK, WellFormed, Owner
<1>3. CASE PerformQueue(m)
  BY <1>3 DEF PerformQueue, EffectsTypeOK, WellFormed
<1>4. CASE PerformRule(m)
  BY <1>4 DEF PerformRule, EffectsTypeOK, WellFormed, Locker
<1> QED BY <1>1, <1>2, <1>3, <1>4 DEF Perform

StoreInv == StoreTypeOK /\ \A m \in flight : WellFormed(m)

LEMMA CallType ==
  ASSUME StoreInv, NEW m, WellFormed(m), Answered(m) \/ Failed(m)
  PROVE  StoreInv'
<1> USE DEF StoreInv
<1>0. EffectsTypeOK
  BY DEF StoreTypeOK, EffectsTypeOK
<1>1. /\ m \in Message /\ m.by \in Run \cup Probe
      /\ (flight \cup {m}) \subseteq Message /\ faults + 1 \in Nat
      /\ abandoned \cup {m.by} \subseteq Run \cup Probe
  BY DEF StoreTypeOK, WellFormed, Message
<1>2. CASE Answered(m)
  <2>1. EffectsTypeOK'
    BY <1>0, <1>2, PerformType DEF Answered
  <2> QED BY <1>2, <2>1 DEF Answered, StoreTypeOK, EffectsTypeOK
<1>3. CASE Refused(m)
  BY <1>3 DEF Refused, StoreTypeOK, storeVars, effects
<1>4. CASE Unanswered(m)
  <2>1. CASE Perform(m) /\ UNCHANGED <<flight, abandoned>>
    <3>1. EffectsTypeOK'
      BY <1>0, <2>1, PerformType
    <3> QED BY <1>1, <1>4, <2>1, <3>1 DEF Unanswered, SpendFault, StoreTypeOK, EffectsTypeOK
  <2>2. CASE UNCHANGED <<effects, flight, abandoned>>
    BY <1>1, <1>4, <2>2 DEF Unanswered, SpendFault, StoreTypeOK, effects
  <2>3. CASE flight' = flight \cup {m} /\ abandoned' = abandoned \cup {m.by} /\ UNCHANGED effects
    BY <1>1, <1>4, <2>3 DEF Unanswered, SpendFault, StoreTypeOK, effects
  <2> QED BY <1>4, <2>1, <2>2, <2>3 DEF Unanswered
<1> QED BY <1>2, <1>3, <1>4 DEF Failed

LEMMA QuietType ==
  ASSUME StoreInv, ReadFails \/ UNCHANGED storeVars
  PROVE  StoreInv'
<1>1. CASE ReadFails
  BY <1>1 DEF ReadFails, SpendFault, StoreInv, StoreTypeOK, effects
<1>2. CASE UNCHANGED storeVars
  BY <1>2 DEF StoreInv, StoreTypeOK, storeVars, effects
<1> QED BY <1>1, <1>2

LEMMA EnvironmentType ==
  ASSUME StoreInv, Environment
  PROVE  StoreInv'
<1> USE DEF StoreInv
<1>0. EffectsTypeOK
  BY DEF StoreTypeOK, EffectsTypeOK
<1>1. ASSUME NEW m \in flight, Deliver(m)
      PROVE  StoreInv'
  <2>1. EffectsTypeOK'
    BY <1>0, <1>1, PerformType DEF Deliver
  <2> QED BY <1>1, <2>1 DEF Deliver, StoreTypeOK, EffectsTypeOK
<1>2. ASSUME NEW m \in flight, Discard(m)
      PROVE  StoreInv'
  BY <1>2 DEF Discard, StoreTypeOK, effects
<1>3. ASSUME NEW o \in Object, NEW v \in OperatorValue, OperatorEdit(o, v)
      PROVE  StoreInv'
  <2>1. store[o] \in Document /\ v \in Value
    BY DEF StoreTypeOK, OperatorValue, Value
  <2>2. store[o].rv + 1 \in Nat
    BY <2>1 DEF Document
  <2>3. [store[o] EXCEPT !.val = v, !.rv = store[o].rv + 1] \in Document
    BY <2>1, <2>2 DEF Document
  <2> QED BY <1>3, <2>3 DEF OperatorEdit, StoreTypeOK
<1>4. ASSUME NEW a \in App, LeaseExpires(a)
      PROVE  StoreInv'
  BY <1>4 DEF LeaseExpires, StoreTypeOK, Owner
<1> QED BY <1>1, <1>2, <1>3, <1>4 DEF Environment

-----------------------------------------------------------------------------
(* The controller's types.                                                  *)
LocalInv == ControllerTypeOK /\ AtTarget

LEMMA ControllerMessages ==
  ASSUME NEW r \in Run, NEW rv \in Nat, NEW targets \in SUBSET Step
  PROVE  /\ WellFormed(ClaimMessage(rv, r, targets))
         /\ WellFormed(ToObject("note_job", "config", rv, r))
         /\ WellFormed(ToObject("clear", "config", rv, r))
         /\ \A o \in Object : /\ WellFormed(ToObject("journal", o, rv, r))
                             /\ WellFormed(ToObject("restore", o, rv, r))
         /\ \A a \in App : /\ WellFormed(ToOther("fault", a, r))
                          /\ WellFormed(ToOther("normal", a, r))
         /\ WellFormed(ToOther("insert", "queue", r))
         /\ WellFormed(ToOther("delete", "queue", r))
BY DEF WellFormed, Message, Kind, ObjectKind, Object, App, Step, ClaimMessage, ToObject, ToOther

LEMMA DueKept ==
  ASSUME todo' = todo
  PROVE  Due' = Due
BY DEF Due

LEMMA BeginRecoveryType ==
  ASSUME LocalInv, NEW a \in Activity, a.run \in Run, BeginRecovery(a), used' = used
  PROVE  LocalInv'
BY DEF LocalInv, ControllerTypeOK, AtTarget, BeginRecovery, PC, Activity, Step, Object

LEMMA ReturnType ==
  ASSUME Return, active' \in Activity, used' \subseteq Run
  PROVE  LocalInv'
BY DEF LocalInv, ControllerTypeOK, AtTarget, Return, PC

LEMMA StartFailedType ==
  ASSUME LocalInv, pc # "idle", StartFailed
  PROVE  LocalInv'
<1>1. active \in Activity /\ active.run \in Run
  BY DEF LocalInv, ControllerTypeOK, AtTarget
<1>2. [active EXCEPT !.status = "recovering"] \in Activity
  BY <1>1 DEF Activity, Status
<1>3. [active EXCEPT !.status = "recovering"].run = active.run
  BY <1>1 DEF Activity
<1> QED BY <1>1, <1>2, <1>3, BeginRecoveryType DEF StartFailed

LEMMA NextTargetType ==
  ASSUME LocalInv, pc # "idle", NEW failed \in BOOLEAN, NextTarget(failed),
         pc' = "recover", seen' \in Nat
  PROVE  LocalInv'
BY DEF LocalInv, ControllerTypeOK, AtTarget, NextTarget, PC

(* A step that reads only, a failed start, and a call: one lemma each.      *)
LEMMA StartStepsType ==
  ASSUME LocalInv, StoreInv, StartSteps
  PROVE  LocalInv' /\ StoreInv'
<1> DEFINE r == active.run
<1>0. /\ seen \in Nat /\ active \in Activity /\ active.targets \in SUBSET Step
      /\ todo \subseteq Step /\ used \subseteq Run
      /\ \A o \in Object : store[o] \in Document /\ store[o].rv \in Nat
      /\ Object = {"config", "service", "monitor"} /\ Config.rv \in Nat
  BY DEF LocalInv, ControllerTypeOK, Activity, StoreInv, StoreTypeOK, Document, Config, Object
<1>1. CASE ClaimGet
  <2>1. StoreInv'
    BY <1>1, QuietType DEF ClaimGet
  <2>2. LocalInv'
    BY <1>0, <1>1 DEF ClaimGet, LocalInv, ControllerTypeOK, AtTarget, PC
  <2> QED BY <2>1, <2>2
<1>2. CASE ClaimPatch
  <2>1. WellFormed(ClaimMessage(seen, r, active.targets))
    BY <1>0, <1>2, ControllerMessages DEF ClaimPatch, LocalInv, AtTarget
  <2>2. StoreInv'
    BY <1>2, <2>1, CallType DEF ClaimPatch
  <2>3. LocalInv'
    BY <1>2 DEF ClaimPatch, LocalInv, ControllerTypeOK, AtTarget, PC
  <2> QED BY <2>2, <2>3
<1>3. CASE ClaimCheck
  <2>1. StoreInv'
    BY <1>3, QuietType DEF ClaimCheck
  <2>2. pc # "idle" /\ Idle \in Activity
    BY <1>3 DEF ClaimCheck, Idle, Activity, Owner, Status
  <2>3. LocalInv'
    BY <1>0, <1>3, <2>2, StartFailedType, ReturnType DEF ClaimCheck
  <2> QED BY <2>1, <2>3
<1>4. CASE CheckMonitor
  <2>1. StoreInv'
    BY <1>4, QuietType DEF CheckMonitor
  <2>2. LocalInv'
    <3>1. CASE StartFailed
      BY <1>4, <3>1, StartFailedType DEF CheckMonitor
    <3>2. CASE pc' = "start_get" /\ UNCHANGED <<active, todo, seen, errors, restored, used>>
      BY <1>4, <3>2, DueKept DEF CheckMonitor, LocalInv, ControllerTypeOK, AtTarget, PC
    <3> QED BY <1>4, <3>1, <3>2 DEF CheckMonitor
  <2> QED BY <2>1, <2>2
<1>5. CASE FieldGet
  <2>1. StoreInv'
    BY <1>5, QuietType DEF FieldGet
  <2>2. todo # {} /\ Due \in Object /\ pc # "idle"
    BY <1>0, <1>5 DEF FieldGet, LocalInv, AtTarget
  <2>3. LocalInv'
    <3>1. CASE StartFailed
      BY <2>2, <3>1, StartFailedType
    <3>2. CASE /\ seen' = store[Due].rv /\ pc' = "start_patch"
               /\ UNCHANGED <<active, todo, errors, restored, used>>
      BY <1>0, <2>2, <3>2, DueKept DEF LocalInv, ControllerTypeOK, AtTarget, PC
    <3> QED BY <1>5, <3>1, <3>2 DEF FieldGet
  <2> QED BY <2>1, <2>3
<1>6. CASE FieldPatch
  <2>1. WellFormed(ToObject("journal", Due, seen, r)) /\ pc # "idle"
    BY <1>0, <1>6, ControllerMessages DEF FieldPatch, LocalInv, AtTarget
  <2>2. StoreInv'
    BY <1>6, <2>1, CallType DEF FieldPatch
  <2>3. LocalInv'
    <3>1. CASE StartFailed
      BY <2>1, <3>1, StartFailedType
    <3>2. CASE /\ todo' = todo \ {Due} /\ pc' = "start" /\ seen' = 0
               /\ UNCHANGED <<active, errors, restored, used>>
      BY <2>1, <3>2 DEF LocalInv, ControllerTypeOK, AtTarget, PC
    <3> QED BY <1>6, <3>1, <3>2 DEF FieldPatch
  <2> QED BY <2>2, <2>3
<1>7. CASE PostFault
  <2>1. WellFormed(ToOther("fault", Due, r)) /\ pc = "start"
    BY <1>0, <1>7, ControllerMessages DEF PostFault, LocalInv, AtTarget
  <2>2. StoreInv'
    BY <1>7, <2>1, CallType DEF PostFault
  <2>3. LocalInv'
    <3>1. CASE StartFailed
      BY <2>1, <3>1, StartFailedType
    <3>2. CASE todo' = todo \ {Due} /\ UNCHANGED <<pc, active, seen, errors, restored, used>>
      BY <2>1, <3>2 DEF LocalInv, ControllerTypeOK, AtTarget
    <3> QED BY <1>7, <3>1, <3>2 DEF PostFault
  <2> QED BY <2>2, <2>3
<1>8. CASE InsertJob
  <2>1. WellFormed(ToOther("insert", "queue", r)) /\ pc = "start"
    BY <1>0, <1>8, ControllerMessages DEF InsertJob, LocalInv, AtTarget
  <2>2. StoreInv'
    BY <1>8, <2>1, CallType DEF InsertJob
  <2>3. LocalInv'
    <3>1. CASE StartFailed
      BY <2>1, <3>1, StartFailedType
    <3>2. CASE /\ active' = [active EXCEPT !.job = TRUE] /\ pc' = "job_get"
               /\ UNCHANGED <<todo, seen, errors, restored, used>>
      BY <2>1, <3>2 DEF LocalInv, ControllerTypeOK, AtTarget, Activity, PC
    <3> QED BY <1>8, <3>1, <3>2 DEF InsertJob
  <2> QED BY <2>2, <2>3
<1>9. CASE JobGet
  <2>1. StoreInv'
    BY <1>9, QuietType DEF JobGet
  <2>2. LocalInv'
    <3>1. CASE StartFailed
      BY <1>9, <3>1, StartFailedType DEF JobGet
    <3>2. CASE /\ seen' = Config.rv /\ pc' = "job_patch"
               /\ UNCHANGED <<active, todo, errors, restored, used>>
      BY <1>0, <1>9, <3>2 DEF JobGet, LocalInv, ControllerTypeOK, AtTarget, PC
    <3> QED BY <1>9, <3>1, <3>2 DEF JobGet
  <2> QED BY <2>1, <2>2
<1>10. CASE JobPatch
  <2>1. WellFormed(ToObject("note_job", "config", seen, r)) /\ pc # "idle"
    BY <1>0, <1>10, ControllerMessages DEF JobPatch, LocalInv, AtTarget
  <2>2. StoreInv'
    BY <1>10, <2>1, CallType DEF JobPatch
  <2>3. LocalInv'
    <3>1. CASE StartFailed
      BY <2>1, <3>1, StartFailedType
    <3>2. CASE /\ todo' = todo \ {Due} /\ pc' = "start" /\ seen' = 0
               /\ UNCHANGED <<active, errors, restored, used>>
      BY <2>1, <3>2 DEF LocalInv, ControllerTypeOK, AtTarget, PC
    <3> QED BY <1>10, <3>1, <3>2 DEF JobPatch
  <2> QED BY <2>2, <2>3
<1>11. CASE Running
  <2>1. StoreInv'
    BY <1>11, QuietType DEF Running
  <2>2. [active EXCEPT !.status = "running"] \in Activity
    BY <1>0 DEF Activity, Status
  <2>3. LocalInv'
    BY <1>0, <1>11, <2>2, ReturnType DEF Running
  <2> QED BY <2>1, <2>3
<1> QED BY <1>1, <1>2, <1>3, <1>4, <1>5, <1>6, <1>7, <1>8, <1>9, <1>10, <1>11 DEF StartSteps

LEMMA RecoveryStepsType ==
  ASSUME LocalInv, StoreInv, RecoverySteps
  PROVE  LocalInv' /\ StoreInv'
<1> DEFINE r == active.run
<1>0. /\ seen \in Nat /\ active \in Activity /\ todo \subseteq Step /\ used \subseteq Run
      /\ \A o \in Object : store[o].rv \in Nat
      /\ Object = {"config", "service", "monitor"} /\ Config.rv \in Nat
      /\ Idle \in Activity /\ [active EXCEPT !.status = "recovering"] \in Activity
  BY DEF LocalInv, ControllerTypeOK, Activity, StoreInv, StoreTypeOK, Document, Config, Object,
         Idle, Owner, Status
<1>1. CASE RestoreGet
  <2>1. StoreInv'
    BY <1>1, QuietType DEF RestoreGet
  <2>2. LocalInv'
    <3>1. CASE \E failed \in BOOLEAN : NextTarget(failed) /\ UNCHANGED <<pc, seen>>
      BY <1>0, <1>1, <3>1, NextTargetType DEF RestoreGet
    <3>2. CASE /\ seen' = store[Due].rv /\ pc' = "restore_patch"
               /\ UNCHANGED <<active, todo, errors, restored, used>>
      BY <1>0, <1>1, <3>2, DueKept DEF RestoreGet, LocalInv, ControllerTypeOK, AtTarget, PC
    <3> QED BY <1>1, <3>1, <3>2 DEF RestoreGet
  <2> QED BY <2>1, <2>2
<1>2. CASE RestorePatch
  <2>1. WellFormed(ToObject("restore", Due, seen, r)) /\ pc # "idle"
    BY <1>0, <1>2, ControllerMessages DEF RestorePatch, LocalInv, AtTarget
  <2>2. StoreInv'
    BY <1>2, <2>1, CallType DEF RestorePatch
  <2>3. LocalInv'
    BY <1>2, <2>1, NextTargetType DEF RestorePatch
  <2> QED BY <2>2, <2>3
<1>3. CASE PostNormal
  <2>1. WellFormed(ToOther("normal", Due, r)) /\ pc # "idle"
    BY <1>0, <1>3, ControllerMessages DEF PostNormal, LocalInv, AtTarget
  <2>2. StoreInv'
    BY <1>3, <2>1, QuietType, CallType DEF PostNormal
  <2>3. LocalInv'
    BY <1>0, <1>3, NextTargetType DEF PostNormal
  <2> QED BY <2>2, <2>3
<1>4. CASE DeleteJob
  <2>1. WellFormed(ToOther("delete", "queue", r)) /\ pc # "idle"
    BY <1>0, <1>4, ControllerMessages DEF DeleteJob, LocalInv, AtTarget
  <2>2. StoreInv'
    BY <1>4, <2>1, CallType DEF DeleteJob
  <2>3. LocalInv'
    BY <1>0, <1>4, NextTargetType DEF DeleteJob
  <2> QED BY <2>2, <2>3
<1>5. CASE KeepRecovering
  BY <1>0, <1>5, QuietType, ReturnType DEF KeepRecovering, StillRecovering
<1>6. CASE ClearGet
  <2>1. StoreInv'
    BY <1>6, QuietType DEF ClearGet
  <2>2. LocalInv'
    <3>1. CASE StillRecovering /\ Return
      BY <1>0, <1>6, <3>1, ReturnType DEF ClearGet, StillRecovering
    <3>2. CASE /\ seen' = Config.rv /\ pc' = "clear_patch"
               /\ UNCHANGED <<active, todo, errors, restored>>
      BY <1>0, <1>6, <3>2 DEF ClearGet, LocalInv, ControllerTypeOK, AtTarget, PC
    <3> QED BY <1>6, <3>1, <3>2 DEF ClearGet
  <2> QED BY <2>1, <2>2
<1>7. CASE ClearPatch
  <2>1. WellFormed(ToObject("clear", "config", seen, r))
    BY <1>0, <1>7, ControllerMessages DEF ClearPatch, LocalInv, AtTarget
  <2>2. StoreInv'
    BY <1>7, <2>1, CallType DEF ClearPatch
  <2>3. LocalInv'
    BY <1>0, <1>7, ReturnType DEF ClearPatch, StillRecovering
  <2> QED BY <2>2, <2>3
<1> QED BY <1>1, <1>2, <1>3, <1>4, <1>5, <1>6, <1>7 DEF RecoverySteps

LEMMA ControllerType ==
  ASSUME LocalInv, StoreInv, ControllerNext
  PROVE  LocalInv' /\ StoreInv'
<1>0. /\ active \in Activity /\ used \subseteq Run /\ active.run \in Run \cup {None}
      /\ Config \in Document /\ Config.run \in Run \cup {None}
  BY DEF LocalInv, ControllerTypeOK, Activity, StoreInv, StoreTypeOK, Document, Config, Object, Owner
<1>1. ASSUME NEW r \in Run, NEW plan \in Plans, Start(r, plan)
      PROVE  LocalInv' /\ StoreInv'
  <2>1. plan \subseteq Step
    BY PlanAssumption
  <2>2. [run |-> r, status |-> "starting", targets |-> plan \ {"config"}, job |-> FALSE] \in Activity
    BY <2>1 DEF Activity, Owner, Status
  <2>3. LocalInv'
    BY <1>0, <1>1, <2>1, <2>2 DEF Start, LocalInv, ControllerTypeOK, AtTarget, PC
  <2>4. StoreInv'
    BY <1>1, QuietType DEF Start
  <2> QED BY <2>3, <2>4
<1>2. CASE RecoverActive
  BY <1>0, <1>2, QuietType, BeginRecoveryType DEF RecoverActive
<1>3. CASE AdoptPersisted
  <2>1. Persisted \in Activity /\ Persisted.run \in Run
    BY <1>0, <1>3 DEF AdoptPersisted, Persisted, Activity, Document, Status
  <2> QED BY <1>3, <2>1, QuietType, BeginRecoveryType DEF AdoptPersisted
<1>4. CASE ControllerCrash
  <2>1. LocalInv'
    BY <1>0, <1>4, ReturnType DEF ControllerCrash, Idle, Activity, Owner, Status
  <2>2. StoreInv'
    BY <1>4 DEF ControllerCrash, StoreInv, StoreTypeOK, effects
  <2> QED BY <2>1, <2>2
<1> QED BY <1>1, <1>2, <1>3, <1>4, StartStepsType, RecoveryStepsType DEF ControllerNext

-----------------------------------------------------------------------------
(* The types of the probes' processes.                                      *)

LEMMA ProbeMessages ==
  ASSUME NEW p \in Probe, NEW rv \in Nat
  PROVE  /\ WellFormed(ToObject("lock", "config", rv, p))
         /\ WellFormed(ToObject("unlock", "config", rv, p))
         /\ WellFormed(ToObject("break", "monitor", rv, p))
         /\ WellFormed(ToObject("unbreak", "monitor", rv, p))
         /\ WellFormed(ToOther("create", "rule", p))
         /\ WellFormed(ToOther("remove", "rule", p))
BY DEF WellFormed, Message, Kind, ObjectKind, Object, App, Step, ToObject, ToOther

LEMMA GoType ==
  ASSUME proc \in [Probe -> [Actor -> ProcPC]], NEW p \in Probe, NEW a \in Actor,
         NEW to \in ProcPC, Go(p, a, to)
  PROVE  proc' \in [Probe -> [Actor -> ProcPC]]
BY DEF Go

LEMMA KeepsType ==
  ASSUME readRv \in [Probe -> [Actor -> Nat]], NEW p \in Probe, NEW a \in Actor,
         NEW rv \in Nat, Keeps(p, a, rv)
  PROVE  readRv' \in [Probe -> [Actor -> Nat]]
BY DEF Keeps

LEMMA CallsType ==
  ASSUME ProbeTypeOK, StoreInv, NEW p \in Probe, NEW a \in Actor, NEW m, WellFormed(m),
         NEW ok \in ProcPC, NEW failed \in ProcPC, Calls(p, a, m, ok, failed)
  PROVE  StoreInv' /\ proc' \in [Probe -> [Actor -> ProcPC]]
BY CallType, GoType DEF Calls, ProbeTypeOK

LEMMA RestoreStepsType ==
  ASSUME ProbeTypeOK, StoreInv, NEW p \in Probe, NEW a \in Actor, RestoreSteps(p, a)
  PROVE  ProbeTypeOK' /\ StoreInv'
<1> USE DEF ProbeTypeOK, ProcPC
<1>0. /\ \A o \in Object : store[o].rv \in Nat
      /\ "config" \in Object /\ "monitor" \in Object /\ 0 \in Nat
      /\ readRv[p][a] \in Nat
  BY DEF StoreInv, StoreTypeOK, Document, Object
<1>1. CASE RestoreMonitorGet(p, a)
  <2>1. StoreInv'
    BY <1>1, QuietType DEF RestoreMonitorGet
  <2> QED BY <1>0, <1>1, <2>1, GoType, KeepsType DEF RestoreMonitorGet
<1>2. CASE UnbreakMonitor(p, a)
  BY <1>0, <1>2, ProbeMessages, CallsType, KeepsType DEF UnbreakMonitor
<1>3. CASE RemoveRule(p, a)
  <2>1. CASE UNCHANGED storeVars /\ (Go(p, a, "save") \/ Go(p, a, "raised"))
    BY <1>3, <2>1, QuietType, GoType DEF RemoveRule
  <2>2. CASE Calls(p, a, ToOther("remove", "rule", p), "save", "raised")
    BY <1>0, <1>3, <2>2, ProbeMessages, CallsType DEF RemoveRule
  <2> QED BY <1>3, <2>1, <2>2 DEF RemoveRule
<1>4. CASE SaveRecovery(p, a)
  BY <1>4, QuietType, GoType DEF SaveRecovery
<1>5. CASE ReleaseGet(p, a)
  <2>1. StoreInv'
    BY <1>5, QuietType DEF ReleaseGet
  <2> QED BY <1>0, <1>5, <2>1, GoType, KeepsType DEF ReleaseGet
<1>6. CASE ReleasePatch(p, a)
  BY <1>0, <1>6, ProbeMessages, CallsType, KeepsType DEF ReleasePatch
<1> QED BY <1>1, <1>2, <1>3, <1>4, <1>5, <1>6 DEF RestoreSteps

LEMMA ProbeType ==
  ASSUME ProbeTypeOK, StoreInv, NEW shown, ProbeNext(shown)
  PROVE  ProbeTypeOK' /\ StoreInv'
<1> USE DEF ProbeTypeOK, ProcPC
<1>0. PICK p \in Probe : \/ Preflight(p, shown) \/ ParentSteps(p, shown)
                         \/ RestoreSteps(p, "parent") \/ WatchdogSteps(p) \/ ParentKilled(p)
  BY DEF ProbeNext
<1>a. /\ \A o \in Object : store[o].rv \in Nat
      /\ "config" \in Object /\ "monitor" \in Object /\ 0 \in Nat
      /\ "parent" \in Actor /\ "watchdog" \in Actor
  BY DEF StoreInv, StoreTypeOK, Document, Object, Actor
<1>b. readRv[p]["parent"] \in Nat /\ monitorRv[p] \in Nat
  BY <1>a
<1>1. CASE Preflight(p, shown)
  BY <1>1, <1>a, QuietType, GoType DEF Preflight
<1>2. CASE LockGet(p)
  <2>1. StoreInv'
    BY <1>2, QuietType DEF LockGet
  <2> QED BY <1>2, <1>a, <2>1, GoType, KeepsType DEF LockGet
<1>3. CASE LockPatch(p)
  BY <1>3, <1>a, <1>b, ProbeMessages, CallsType, KeepsType DEF LockPatch
<1>4. CASE Spawn(p)
  <2>1. [parent |-> "recheck", watchdog |-> "waiting"] \in [Actor -> ProcPC]
    BY DEF Actor
  <2>2. proc' \in [Probe -> [Actor -> ProcPC]]
    BY <1>4, <2>1 DEF Spawn
  <2>3. StoreInv'
    BY <1>4, QuietType DEF Spawn
  <2> QED BY <1>4, <2>2, <2>3 DEF Spawn
<1>5. CASE Recheck(p, shown)
  <2>1. StoreInv'
    BY <1>5, QuietType DEF Recheck
  <2> QED BY <1>5, <1>a, <2>1, GoType DEF Recheck
<1>6. CASE CreateRule(p)
  BY <1>6, <1>a, <1>b, ProbeMessages, CallsType DEF CreateRule
<1>7. CASE BreakMonitor(p)
  <2>1. WellFormed(ToObject("break", "monitor", monitorRv[p], p))
    BY <1>b, ProbeMessages
  <2>2. StoreInv' /\ proc' \in [Probe -> [Actor -> ProcPC]]
    BY <1>7, <1>a, <2>1, CallsType DEF BreakMonitor
  <2>3. monitorRv' \in [Probe -> Nat]
    BY <1>7 DEF BreakMonitor
  <2> QED BY <1>7, <2>2, <2>3 DEF BreakMonitor
<1>8. CASE StopObserving(p)
  BY <1>8, <1>a, QuietType, GoType DEF StopObserving
<1>9. CASE WatchdogReturns(p)
  BY <1>9, <1>a, QuietType, GoType DEF WatchdogReturns
<1>12. CASE RollbackTime(p)
  <2>1. StoreInv'
    BY <1>12 DEF RollbackTime, SetupMayOverrun, SpendFault, StoreInv, StoreTypeOK, effects
  <2> QED BY <1>12, <1>a, <2>1, GoType DEF RollbackTime, SetupMayOverrun, SpendFault
<1>10. CASE ParentKilled(p)
  <2>1. StoreInv'
    BY <1>10 DEF ParentKilled, StoreInv, StoreTypeOK, effects
  <2> QED BY <1>10, <1>a, <2>1, GoType DEF ParentKilled
<1>11. CASE RestoreSteps(p, "parent") \/ RestoreSteps(p, "watchdog")
  BY <1>11, <1>a, RestoreStepsType
<1> QED BY <1>0, <1>1, <1>2, <1>3, <1>4, <1>5, <1>6, <1>7, <1>8, <1>9, <1>10, <1>11, <1>12
        DEF ParentSteps, WatchdogSteps

LEMMA TypeInvInit ==
  ASSUME Init
  PROVE  TypeInv
<1>1. Deployed \in Document
  BY DEF Deployed, Document, Owner, Locker, Value, Base
<1>2. StoreTypeOK /\ flight = {}
  BY <1>1 DEF Init, StoreInit, StoreTypeOK, Owner, Locker, OperatorValue
<1>3. ControllerTypeOK /\ AtTarget
  BY DEF Init, ControllerInit, ControllerTypeOK, AtTarget, Idle, Activity, Owner, Status, PC
<1>4. ProbeTypeOK
  BY DEF Init, ProbeInit, ProbeTypeOK, ProcPC
<1> QED BY <1>2, <1>3, <1>4 DEF TypeInv, TypeOK

LEMMA TypeInvNext ==
  ASSUME TypeInv, [Next]_vars
  PROVE  TypeInv'
<1>0. StoreInv /\ LocalInv /\ ProbeTypeOK
  BY DEF TypeInv, TypeOK, StoreInv, LocalInv
<1>a. ASSUME StoreInv', LocalInv', ProbeTypeOK'
      PROVE  TypeInv'
  BY <1>a DEF TypeInv, TypeOK, StoreInv, LocalInv
<1>b. ASSUME UNCHANGED localVars
      PROVE  LocalInv'
  BY <1>0, <1>b, DueKept DEF LocalInv, ControllerTypeOK, AtTarget, localVars
<1>c. ASSUME UNCHANGED probeVars
      PROVE  ProbeTypeOK'
  BY <1>0, <1>c DEF ProbeTypeOK, probeVars
<1>1. CASE ControllerStep
  BY <1>0, <1>a, <1>c, <1>1, ControllerType DEF ControllerStep
<1>2. CASE ProbeStep
  BY <1>0, <1>a, <1>b, <1>2, ProbeType DEF ProbeStep
<1>3. CASE EnvironmentStep
  BY <1>0, <1>a, <1>b, <1>c, <1>3, EnvironmentType DEF EnvironmentStep
<1>4. CASE UNCHANGED vars
  BY <1>0, <1>a, <1>b, <1>c, <1>4, QuietType DEF vars
<1> QED BY <1>1, <1>2, <1>3, <1>4 DEF Next

(* Whatever calls fail or arrive late and whatever processes are killed,    *)
(* every document, message and local variable keeps its type, and a call    *)
(* is sent to what it is about (app/control.py,                             *)
(* tools/evaluate_external_screenshot.py).                                  *)
THEOREM TypeCorrect == Spec => []TypeOK
<1>1. Spec => []TypeInv
  BY TypeInvInit, TypeInvNext, PTL DEF Spec
<1>2. TypeInv => TypeOK
  BY DEF TypeInv
<1> QED BY <1>1, <1>2, PTL
=============================================================================
