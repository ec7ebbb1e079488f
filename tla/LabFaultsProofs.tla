--------------------------- MODULE LabFaultsProofs ---------------------------
(***************************************************************************)
(* What the ownership of the Lab is for: the faults of a run are under its  *)
(* claim, those of a probe under its lock, and a field gets back what the   *)
(* operator gave it, for any runs, probes, plans and bounds.                *)
(***************************************************************************)
EXTENDS LabLockProofs

-----------------------------------------------------------------------------
(* The controller's runs.                                                   *)

(* What a run may leave behind, by target.                                  *)
FaultAt(r, t) ==
  \/ t \in Object /\ store[t].owner = r
  \/ t \in App /\ app[t] = r
  \/ t = "queue" /\ r \in queue

Claiming == {"claim_get", "claim_patch"}
Injecting == {"start", "start_get", "start_patch", "job_get", "job_patch"}
Recovering == {"recover", "restore_patch", "clear_patch"}

(* Visited by every recovery, whatever the targets of the run.              *)
Always == {"config", "service"}

(* A call that is in flight has been given up, and its author is past the   *)
(* start of its run.                                                        *)
FlightAbandoned == \A m \in flight : m.by \in abandoned

Early(r) ==
  active.run = r /\ (pc \in Claiming \cup Injecting \/ (pc = "idle" /\ active.status = "running"))

AbandonedLate == \A r \in Run \cap abandoned : r \in used /\ ~Early(r)

(* The run in memory is the persisted one once it may have touched          *)
(* anything, and its targets are what the annotations say.                  *)
Claimed ==
  /\ pc \in Injecting \/ (pc = "idle" /\ active.status = "running") =>
       active.run \in Run /\ Config.run = active.run
  /\ active.run \in Run \ abandoned /\ Config.run = active.run =>
       active.targets = Config.targets
  /\ pc \in Claiming \cup Injecting => todo \subseteq active.targets \cup {"config"}

(* A fault is where a recovery of its run will look.                        *)
Covered ==
  \A r \in Run \ abandoned, t \in Step :
    FaultAt(r, t) => Config.run = r /\ t \in Always \cup Config.targets

(* A recovery without errors has its faults still ahead of it.              *)
Progress ==
  /\ pc \in Recovering /\ active.run \notin abandoned /\ ~errors =>
       \A t \in Step : FaultAt(active.run, t) => t \in todo
  /\ pc \in Recovering /\ ~restored => errors
  /\ pc = "clear_patch" => todo = {} /\ ~errors

FaultInv == FlightAbandoned /\ AbandonedLate /\ Claimed /\ Covered /\ Progress

-----------------------------------------------------------------------------
(* The probes.                                                              *)

Ahead == {"none", "lock_get", "lock_patch", "spawn"}

(* The watchdog waits until its parent is past the fault, unless its time   *)
(* has come before: the probe is then an abandoned one.                     *)
Waits(p) ==
  /\ proc[p]["parent"] \in Ahead => proc[p]["watchdog"] = "none"
  /\ proc[p]["parent"] \in SetUp /\ p \notin abandoned =>
       proc[p]["watchdog"] \in {"waiting", "done"}

(* What of a probe is gone at each stage of a restoration.                  *)
Undone(p, at) ==
  /\ at \in {"remove", "save", "release_get", "release_patch"} => store["monitor"].probe # p
  /\ at \in {"save", "release_get", "release_patch"} => rule # p

(* A probe that no timeout has given up on has the Lab while it sets up its *)
(* fault, and as long as a trace of it is left.                             *)
ProbeSafe(p) ==
  /\ Waits(p)
  /\ p \notin abandoned =>
       /\ proc[p]["parent"] \in {"spawn"} \cup SetUp => Config.probe = p
       /\ \A a \in Actor : Undone(p, proc[p][a])
       /\ store["monitor"].probe = p \/ rule = p => Config.probe = p

ProbeInv == \A p \in Probe : ProbeSafe(p)

-----------------------------------------------------------------------------
(* The fields.                                                              *)

Monitor == store["monitor"]

(* Fields a run has yet to journal are not in its journal.                  *)
NotYetMine ==
  pc \in Claiming \cup Injecting => \A o \in todo \cap Object : store[o].owner # active.run

(* What a patch of field o takes for granted about the document d it names. *)
FieldKind == {"journal", "restore", "break", "unbreak"}

Unmarked(o, d) == o = "monitor" => d.probe = None

Ready(kind, by, o, d) ==
  /\ kind = "journal" => d.owner = None /\ Unmarked(o, d)
  /\ kind = "restore" => d.owner = by /\ d.val = Fault /\ Unmarked(o, d)
  /\ kind = "break" => d.val = Base /\ d.probe = None
  /\ kind = "unbreak" => d.probe = by /\ d.val = Fault

FieldPremise(kind, by, o, rv, d) ==
  kind \in FieldKind =>
    /\ rv <= d.rv
    /\ rv = d.rv => Ready(kind, by, o, d)

Grounded(m) == m.to \in Object => FieldPremise(m.kind, m.by, m.to, m.rv, store[m.to])

(* Patches of fields in flight, and those about to be sent.                 *)
FieldSound ==
  /\ \A m \in flight : Grounded(m)
  /\ pc = "start_patch" => FieldPremise("journal", active.run, Due, seen, store[Due])
  /\ pc = "restore_patch" => FieldPremise("restore", active.run, Due, seen, store[Due])

(* The parent has the version of the monitor it will name.                  *)
Aiming == {"lock_get", "lock_patch", "spawn"} \cup SetUp

MonitorSound ==
  \A p \in Probe :
    /\ proc[p]["parent"] \in Aiming => FieldPremise("break", p, "monitor", monitorRv[p], Monitor)
    /\ \A a \in Actor :
         proc[p][a] = "unbreak" => FieldPremise("unbreak", p, "monitor", readRv[p][a], Monitor)

(* The operator's value is in the field, in its journal, or the baseline    *)
(* under a probe's mark.                                                    *)
Kept(o) ==
  \/ store[o].val = opval[o]
  \/ (store[o].owner # None /\ store[o].base = opval[o] /\ store[o].val = Fault)
  \/ (o = "monitor" /\ store[o].probe # None /\ opval[o] = Base /\ store[o].val = Fault)

MarkOnBase == Monitor.probe # None /\ Monitor.val = Fault => opval["monitor"] = Base

Fields == MarkOnBase /\ \A o \in Object : Kept(o)

(* The run whose journal is on a marked monitor is not in memory any more.  *)
Doubled == Monitor.probe # None /\ Monitor.owner # None

MarkedAlone == Doubled => active.run # Monitor.owner

(* When a probe is about to mark the monitor, the Lab is idle, or turning   *)
(* down a start that has not touched the monitor.                           *)
Free ==
  \/ active.run = None
  \/ /\ pc \in {"claim_get", "claim_check"}
     /\ active.run \notin abandoned /\ Monitor.owner # active.run

TurnedDown == \A p \in Probe : proc[p]["parent"] \in {"create", "break"} => Free

FieldInv ==
  abandoned \cap Probe = {} =>
    FieldSound /\ MonitorSound /\ MarkedAlone /\ TurnedDown /\ Fields

-----------------------------------------------------------------------------
(* What a call that is carried out does to claims and faults.               *)

(* The three ways a call may go.                                            *)
LEMMA CallCases ==
  ASSUME NEW m, Answered(m) \/ Failed(m)
  PROVE  /\ opval' = opval
         /\ \/ Accepts(m) /\ Perform(m) /\ UNCHANGED <<flight, abandoned>>
            \/ UNCHANGED effects /\ UNCHANGED <<flight, abandoned>>
            \/ /\ UNCHANGED effects /\ flight' = flight \cup {m}
               /\ abandoned' = abandoned \cup {m.by}
BY DEF Answered, Failed, Refused, Unanswered, SpendFault, storeVars, effects

LEMMA PatchedClaim ==
  ASSUME NEW d \in Document, NEW m, WellFormed(m), m.to \in Object
  PROVE  LET e == [Patched(d, m) EXCEPT !.rv = d.rv + 1] IN
           /\ m.kind = "claim" => e.run = m.by /\ e.targets = m.targets
           /\ m.kind = "clear" => e.run = None
           /\ m.kind \notin {"claim", "clear"} => e.run = d.run /\ e.targets = d.targets
           /\ m.kind = "journal" => e.owner = m.by
           /\ m.kind = "restore" => e.owner = None
           /\ m.kind \notin {"journal", "restore"} => e.owner = d.owner
<1> DEFINE e == [Patched(d, m) EXCEPT !.rv = d.rv + 1]
<1> SUFFICES /\ m.kind = "claim" => e.run = m.by /\ e.targets = m.targets
             /\ m.kind = "clear" => e.run = None
             /\ m.kind \notin {"claim", "clear"} => e.run = d.run /\ e.targets = d.targets
             /\ m.kind = "journal" => e.owner = m.by
             /\ m.kind = "restore" => e.owner = None
             /\ m.kind \notin {"journal", "restore"} => e.owner = d.owner
  OBVIOUS
<1>0. m.kind \in ObjectKind /\ Patched(d, m) \in Document
  BY PatchedType DEF WellFormed
<1>1. /\ e.run = Patched(d, m).run /\ e.targets = Patched(d, m).targets
      /\ e.owner = Patched(d, m).owner
  BY <1>0 DEF Document
<1> HIDE DEF e
<1>2. CASE m.kind = "claim"
  BY <1>1, <1>2 DEF Patched, Document
<1>3. CASE m.kind = "journal"
  BY <1>1, <1>3 DEF Patched, Document
<1>4. CASE m.kind = "restore"
  BY <1>1, <1>4 DEF Patched, Document
<1>5. CASE m.kind = "note_job"
  BY <1>1, <1>5 DEF Patched, Document
<1>6. CASE m.kind = "clear"
  BY <1>1, <1>6 DEF Patched, Document
<1>7. CASE m.kind = "lock"
  BY <1>1, <1>7 DEF Patched, Document
<1>8. CASE m.kind = "unlock"
  BY <1>1, <1>8 DEF Patched, Document
<1>9. CASE m.kind = "break"
  BY <1>1, <1>9 DEF Patched, Document
<1>10. CASE m.kind = "unbreak"
  BY <1>1, <1>10 DEF Patched, Document
<1> QED BY <1>0, <1>2, <1>3, <1>4, <1>5, <1>6, <1>7, <1>8, <1>9, <1>10 DEF ObjectKind

LEMMA StoreFacts ==
  ASSUME TypeInv
  PROVE  /\ store \in [Object -> Document] /\ \A o \in Object : store[o].rv \in Nat
         /\ Object = {"config", "service", "monitor"} /\ Config = store["config"]
         /\ app \in [App -> Owner] /\ queue \subseteq Run
         /\ None \notin Run \cup Probe /\ Run \cap Probe = {}
         /\ Config.run \in Run \cup {None} /\ Config.targets \in SUBSET Step
BY StoreAssumption DEF TypeInv, TypeOK, StoreTypeOK, Document, Object, Config, Owner

(* The document a carried-out message leaves behind; the others stay.       *)
LEMMA PerformStore ==
  ASSUME TypeInv, NEW m, WellFormed(m), Perform(m)
  PROVE  /\ m.to \in Object =>
              /\ store'[m.to] = [Patched(store[m.to], m) EXCEPT !.rv = store[m.to].rv + 1]
              /\ \A o \in Object \ {m.to} : store'[o] = store[o]
              /\ UNCHANGED <<app, queue, rule>>
         /\ m.to \notin Object => store' = store /\ cleared' = cleared
         /\ m.to \in App =>
              /\ app' = [app EXCEPT ![m.to] = IF m.kind = "fault" THEN m.by ELSE None]
              /\ UNCHANGED <<queue, rule>>
         /\ m.to = "queue" =>
              /\ queue' = IF m.kind = "insert" THEN queue \cup {m.by} ELSE queue \ {m.by}
              /\ UNCHANGED <<app, rule>>
         /\ m.to = "rule" =>
              /\ rule' = IF m.kind = "create" THEN m.by ELSE None
              /\ UNCHANGED <<app, queue>>
BY StoreFacts DEF Perform, PerformObject, PerformApp, PerformQueue, PerformRule, Object, App

LEMMA PerformClaim ==
  ASSUME TypeInv, NEW m, WellFormed(m), Perform(m)
  PROVE  /\ m.kind = "claim" => Config'.run = m.by /\ Config'.targets = m.targets
         /\ m.kind = "clear" => Config'.run = None
         /\ m.kind \notin {"claim", "clear"} =>
              Config'.run = Config.run /\ Config'.targets = Config.targets
<1>0. /\ store \in [Object -> Document] /\ Config = store["config"] /\ "config" \in Object
      /\ Config' = store'["config"]
  BY StoreFacts DEF Config
<1>1. CASE m.to = "config"
  <2>1. Config' = [Patched(Config, m) EXCEPT !.rv = Config.rv + 1]
    BY <1>0, <1>1, PerformStore
  <2>2. Config \in Document
    BY <1>0
  <2> QED BY <1>0, <1>1, <2>1, <2>2, PatchedClaim
<1>2. CASE m.to # "config"
  <2>1. Config' = Config
    BY <1>0, <1>2, PerformStore
  <2> QED BY <1>2, <2>1 DEF WellFormed
<1> QED BY <1>1, <1>2

(* A call makes at most the fault it is for, and takes back at least that.  *)
Injects == {"journal", "fault", "insert"}
Restores == {"restore", "normal", "delete"}

LEMMA PerformFaults ==
  ASSUME TypeInv, NEW m, WellFormed(m), Perform(m), NEW r \in Run, NEW t \in Step,
         FaultAt(r, t)'
  PROVE  /\ FaultAt(r, t) \/ (r = m.by /\ t = m.to /\ m.kind \in Injects)
         /\ ~(r = m.by /\ t = m.to /\ m.kind \in Restores)
<1>0. /\ store \in [Object -> Document] /\ app \in [App -> Owner]
      /\ None \notin Run /\ m \in Message /\ Run \cap Probe = {}
  BY StoreFacts DEF WellFormed
<1>1. CASE m.to \in Object
  <2>1. /\ store'[m.to] = [Patched(store[m.to], m) EXCEPT !.rv = store[m.to].rv + 1]
        /\ \A o \in Object \ {m.to} : store'[o] = store[o]
        /\ UNCHANGED <<app, queue>>
    BY <1>1, PerformStore
  <2>2. CASE t = m.to
    <3> DEFINE d == store[t]
               e == [Patched(d, m) EXCEPT !.rv = d.rv + 1]
    <3>1. d \in Document /\ store'[t] = e
      BY <1>0, <1>1, <2>1, <2>2
    <3>2. /\ m.kind = "journal" => store'[t].owner = m.by
          /\ m.kind = "restore" => store'[t].owner = None
          /\ m.kind \notin {"journal", "restore"} => store'[t].owner = store[t].owner
      BY <1>1, <3>1, PatchedClaim
    <3>3. store'[t].owner = r
      BY <1>1, <2>2 DEF FaultAt, Object, App
    <3>4. m.kind \in ObjectKind
      BY <1>1 DEF WellFormed
    <3> QED BY <1>0, <1>1, <2>2, <3>2, <3>3, <3>4 DEF FaultAt, Injects, Restores, ObjectKind
  <2>3. CASE t # m.to
    BY <2>1, <2>3 DEF FaultAt
  <2> QED BY <2>2, <2>3
<1>2. CASE m.to \in App
  <2>1. /\ app' = [app EXCEPT ![m.to] = IF m.kind = "fault" THEN m.by ELSE None]
        /\ UNCHANGED <<store, queue>>
    BY <1>2, PerformStore DEF App, Object
  <2>2. CASE t = m.to
    <3>1. app'[t] = IF m.kind = "fault" THEN m.by ELSE None
      BY <1>0, <1>2, <2>1, <2>2
    <3>2. app'[t] = r
      BY <1>2, <2>2 DEF FaultAt, Object, App
    <3> QED BY <1>0, <2>2, <3>1, <3>2 DEF Injects, Restores
  <2>3. CASE t # m.to
    BY <1>0, <2>1, <2>3 DEF FaultAt
  <2> QED BY <2>2, <2>3
<1>3. CASE m.to = "queue"
  <2>1. /\ queue' = IF m.kind = "insert" THEN queue \cup {m.by} ELSE queue \ {m.by}
        /\ UNCHANGED <<store, app>>
    BY <1>3, PerformStore DEF App, Object
  <2> QED BY <1>3, <2>1 DEF FaultAt, Injects, Restores, Object, App
<1>4. CASE m.to = "rule"
  <2>1. UNCHANGED <<store, app, queue>>
    BY <1>4, PerformStore DEF App, Object
  <2>2. m.to # t
    BY <1>4 DEF Step, Object, App
  <2> QED BY <2>1, <2>2 DEF FaultAt
<1> QED BY <1>0, <1>1, <1>2, <1>3, <1>4 DEF Message, Step

-----------------------------------------------------------------------------
(* Calls and the cover.                                                     *)

(* A call that has been given up may do anything; another one of a run      *)
(* injects under the claim, and clears the claim when the run is clean.     *)
Rightful(m) ==
  m.by \in Run \ abandoned =>
    /\ m.kind \in Injects => Config.run = m.by /\ m.to \in Always \cup Config.targets
    /\ m.kind = "clear" => \A t \in Step : ~FaultAt(m.by, t)

Stays == Config'.run = Config.run /\ Config'.targets = Config.targets

(* What becomes of the claim.                                               *)
Settles(m) ==
  \/ Stays
  \/ /\ m.kind = "claim"
     /\ Config.run = None /\ Config'.run = m.by /\ Config'.targets = m.targets
  \/ m.kind = "clear" /\ Config.run = m.by /\ Config'.run = None

LEMMA PerformCovered ==
  ASSUME TypeInv, Covered, NEW m, WellFormed(m), Sound(m), Rightful(m), Accepts(m),
         Perform(m), abandoned' = abandoned
  PROVE  Covered' /\ Settles(m)
<1>0. Config = store["config"] /\ None \notin Run
  BY StoreFacts
<1>1. /\ m.kind = "claim" => Config.run = None
      /\ m.kind = "clear" => Config.run = m.by
  <2>1. CASE m.kind \in {"claim", "clear"}
    <3>1. m.to = "config" /\ m.rv = Config.rv
      BY <1>0, <2>1 DEF WellFormed, Accepts, Object
    <3> QED BY <2>1, <3>1 DEF Sound, Agrees, Acquiring, Releasing
  <2> QED BY <2>1
<1>2. Settles(m)
  BY <1>1, PerformClaim DEF Settles, Stays
<1>3. ASSUME NEW r \in Run \ abandoned, NEW t \in Step, FaultAt(r, t)'
      PROVE  Config'.run = r /\ t \in Always \cup Config'.targets
  <2>1. CASE FaultAt(r, t)
    <3>1. Config.run = r /\ t \in Always \cup Config.targets
      BY <1>3, <2>1 DEF Covered
    <3>2. Stays
      BY <1>0, <1>1, <1>2, <2>1, <3>1 DEF Settles, Rightful
    <3> QED BY <3>1, <3>2 DEF Stays
  <2>2. CASE r = m.by /\ t = m.to /\ m.kind \in Injects
    <3>1. Stays
      BY <1>2, <2>2 DEF Settles, Injects
    <3> QED BY <2>2, <3>1 DEF Stays, Rightful
  <2> QED BY <1>3, <2>1, <2>2, PerformFaults
<1>4. Covered'
  BY <1>3 DEF Covered
<1> QED BY <1>2, <1>4

LEMMA SameFaults ==
  ASSUME UNCHANGED effects
  PROVE  Stays /\ \A r, t : FaultAt(r, t)' = FaultAt(r, t)
BY DEF Stays, Config, effects, FaultAt

(* Whatever its outcome, a rightful call leaves every fault covered.        *)
CallEffect(m) ==
  /\ FlightAbandoned' /\ Covered' /\ Settles(m)
  /\ abandoned \subseteq abandoned' /\ abandoned' \subseteq abandoned \cup {m.by}
  /\ \A r \in Run, t \in Step :
       FaultAt(r, t)' => FaultAt(r, t) \/ (r = m.by /\ t = m.to /\ m.kind \in Injects)

LEMMA CallCovered ==
  ASSUME TypeInv, FlightAbandoned, Covered, NEW m, WellFormed(m), Sound(m), Rightful(m),
         Answered(m) \/ Failed(m)
  PROVE  CallEffect(m)
<1>1. CASE Accepts(m) /\ Perform(m) /\ UNCHANGED <<flight, abandoned>>
  <2>1. Covered' /\ Settles(m)
    BY <1>1, PerformCovered
  <2>2. FlightAbandoned'
    BY <1>1 DEF FlightAbandoned
  <2> QED BY <1>1, <2>1, <2>2, PerformFaults DEF CallEffect
<1>2. CASE /\ UNCHANGED effects
           /\ \/ UNCHANGED <<flight, abandoned>>
              \/ flight' = flight \cup {m} /\ abandoned' = abandoned \cup {m.by}
  <2>1. FlightAbandoned'
    BY <1>2 DEF FlightAbandoned
  <2>2. Stays /\ \A r, t : FaultAt(r, t)' = FaultAt(r, t)
    BY <1>2, SameFaults
  <2>3. Covered'
    BY <1>2, <2>2 DEF Covered, Stays
  <2> QED BY <1>2, <2>1, <2>2, <2>3 DEF CallEffect, Settles
<1> QED BY <1>1, <1>2, CallCases

-----------------------------------------------------------------------------
(* Every step of a probe that reaches the store is a call of its own.       *)

LEMMA GoFacts ==
  ASSUME TypeInv, NEW p \in Probe, NEW a \in Actor, NEW to, Go(p, a, to)
  PROVE  /\ proc'[p][a] = to
         /\ \A b \in Actor : b # a => proc'[p][b] = proc[p][b]
         /\ \A q \in Probe : q # p => proc'[q] = proc[q]
BY DEF TypeInv, TypeOK, ProbeTypeOK, Go

(* The patches of the monitor, and where their process is.                  *)
Aimed(p, m) ==
  /\ m.kind = "break" =>
       proc[p]["parent"] = "break" /\ m = ToObject("break", "monitor", monitorRv[p], p)
  /\ m.kind = "unbreak" =>
       \E a \in Actor :
         proc[p][a] = "unbreak" /\ m = ToObject("unbreak", "monitor", readRv[p][a], p)

LEMMA ProbeCalls ==
  ASSUME TypeInv, LockInv, NEW p \in Probe, NEW shown,
         \/ Preflight(p, shown) \/ ParentSteps(p, shown) \/ RestoreSteps(p, "parent")
         \/ WatchdogSteps(p) \/ ParentKilled(p)
  PROVE  /\ \A q \in Probe : q # p => proc'[q] = proc[q]
         /\ \/ /\ UNCHANGED <<effects, flight, opval>>
               /\ abandoned' \in {abandoned, abandoned \cup {p}}
            \/ \E m : /\ WellFormed(m) /\ Sound(m) /\ m.by = p /\ Aimed(p, m)
                      /\ Answered(m) \/ Failed(m)
<1> DEFINE Silent == /\ UNCHANGED <<effects, flight, opval>>
                     /\ abandoned' \in {abandoned, abandoned \cup {p}}
           Sent(m) == /\ WellFormed(m) /\ Sound(m) /\ m.by = p /\ Aimed(p, m)
                      /\ Answered(m) \/ Failed(m)
           Result == /\ \A q \in Probe : q # p => proc'[q] = proc[q]
                     /\ Silent \/ \E m : Sent(m)
<1> SUFFICES Result
  OBVIOUS
<1>0. /\ "parent" \in Actor /\ "watchdog" \in Actor /\ monitorRv[p] \in Nat
      /\ \A a \in Actor : readRv[p][a] \in Nat
      /\ proc \in [Probe -> [Actor -> ProcPC]]
  BY DEF Actor, TypeInv, TypeOK, ProbeTypeOK
<1>a. ASSUME UNCHANGED storeVars \/ ReadFails, NEW a \in Actor, NEW to, Go(p, a, to)
      PROVE  Result
  BY <1>a, GoFacts DEF storeVars, ReadFails, SpendFault
<1>b. ASSUME NEW m, WellFormed(m), Sound(m), m.by = p, Aimed(p, m), NEW a \in Actor,
             NEW ok, NEW failed, Calls(p, a, m, ok, failed)
      PROVE  Result
  <2>1. Sent(m)
    BY <1>b DEF Calls
  <2>2. \A q \in Probe : q # p => proc'[q] = proc[q]
    BY <1>b, GoFacts DEF Calls
  <2> QED BY <2>1, <2>2
<1> HIDE DEF Result
<1>1. CASE Preflight(p, shown) \/ StopObserving(p) \/ WatchdogReturns(p)
  BY <1>0, <1>1, <1>a DEF Preflight, StopObserving, WatchdogReturns
<1>9. CASE RollbackTime(p)
  BY <1>0, <1>9, GoFacts DEF RollbackTime, SetupMayOverrun, SpendFault, Result
<1>2. CASE LockGet(p) \/ Recheck(p, shown)
  <2>1. /\ UNCHANGED storeVars \/ ReadFails
        /\ \E to : Go(p, "parent", to)
    BY <1>2 DEF LockGet, Recheck
  <2> QED BY <1>0, <1>a, <2>1
<1>3. CASE ParentKilled(p)
  BY <1>0, <1>3, GoFacts DEF ParentKilled, Result
<1>4. CASE Spawn(p)
  BY <1>0, <1>4 DEF Spawn, Result, storeVars
<1>5. CASE LockPatch(p)
  <2> DEFINE m == ToObject("lock", "config", readRv[p]["parent"], p)
  <2>1. Calls(p, "parent", m, "spawn", "raised") /\ WellFormed(m)
    BY <1>0, <1>5, ProbeMessages DEF LockPatch
  <2>2. m.by = p /\ m.kind = "lock" /\ m.rv = readRv[p]["parent"] /\ Aimed(p, m)
    BY DEF ToObject, Aimed
  <2>3. Premise(Config, p, "lock_patch", readRv[p]["parent"])
    BY <1>0, <1>5 DEF LockInv, ProbeSound, LockPatch, At
  <2> HIDE DEF m
  <2>4. Sound(m)
    BY <2>2, <2>3 DEF Premise, Sound, Agrees, Acquiring, Releasing
  <2> QED BY <1>0, <1>b, <2>1, <2>2, <2>4
<1>6. CASE CreateRule(p)
  <2> DEFINE m == ToOther("create", "rule", p)
  <2>1. Calls(p, "parent", m, "break", "restore") /\ WellFormed(m) /\ Sound(m)
    BY <1>0, <1>6, ProbeMessages, ProbeMessagesSound DEF CreateRule
  <2>2. m.by = p /\ Aimed(p, m)
    BY DEF ToOther, Aimed
  <2> HIDE DEF m
  <2> QED BY <1>0, <1>b, <2>1, <2>2
<1>7. CASE BreakMonitor(p)
  <2> DEFINE m == ToObject("break", "monitor", monitorRv[p], p)
  <2>1. Calls(p, "parent", m, "observe", "restore") /\ WellFormed(m) /\ Sound(m)
    BY <1>0, <1>7, ProbeMessages, ProbeMessagesSound DEF BreakMonitor
  <2>2. m.by = p /\ Aimed(p, m)
    BY <1>7 DEF BreakMonitor, At, ToObject, Aimed
  <2> HIDE DEF m
  <2> QED BY <1>0, <1>b, <2>1, <2>2
<1>8. ASSUME NEW a \in Actor, RestoreSteps(p, a)
      PROVE  Result
  <2>1. CASE RestoreMonitorGet(p, a) \/ SaveRecovery(p, a) \/ ReleaseGet(p, a)
    <3>1. /\ UNCHANGED storeVars \/ ReadFails
          /\ \E to : Go(p, a, to)
      BY <2>1 DEF RestoreMonitorGet, SaveRecovery, ReleaseGet
    <3> QED BY <1>a, <3>1
  <2>2. CASE UnbreakMonitor(p, a)
    <3> DEFINE m == ToObject("unbreak", "monitor", readRv[p][a], p)
    <3>1. Calls(p, a, m, "remove", "raised") /\ WellFormed(m) /\ Sound(m)
      BY <1>0, <2>2, ProbeMessages, ProbeMessagesSound DEF UnbreakMonitor
    <3>2. m.by = p /\ Aimed(p, m)
      BY <1>8, <2>2 DEF UnbreakMonitor, At, ToObject, Aimed
    <3> HIDE DEF m
    <3> QED BY <1>b, <3>1, <3>2
  <2>3. CASE RemoveRule(p, a)
    <3> DEFINE m == ToOther("remove", "rule", p)
    <3>1. WellFormed(m) /\ Sound(m)
      BY ProbeMessages, ProbeMessagesSound
    <3>3. m.by = p /\ Aimed(p, m)
      BY DEF ToOther, Aimed
    <3>2. \/ UNCHANGED storeVars /\ \E to : Go(p, a, to)
          \/ Calls(p, a, m, "save", "raised")
      BY <2>3 DEF RemoveRule
    <3> HIDE DEF m
    <3> QED BY <1>a, <1>b, <3>1, <3>2, <3>3
  <2>4. CASE ReleasePatch(p, a)
    <3> DEFINE m == ToObject("unlock", "config", readRv[p][a], p)
    <3>1. Calls(p, a, m, "done", "raised") /\ WellFormed(m)
      BY <1>0, <2>4, ProbeMessages DEF ReleasePatch
    <3>2. m.by = p /\ m.kind = "unlock" /\ m.rv = readRv[p][a] /\ Aimed(p, m)
      BY DEF ToObject, Aimed
    <3>3. Premise(Config, p, "release_patch", readRv[p][a])
      BY <2>4 DEF LockInv, ProbeSound, ReleasePatch, At
    <3> HIDE DEF m
    <3>4. Sound(m)
      BY <3>2, <3>3 DEF Premise, Sound, Agrees, Acquiring, Releasing
    <3> QED BY <1>b, <3>1, <3>2, <3>4
  <2> QED BY <1>8, <2>1, <2>2, <2>3, <2>4 DEF RestoreSteps
<1> QED BY <1>0, <1>1, <1>2, <1>3, <1>4, <1>5, <1>6, <1>7, <1>8, <1>9
        DEF ParentSteps, WatchdogSteps

-----------------------------------------------------------------------------
(* Steps of others leave a run's faults to the run.                         *)

Foreign ==
  /\ UNCHANGED localVars
  /\ FlightAbandoned' /\ Covered'
  /\ abandoned' \cap Run = abandoned \cap Run
  /\ \A r \in Run \ abandoned, t \in Step : FaultAt(r, t)' => FaultAt(r, t)
  /\ Stays \/ {Config.run, Config'.run} \cap (Run \ abandoned) = {}

LEMMA ForeignKept ==
  ASSUME TypeInv, FaultInv, Foreign
  PROVE  FaultInv'
<1>0. pc' = pc /\ active' = active /\ todo' = todo /\ errors' = errors
      /\ restored' = restored /\ used' = used /\ Due' = Due
  BY DueKept DEF Foreign, localVars
<1>1. AbandonedLate'
  BY <1>0 DEF Foreign, FaultInv, AbandonedLate, Early
<1>2. Claimed'
  <2>1. pc \in Injecting \/ (pc = "idle" /\ active.status = "running")
        => active.run \in Run \ abandoned /\ Config.run = active.run
    BY DEF FaultInv, Claimed, AbandonedLate, Early
  <2> QED BY <1>0, <2>1 DEF Foreign, FaultInv, Claimed, Stays
<1>3. Progress'
  <2>1. pc \in Recovering => active.run \in Run
    BY DEF TypeInv, AtTarget, Recovering
  <2> QED BY <1>0, <2>1 DEF Foreign, FaultInv, Progress
<1> QED BY <1>1, <1>2, <1>3 DEF Foreign, FaultInv

LEMMA QuietForeign ==
  ASSUME FaultInv, UNCHANGED localVars, UNCHANGED effects, flight' = flight,
         abandoned \subseteq abandoned', abandoned' \cap Run = abandoned \cap Run
  PROVE  Foreign
BY SameFaults DEF Foreign, FaultInv, FlightAbandoned, Covered, Stays

LEMMA EnvironmentForeign ==
  ASSUME TypeInv, LockInv, FaultInv, EnvironmentStep
  PROVE  Foreign
<1>0. UNCHANGED localVars /\ Environment /\ None \notin Run
  BY StoreFacts DEF EnvironmentStep
<1>1. ASSUME NEW m \in flight, Deliver(m)
      PROVE  Foreign
  <2>1. WellFormed(m) /\ Sound(m) /\ m.by \in abandoned
    BY DEF TypeInv, LockInv, FlightSound, FaultInv, FlightAbandoned
  <2>2. Covered' /\ Settles(m)
    BY <1>1, <2>1, PerformCovered DEF Deliver, Rightful, FaultInv
  <2>3. FlightAbandoned'
    BY <1>1 DEF Deliver, FaultInv, FlightAbandoned
  <2>4. \A r \in Run \ abandoned, t \in Step : FaultAt(r, t)' => FaultAt(r, t)
    BY <1>1, <2>1, PerformFaults DEF Deliver
  <2> QED BY <1>0, <1>1, <2>1, <2>2, <2>3, <2>4 DEF Foreign, Deliver, Settles
<1>2. ASSUME NEW m \in flight, Discard(m)
      PROVE  Foreign
  <2>1. Stays /\ \A r, t : FaultAt(r, t)' = FaultAt(r, t)
    BY <1>2, SameFaults DEF Discard
  <2> QED BY <1>0, <1>2, <2>1
          DEF Foreign, Discard, FaultInv, FlightAbandoned, Covered, Stays
<1>3. ASSUME NEW o \in Object, NEW v \in OperatorValue, OperatorEdit(o, v)
      PROVE  Foreign
  <2>1. \A q \in Object : /\ store'[q].owner = store[q].owner
                           /\ store'[q].run = store[q].run
                           /\ store'[q].targets = store[q].targets
    BY <1>3, StoreFacts DEF OperatorEdit, Document
  <2>2. Stays
    BY <2>1 DEF Stays, Config, Object
  <2>3. \A r, t : FaultAt(r, t)' = FaultAt(r, t)
    BY <1>3, <2>1 DEF OperatorEdit, FaultAt
  <2> QED BY <1>0, <1>3, <2>2, <2>3
          DEF Foreign, OperatorEdit, FaultInv, FlightAbandoned, Covered, Stays
<1>4. ASSUME NEW a \in App, LeaseExpires(a)
      PROVE  Foreign
  <2>1. Stays
    BY <1>4 DEF LeaseExpires, Stays, Config
  <2>2. \A r \in Run, t \in Step : FaultAt(r, t)' => FaultAt(r, t)
    BY <1>4, StoreFacts DEF LeaseExpires, FaultAt
  <2> QED BY <1>0, <1>4, <2>1, <2>2
          DEF Foreign, LeaseExpires, FaultInv, FlightAbandoned, Covered, Stays
<1> QED BY <1>0, <1>1, <1>2, <1>3, <1>4 DEF Environment

LEMMA ProbeCallForeign ==
  ASSUME TypeInv, FaultInv, UNCHANGED localVars, NEW m, WellFormed(m), Sound(m),
         m.by \in Probe, Answered(m) \/ Failed(m)
  PROVE  Foreign
<1>1. m.by \notin Run /\ m.kind \notin {"claim", "clear"}
  BY StoreFacts DEF WellFormed
<1>2. CallEffect(m)
  BY <1>1, CallCovered DEF Rightful, FaultInv
<1> QED BY <1>1, <1>2 DEF CallEffect, Settles, Foreign, FaultInv

LEMMA ProbeForeign ==
  ASSUME TypeInv, LockInv, FaultInv, ProbeStep
  PROVE  Foreign
<1>1. UNCHANGED localVars
  BY DEF ProbeStep
<1>2. \/ /\ UNCHANGED effects /\ flight' = flight
         /\ \E p \in Probe : abandoned' \in {abandoned, abandoned \cup {p}}
      \/ \E m : /\ WellFormed(m) /\ Sound(m) /\ m.by \in Probe
                /\ Answered(m) \/ Failed(m)
  BY ProbeCalls DEF ProbeStep, ProbeNext
<1>3. Run \cap Probe = {}
  BY StoreAssumption
<1> QED BY <1>1, <1>2, <1>3, QuietForeign, ProbeCallForeign

-----------------------------------------------------------------------------
(* The controller's own steps.                                              *)

(* A step of the controller to the store: every fault is still covered, and *)
(* the targets in memory are still those of the annotations.                *)
StoreStep ==
  /\ FlightAbandoned' /\ Covered'
  /\ abandoned \subseteq abandoned' /\ abandoned' \subseteq abandoned \cup {active.run}
  /\ \/ Stays
     \/ Config'.run # active.run
     \/ Config'.targets = active.targets

LEMMA QuietStep ==
  ASSUME FaultInv, UNCHANGED storeVars \/ ReadFails
  PROVE  /\ StoreStep /\ Stays /\ abandoned' = abandoned
         /\ \A r, t : FaultAt(r, t)' = FaultAt(r, t)
<1>1. UNCHANGED effects /\ flight' = flight /\ abandoned' = abandoned
  BY DEF ReadFails, storeVars
<1> QED BY <1>1, SameFaults DEF StoreStep, Stays, FaultInv, FlightAbandoned, Covered

LEMMA CallStep ==
  ASSUME TypeInv, FaultInv, NEW m, CallEffect(m), m.by = active.run, active.run \in Run,
         m.kind = "claim" => m.targets = active.targets
  PROVE  StoreStep
BY StoreFacts DEF CallEffect, StoreStep, Settles

(* A recovery begins with every fault of its run ahead of it.               *)
LEMMA BeginFaults ==
  ASSUME TypeInv, Covered', NEW a, BeginRecovery(a), a.run \in Run,
         a.run \notin abandoned' /\ Config'.run = a.run => a.targets = Config'.targets
  PROVE  Progress'
BY DEF BeginRecovery, Progress, Covered, Recovering, Always

LEMMA FailedFaults ==
  ASSUME TypeInv, LockInv, FaultInv, pc # "idle", StartFailed, StoreStep
  PROVE  FaultInv'
<1>0. /\ active.run \in Run /\ active \in Activity /\ None \notin Run
      /\ active.run \in used
  BY StoreFacts DEF TypeInv, AtTarget, TypeOK, ControllerTypeOK, LockInv, ActiveUsed
<1> DEFINE a == [active EXCEPT !.status = "recovering"]
<1>1. a.run = active.run /\ a.status = "recovering" /\ a.targets = active.targets
  BY <1>0 DEF Activity
<1>2. active' = a /\ pc' = "recover" /\ used' = used /\ BeginRecovery(a)
  BY DEF StartFailed, BeginRecovery
<1> HIDE DEF a
<1>3. a.run \notin abandoned' /\ Config'.run = a.run => a.targets = Config'.targets
  BY <1>0, <1>1 DEF StoreStep, Stays, FaultInv, Claimed
<1>4. Progress'
  BY <1>0, <1>1, <1>2, <1>3, BeginFaults DEF StoreStep
<1>5. AbandonedLate'
  BY <1>0, <1>1, <1>2
     DEF StoreStep, FaultInv, AbandonedLate, Early, Claiming, Injecting
<1>6. Claimed'
  BY <1>0, <1>1, <1>2, <1>3 DEF Claimed, Claiming, Injecting
<1> QED BY <1>4, <1>5, <1>6 DEF FaultInv, StoreStep

LEMMA ReturnFaults ==
  ASSUME TypeInv, LockInv, FaultInv, pc # "idle", Return, used' = used, StoreStep,
         StillRecovering \/ active' = Idle
  PROVE  FaultInv'
<1>0. /\ active.run \in Run /\ active \in Activity /\ None \notin Run
      /\ active.run \in used
  BY StoreFacts DEF TypeInv, AtTarget, TypeOK, ControllerTypeOK, LockInv, ActiveUsed
<1>1. /\ pc' = "idle" /\ active'.status # "running"
      /\ active'.run \in {None, active.run}
      /\ active'.run = active.run => active'.targets = active.targets
  BY <1>0 DEF Return, StillRecovering, Idle, Activity
<1>2. AbandonedLate'
  BY <1>0, <1>1 DEF StoreStep, FaultInv, AbandonedLate, Early, Claiming, Injecting
<1>3. Claimed'
  BY <1>0, <1>1 DEF StoreStep, Stays, FaultInv, Claimed, Claiming, Injecting
<1>4. Progress'
  BY <1>1 DEF Progress, Recovering
<1> QED BY <1>2, <1>3, <1>4 DEF FaultInv, StoreStep

(* A start that goes on to its next step.                                   *)
LEMMA GoesOnFaults ==
  ASSUME TypeInv, LockInv, FaultInv, pc \in Claiming \cup Injecting, StoreStep,
         abandoned' = abandoned, used' = used, todo' \subseteq todo,
         active'.run = active.run, active'.targets = active.targets,
         \/ pc' \in Claiming
         \/ /\ pc' \in Injecting \/ (pc' = "idle" /\ active'.status = "running")
            /\ Config'.run = active.run /\ Config'.targets = active.targets
  PROVE  FaultInv'
<1>0. active.run \in Run /\ None \notin Run
  BY StoreFacts DEF TypeInv, AtTarget, Claiming, Injecting
<1>1. AbandonedLate'
  BY <1>0 DEF FaultInv, AbandonedLate, Early
<1>2. Claimed'
  BY <1>0 DEF StoreStep, Stays, FaultInv, Claimed, Claiming, Injecting
<1>3. Progress'
  BY DEF Progress, Recovering, Claiming, Injecting
<1> QED BY <1>1, <1>2, <1>3 DEF FaultInv, StoreStep

(* A recovery that goes on to its next target.                              *)
LEMMA NextTargetFaults ==
  ASSUME TypeInv, LockInv, FaultInv, pc \in {"recover", "restore_patch"}, pc' = "recover",
         NEW failed \in BOOLEAN, NextTarget(failed), StoreStep,
         NEW r, NEW d, r = active.run, d = Due,
         \A t \in Step : FaultAt(r, t)' => FaultAt(r, t),
         errors \/ failed \/ ~FaultAt(r, d)'
  PROVE  FaultInv'
<1>0. active.run \in Run /\ None \notin Run /\ active.run \in used
  BY StoreFacts DEF TypeInv, AtTarget, LockInv, ActiveUsed
<1>1. AbandonedLate'
  BY <1>0 DEF NextTarget, StoreStep, FaultInv, AbandonedLate, Early, Claiming, Injecting
<1>2. Claimed'
  BY <1>0 DEF NextTarget, StoreStep, Stays, FaultInv, Claimed, Claiming, Injecting
<1>3. Progress'
  <2>1. /\ active' = active /\ todo' = todo \ {Due} /\ errors' = (errors \/ failed)
        /\ restored' = (restored /\ ~(failed /\ Due = "config"))
    BY DEF NextTarget
  <2>2. ~restored' => errors'
    BY <2>1 DEF FaultInv, Progress, Recovering
  <2>3. ASSUME r \notin abandoned', ~errors', NEW t \in Step, FaultAt(r, t)'
        PROVE  t \in todo'
    BY <2>1, <2>3 DEF StoreStep, FaultInv, Progress, Recovering
  <2> QED BY <2>1, <2>2, <2>3 DEF Progress
<1> QED BY <1>1, <1>2, <1>3 DEF FaultInv, StoreStep

LEMMA StartFaults ==
  ASSUME TypeInv, LockInv, FaultInv, NEW r \in Run, NEW plan \in Plans, Start(r, plan)
  PROVE  FaultInv'
<1>0. /\ None \notin Run /\ plan \subseteq Step /\ r \notin abandoned /\ Config.run = None
  BY StoreFacts, PlanAssumption DEF Start, FaultInv, AbandonedLate
<1>1. /\ active'.run = r /\ active'.status = "starting" /\ active'.targets = plan \ {"config"}
      /\ todo' = plan /\ used' = used \cup {r} /\ pc' = "claim_get"
  BY DEF Start
<1>2. StoreStep /\ Stays /\ abandoned' = abandoned
  BY QuietStep DEF Start
<1>3. AbandonedLate'
  BY <1>0, <1>1, <1>2 DEF FaultInv, AbandonedLate, Early
<1>4. Claimed'
  BY <1>0, <1>1, <1>2 DEF Stays, Claimed, Injecting
<1>5. Progress'
  BY <1>1 DEF Progress, Recovering
<1> QED BY <1>2, <1>3, <1>4, <1>5 DEF StoreStep, FaultInv

LEMMA ResumeFaults ==
  ASSUME TypeInv, LockInv, FaultInv, RecoverActive \/ AdoptPersisted
  PROVE  FaultInv'
<1>0. /\ None \notin Run /\ active \in Activity /\ Config.run \in Run \cup {None}
      /\ Config.targets \in SUBSET Step
  BY StoreFacts DEF TypeInv, TypeOK, ControllerTypeOK
<1>1. StoreStep /\ Stays /\ abandoned' = abandoned /\ used' = used /\ pc' = "recover"
  BY QuietStep DEF RecoverActive, AdoptPersisted, BeginRecovery
<1>2. /\ BeginRecovery(active') /\ active'.run \in Run
      /\ active'.run \notin abandoned' /\ Config'.run = active'.run
           => active'.targets = Config'.targets
  <2>1. CASE RecoverActive
    BY <1>0, <1>1, <2>1
       DEF RecoverActive, BeginRecovery, Activity, Owner, Stays, FaultInv, Claimed
  <2>2. CASE AdoptPersisted
    BY <1>0, <1>1, <2>2 DEF AdoptPersisted, BeginRecovery, Persisted, Stays
  <2> QED BY <2>1, <2>2
<1>3. Progress'
  BY <1>0, <1>1, <1>2, BeginFaults DEF StoreStep
<1>4. Claimed'
  BY <1>1, <1>2 DEF Claimed, Claiming, Injecting
<1>5. AbandonedLate'
  BY <1>1 DEF FaultInv, AbandonedLate, Early, Claiming, Injecting
<1> QED BY <1>1, <1>3, <1>4, <1>5 DEF StoreStep, FaultInv

LEMMA CrashFaults ==
  ASSUME TypeInv, LockInv, FaultInv, ControllerCrash
  PROVE  FaultInv'
<1>0. /\ None \notin Run /\ pc' = "idle" /\ active'.run = None /\ active'.status = "none"
      /\ used' = used
  BY StoreFacts DEF ControllerCrash, Return, Idle
<1>1. /\ UNCHANGED effects /\ flight' = flight /\ abandoned' = abandoned
  BY DEF ControllerCrash
<1>2. Stays /\ FlightAbandoned' /\ Covered'
  BY <1>1, SameFaults DEF Stays, FaultInv, FlightAbandoned, Covered
<1>3. AbandonedLate' /\ Claimed' /\ Progress'
  BY <1>0, <1>1
     DEF FaultInv, AbandonedLate, Early, Claimed, Progress, Claiming, Injecting, Recovering
<1> QED BY <1>2, <1>3 DEF FaultInv

(* The target that a thread names is one it has to visit.                   *)
LEMMA DueInTodo ==
  ASSUME todo \subseteq Step, todo # {}
  PROVE  Due \in todo
<1> DEFINE Least(t) == t \in todo /\ \A u \in todo : Rank[t] <= Rank[u]
<1>1. /\ Rank["monitor"] = 1 /\ Rank["config"] = 2 /\ Rank["service"] = 3
      /\ Rank["inventory"] = 4 /\ Rank["queue"] = 5 /\ Rank["worker"] = 6
      /\ Rank["orders"] = 7 /\ Rank["edge"] = 8 /\ Rank["library"] = 9
  BY DEF Rank
<1>2. \A u \in todo : u \in {"monitor", "config", "service", "inventory", "queue", "worker",
                            "orders", "edge", "library"}
  BY DEF Step, Object, App
<1>3. \E t : Least(t)
  BY <1>1, <1>2
<1> QED BY <1>3 DEF Due

LEMMA StartStepsFaults ==
  ASSUME TypeInv, LockInv, FaultInv, StartSteps
  PROVE  FaultInv'
<1> DEFINE r == active.run
<1>0. /\ pc \in Claiming \cup Injecting \cup {"claim_check"} /\ r \in Run /\ seen \in Nat
      /\ active \in Activity /\ active.targets \in SUBSET Step /\ todo \subseteq Step
      /\ Object = {"config", "service", "monitor"} /\ None \notin Run
  <2>1. pc \in Claiming \cup Injecting \cup {"claim_check"}
    BY DEF StartSteps, ClaimGet, ClaimPatch, ClaimCheck, CheckMonitor, FieldGet, FieldPatch,
           PostFault, InsertJob, JobGet, JobPatch, Running, Claiming, Injecting
  <2> QED BY <2>1, StoreFacts
          DEF TypeInv, AtTarget, TypeOK, ControllerTypeOK, Activity, Claiming, Injecting
<1>a. pc # "idle"
  BY <1>0 DEF Claiming, Injecting
<1>b. pc \in Injecting => /\ Config.run = r /\ r \notin abandoned
                          /\ active.targets = Config.targets
                          /\ todo \subseteq Config.targets \cup {"config"}
  BY <1>0 DEF FaultInv, Claimed, AbandonedLate, Early
<1>c. ASSUME UNCHANGED storeVars \/ ReadFails, StartFailed
      PROVE  FaultInv'
  BY <1>a, <1>c, QuietStep, FailedFaults
<1>d. ASSUME NEW m, WellFormed(m), Sound(m), m.by = r, m.kind = "clear" => FALSE,
             m.kind \in Injects => pc \in Injecting /\ m.to \in todo,
             m.kind = "claim" => m.targets = active.targets,
             Answered(m) \/ Failed(m)
      PROVE  CallEffect(m) /\ StoreStep
  <2>1. Rightful(m)
    BY <1>b, <1>d DEF Rightful, Always
  <2>2. CallEffect(m)
    BY <1>d, <2>1, CallCovered DEF FaultInv
  <2> QED BY <1>0, <1>d, <2>2, CallStep
<1>1. CASE ClaimGet
  <2>1. StoreStep /\ Stays /\ abandoned' = abandoned
    BY <1>1, QuietStep DEF ClaimGet
  <2>2. CASE pc' = "claim_patch"
    BY <1>1, <2>1, <2>2, GoesOnFaults DEF ClaimGet, Claiming
  <2>3. CASE pc' = "claim_check"
    <3>1. pc = "claim_get" /\ UNCHANGED <<active, used>>
      BY <1>1 DEF ClaimGet
    <3>2. AbandonedLate'
      BY <2>1, <2>3, <3>1 DEF FaultInv, AbandonedLate, Early, Claiming, Injecting
    <3>3. Claimed' /\ Progress'
      BY <2>1, <2>3, <3>1
         DEF FaultInv, Claimed, Progress, Claiming, Injecting, Recovering, Stays
    <3> QED BY <2>1, <3>2, <3>3 DEF FaultInv, StoreStep
  <2> QED BY <1>1, <2>2, <2>3 DEF ClaimGet
<1>2. CASE ClaimPatch
  <2> DEFINE m == ClaimMessage(seen, r, active.targets)
  <2>1. /\ m.kind = "claim" /\ m.by = r /\ m.rv = seen /\ m.targets = active.targets
        /\ WellFormed(m) /\ m.to = "config"
    BY <1>0, ControllerMessages DEF ClaimMessage
  <2>2. Sound(m)
    BY <1>2, <2>1
       DEF ClaimPatch, LockInv, ControllerSound, Sound, Agrees, Acquiring, Releasing
  <2>3. \/ Answered(m) /\ pc' = "start"
        \/ Failed(m) /\ pc' = "claim_check"
    BY <1>2 DEF ClaimPatch
  <2> HIDE DEF m
  <2>4. StoreStep /\ UNCHANGED <<active, todo, used>> /\ pc = "claim_patch"
    BY <1>2, <1>d, <2>1, <2>2, <2>3 DEF ClaimPatch, Injects
  <2>5. CASE Answered(m) /\ pc' = "start"
    <3>1. Config'.run = r /\ Config'.targets = active.targets /\ abandoned' = abandoned
      BY <2>1, <2>5, PerformClaim DEF Answered
    <3> QED BY <1>0, <2>4, <2>5, <3>1, GoesOnFaults DEF Claiming, Injecting
  <2>6. CASE pc' = "claim_check"
    <3>1. AbandonedLate'
      BY <1>0, <2>4, <2>6
         DEF StoreStep, LockInv, ActiveUsed, FaultInv, AbandonedLate, Early, Claiming, Injecting
    <3>2. Claimed'
      BY <1>0, <2>4, <2>6 DEF StoreStep, Stays, FaultInv, Claimed, Claiming, Injecting
    <3>3. Progress'
      BY <2>6 DEF Progress, Recovering
    <3> QED BY <2>4, <3>1, <3>2, <3>3 DEF FaultInv, StoreStep
  <2> QED BY <2>3, <2>5, <2>6
<1>3. CASE ClaimCheck
  <2>1. CASE StartFailed
    BY <1>3, <1>c, <2>1 DEF ClaimCheck
  <2>2. CASE Return /\ active' = Idle /\ used' = used
    BY <1>3, <1>a, <2>2, QuietStep, ReturnFaults DEF ClaimCheck
  <2> QED BY <1>3, <2>1, <2>2 DEF ClaimCheck
(* A step within a start that leaves the store alone.                       *)
<1>e. ASSUME UNCHANGED storeVars, pc \in Injecting, pc' \in Injecting,
             UNCHANGED <<active, todo, used>>
      PROVE  FaultInv'
  BY <1>b, <1>e, QuietStep, GoesOnFaults DEF Stays
<1>4. CASE CheckMonitor
  BY <1>4, <1>c, <1>e DEF CheckMonitor, Injecting
<1>5. CASE FieldGet
  BY <1>5, <1>c, <1>e DEF FieldGet, Injecting
(* A call within a start, for a target that is due.                         *)
<1>f. ASSUME NEW m, WellFormed(m), Sound(m), m.by = r, m.kind \notin {"claim", "clear"},
             m.kind \in Injects => m.to \in todo, pc \in Injecting, used' = used,
             \/ /\ Answered(m) /\ pc' \in Injecting /\ todo' \subseteq todo
                /\ active'.run = r /\ active'.targets = active.targets
             \/ Failed(m) /\ StartFailed
      PROVE  FaultInv'
  <2>1. CallEffect(m) /\ StoreStep
    BY <1>d, <1>f
  <2>2. CASE Failed(m) /\ StartFailed
    BY <1>a, <2>1, <2>2, FailedFaults
  <2>3. CASE /\ Answered(m) /\ pc' \in Injecting /\ todo' \subseteq todo
             /\ active'.run = r /\ active'.targets = active.targets
    <3>1. Stays /\ abandoned' = abandoned
      BY <1>f, <2>1, <2>3 DEF CallEffect, Settles, Answered
    <3> QED BY <1>b, <1>f, <2>1, <2>3, <3>1, GoesOnFaults DEF Stays
  <2> QED BY <1>f, <2>2, <2>3
<1>6. CASE FieldPatch
  <2> DEFINE m == ToObject("journal", Due, seen, r)
  <2>0. pc = "start_patch" /\ Due \in Object /\ Due \in todo
    BY <1>0, <1>6, DueInTodo DEF FieldPatch, TypeInv, AtTarget
  <2>1. WellFormed(m) /\ Sound(m)
    BY <1>0, <2>0, ControllerMessages, PlainMessages
  <2>2. m.by = r /\ m.kind = "journal" /\ m.to = Due
    BY DEF ToObject
  <2>3. /\ used' = used
        /\ \/ /\ Answered(m) /\ pc' = "start" /\ todo' = todo \ {Due}
              /\ active' = active
           \/ Failed(m) /\ StartFailed
    BY <1>6 DEF FieldPatch, StartFailed
  <2> HIDE DEF m
  <2> QED BY <1>f, <2>0, <2>1, <2>2, <2>3 DEF Injecting
<1>7. CASE PostFault
  <2> DEFINE m == ToOther("fault", Due, r)
  <2>0. pc = "start" /\ Due \in App /\ Due \in todo
    BY <1>0, <1>7, DueInTodo DEF PostFault
  <2>1. WellFormed(m) /\ Sound(m)
    BY <1>0, <2>0, ControllerMessages, PlainMessages
  <2>2. m.by = r /\ m.kind = "fault" /\ m.to = Due
    BY DEF ToOther
  <2>3. /\ used' = used
        /\ \/ /\ Answered(m) /\ pc' = "start" /\ todo' = todo \ {Due}
              /\ active' = active
           \/ Failed(m) /\ StartFailed
    BY <1>7 DEF PostFault, StartFailed
  <2> HIDE DEF m
  <2> QED BY <1>f, <2>0, <2>1, <2>2, <2>3 DEF Injecting
<1>8. CASE InsertJob
  <2> DEFINE m == ToOther("insert", "queue", r)
  <2>0. pc = "start" /\ Due = "queue" /\ Due \in todo
    BY <1>0, <1>8, DueInTodo DEF InsertJob
  <2>1. WellFormed(m) /\ Sound(m)
    BY <1>0, <2>0, ControllerMessages, PlainMessages
  <2>2. m.by = r /\ m.kind = "insert" /\ m.to = "queue"
    BY DEF ToOther
  <2>3. /\ used' = used
        /\ \/ /\ Answered(m) /\ pc' = "job_get" /\ todo' = todo
              /\ active'.run = r /\ active'.targets = active.targets
           \/ Failed(m) /\ StartFailed
    BY <1>0, <1>8 DEF InsertJob, StartFailed, Activity
  <2> HIDE DEF m
  <2> QED BY <1>f, <2>0, <2>1, <2>2, <2>3 DEF Injecting
<1>9. CASE JobGet
  BY <1>9, <1>c, <1>e DEF JobGet, Injecting
<1>10. CASE JobPatch
  <2> DEFINE m == ToObject("note_job", "config", seen, r)
  <2>1. WellFormed(m) /\ Sound(m)
    BY <1>0, ControllerMessages, PlainMessages
  <2>2. m.by = r /\ m.kind = "note_job"
    BY DEF ToObject
  <2>3. /\ used' = used /\ pc = "job_patch"
        /\ \/ /\ Answered(m) /\ pc' = "start" /\ todo' = todo \ {Due}
              /\ active' = active
           \/ Failed(m) /\ StartFailed
    BY <1>10 DEF JobPatch, StartFailed
  <2> HIDE DEF m
  <2> QED BY <1>f, <2>1, <2>2, <2>3 DEF Injecting, Injects
<1>11. CASE Running
  <2>1. /\ pc = "start" /\ pc' = "idle" /\ active'.status = "running" /\ todo' = {}
        /\ active'.run = r /\ active'.targets = active.targets /\ used' = used
    BY <1>0, <1>11 DEF Running, Return, Activity
  <2> QED BY <1>11, <1>b, <2>1, QuietStep, GoesOnFaults DEF Running, Injecting, Stays
<1> QED BY <1>1, <1>2, <1>3, <1>4, <1>5, <1>6, <1>7, <1>8, <1>9, <1>10, <1>11 DEF StartSteps

LEMMA RecoveryStepsFaults ==
  ASSUME TypeInv, LockInv, FaultInv, RecoverySteps
  PROVE  FaultInv'
<1> DEFINE r == active.run
<1>0. /\ pc \in Recovering /\ pc # "idle" /\ r \in Run /\ seen \in Nat /\ todo \subseteq Step
      /\ Object = {"config", "service", "monitor"} /\ None \notin Run
  <2>1. pc \in Recovering /\ pc # "idle"
    BY DEF RecoverySteps, RestoreGet, RestorePatch, PostNormal, DeleteJob, KeepRecovering,
           ClearGet, ClearPatch, Recovering
  <2> QED BY <2>1, StoreFacts DEF TypeInv, AtTarget, TypeOK, ControllerTypeOK
(* A step that reads, and goes on to its next target.                       *)
<1>a. ASSUME UNCHANGED storeVars \/ ReadFails, pc = "recover", pc' = "recover",
             NEW failed \in BOOLEAN, NextTarget(failed),
             errors \/ failed \/ ~FaultAt(r, Due)
      PROVE  FaultInv'
  <2>1. StoreStep /\ \A x, t : FaultAt(x, t)' = FaultAt(x, t)
    BY <1>a, QuietStep
  <2> QED BY <1>a, <2>1, NextTargetFaults
(* A call that puts the due target back.                                    *)
<1>b. ASSUME NEW m, WellFormed(m), Sound(m), m.by = r, m.to = Due, m.kind \in Restores,
             todo # {}, pc \in {"recover", "restore_patch"}, pc' = "recover",
             \/ Answered(m) /\ NextTarget(FALSE)
             \/ Failed(m) /\ NextTarget(TRUE)
      PROVE  FaultInv'
  <2>1. CallEffect(m)
    BY <1>b, CallCovered DEF FaultInv, Rightful, Injects, Restores
  <2>2. StoreStep
    BY <1>0, <1>b, <2>1, CallStep DEF Restores
  <2>3. \A t \in Step : FaultAt(r, t)' => FaultAt(r, t)
    BY <1>0, <1>b, <2>1 DEF CallEffect, Injects, Restores, NextTarget
  <2>4. CASE Failed(m) /\ NextTarget(TRUE)
    BY <1>b, <2>2, <2>3, <2>4, NextTargetFaults DEF NextTarget
  <2>5. CASE Answered(m) /\ NextTarget(FALSE)
    <3>1. Due \in Step
      BY <1>0, <1>b, DueInTodo
    <3>2. ASSUME NEW d \in Step, d = Due, FaultAt(r, d)'
          PROVE  FALSE
      BY <1>0, <1>b, <2>5, <3>2, PerformFaults DEF Answered, NextTarget
    <3> QED BY <1>b, <2>2, <2>3, <2>5, <3>1, <3>2, NextTargetFaults DEF NextTarget
  <2> QED BY <1>b, <2>4, <2>5
<1>c. ASSUME StillRecovering \/ active' = Idle, Return, used' = used,
             UNCHANGED storeVars \/ ReadFails
      PROVE  FaultInv'
  BY <1>0, <1>c, QuietStep, ReturnFaults
<1>1. CASE RestoreGet
  <2>0. pc = "recover" /\ todo # {} /\ Due \in Object /\ Due \notin App /\ Due # "queue"
    BY <1>0, <1>1 DEF RestoreGet, App
  <2>1. CASE UNCHANGED storeVars /\ pc' = "restore_patch"
             /\ UNCHANGED <<active, todo, errors, restored, used>>
    <3>1. /\ StoreStep /\ Stays /\ abandoned' = abandoned
          /\ \A x, t : FaultAt(x, t)' = FaultAt(x, t)
      BY <2>1, QuietStep
    <3>2. AbandonedLate' /\ Claimed'
      BY <2>0, <2>1, <3>1
         DEF FaultInv, AbandonedLate, Early, Claimed, Stays, Claiming, Injecting
    <3>3. Progress'
      BY <2>0, <2>1, <3>1 DEF FaultInv, Progress, Recovering
    <3> QED BY <3>1, <3>2, <3>3 DEF FaultInv, StoreStep
  <2>2. CASE store[Due].owner = None /\ NextTarget(FALSE) /\ UNCHANGED <<pc, seen, storeVars>>
    <3>1. ~FaultAt(r, Due)
      BY <1>0, <2>0, <2>2 DEF FaultAt
    <3> QED BY <1>a, <2>0, <2>2, <3>1
  <2>3. CASE NextTarget(TRUE) /\ UNCHANGED pc /\ (UNCHANGED storeVars \/ ReadFails)
    BY <1>a, <2>0, <2>3
  <2> QED BY <1>1, <2>1, <2>2, <2>3 DEF RestoreGet
<1>2. CASE RestorePatch
  <2> DEFINE m == ToObject("restore", Due, seen, r)
  <2>0. pc = "restore_patch" /\ Due \in Object /\ todo # {}
    BY <1>2 DEF RestorePatch, TypeInv, AtTarget
  <2>1. WellFormed(m) /\ Sound(m)
    BY <1>0, <2>0, ControllerMessages, PlainMessages
  <2>2. m.by = r /\ m.kind = "restore" /\ m.to = Due
    BY DEF ToObject
  <2>3. /\ pc' = "recover"
        /\ \/ Answered(m) /\ NextTarget(FALSE)
           \/ Failed(m) /\ NextTarget(TRUE)
    BY <1>2 DEF RestorePatch
  <2> HIDE DEF m
  <2> QED BY <1>b, <2>0, <2>1, <2>2, <2>3 DEF Restores
<1>3. CASE PostNormal
  <2> DEFINE m == ToOther("normal", Due, r)
  <2>0. pc = "recover" /\ pc' = "recover" /\ Due \in App /\ todo # {}
    BY <1>3 DEF PostNormal
  <2>1. WellFormed(m) /\ Sound(m)
    BY <1>0, <2>0, ControllerMessages, PlainMessages
  <2>2. m.by = r /\ m.kind = "normal" /\ m.to = Due
    BY DEF ToOther
  <2>3. \/ ~restored /\ NextTarget(FALSE) /\ UNCHANGED storeVars
        \/ Answered(m) /\ NextTarget(FALSE)
        \/ Failed(m) /\ NextTarget(TRUE)
    BY <1>3 DEF PostNormal
  <2>4. ~restored => errors
    BY <1>0 DEF FaultInv, Progress
  <2> HIDE DEF m
  <2> QED BY <1>a, <1>b, <2>0, <2>1, <2>2, <2>3, <2>4 DEF Restores
<1>4. CASE DeleteJob
  <2> DEFINE m == ToOther("delete", "queue", r)
  <2>0. pc = "recover" /\ pc' = "recover" /\ Due = "queue" /\ todo # {}
    BY <1>4 DEF DeleteJob
  <2>1. WellFormed(m) /\ Sound(m)
    BY <1>0, ControllerMessages, PlainMessages
  <2>2. m.by = r /\ m.kind = "delete" /\ m.to = "queue"
    BY DEF ToOther
  <2>3. \/ Answered(m) /\ NextTarget(FALSE)
        \/ Failed(m) /\ NextTarget(TRUE)
    BY <1>4 DEF DeleteJob
  <2> HIDE DEF m
  <2> QED BY <1>b, <2>0, <2>1, <2>2, <2>3 DEF Restores
<1>5. CASE KeepRecovering
  BY <1>5, <1>c DEF KeepRecovering
<1>6. CASE ClearGet
  <2>1. CASE StillRecovering /\ Return
    BY <1>6, <1>c, <2>1 DEF ClearGet
  <2>2. CASE UNCHANGED storeVars /\ pc' = "clear_patch"
             /\ UNCHANGED <<active, todo, errors, restored>>
    <3>1. /\ StoreStep /\ Stays /\ abandoned' = abandoned
          /\ \A x, t : FaultAt(x, t)' = FaultAt(x, t)
          /\ pc = "recover" /\ todo = {} /\ ~errors /\ used' = used
      BY <1>6, <2>2, QuietStep DEF ClearGet
    <3>2. AbandonedLate' /\ Claimed'
      BY <2>2, <3>1 DEF FaultInv, AbandonedLate, Early, Claimed, Stays, Claiming, Injecting
    <3>3. Progress'
      BY <2>2, <3>1 DEF FaultInv, Progress, Recovering
    <3> QED BY <3>1, <3>2, <3>3 DEF FaultInv, StoreStep
  <2> QED BY <1>6, <2>1, <2>2 DEF ClearGet
<1>7. CASE ClearPatch
  <2> DEFINE m == ToObject("clear", "config", seen, r)
  <2>1. WellFormed(m)
    BY <1>0, ControllerMessages
  <2>2. m.by = r /\ m.kind = "clear" /\ m.rv = seen
    BY DEF ToObject
  <2>3. Sound(m)
    BY <1>7, <2>2
       DEF ClearPatch, LockInv, ControllerSound, Sound, Agrees, Acquiring, Releasing
  <2>4. \/ Answered(m) /\ active' = Idle
        \/ Failed(m) /\ StillRecovering
    BY <1>7 DEF ClearPatch
  <2> HIDE DEF m
  <2>5. Rightful(m)
    BY <1>7, <2>2 DEF ClearPatch, Rightful, Injects, FaultInv, Progress, Recovering
  <2>6. CallEffect(m)
    BY <2>1, <2>3, <2>4, <2>5, CallCovered DEF FaultInv
  <2>7. StoreStep
    BY <1>0, <2>2, <2>6, CallStep
  <2> QED BY <1>0, <1>7, <2>4, <2>7, ReturnFaults DEF ClearPatch
<1> QED BY <1>1, <1>2, <1>3, <1>4, <1>5, <1>6, <1>7 DEF RecoverySteps

-----------------------------------------------------------------------------
(* The invariant of the runs, and what it is for.                           *)

LEMMA FaultInvInit ==
  ASSUME Init
  PROVE  FaultInv
<1>1. /\ flight = {} /\ abandoned = {} /\ pc = "idle" /\ active.run = None
      /\ active.status = "none" /\ queue = {} /\ None \notin Run
      /\ \A o \in Object : store[o].owner = None
      /\ \A a \in App : app[a] = None
  BY StoreAssumption DEF Init, StoreInit, ControllerInit, Idle, Deployed
<1>2. FlightAbandoned /\ AbandonedLate
  BY <1>1 DEF FlightAbandoned, AbandonedLate
<1>3. Claimed /\ Progress
  BY <1>1 DEF Claimed, Progress, Claiming, Injecting, Recovering
<1>4. Covered
  BY <1>1 DEF Covered, FaultAt
<1> QED BY <1>2, <1>3, <1>4 DEF FaultInv

LEMMA FaultInvNext ==
  ASSUME TypeInv, LockInv, FaultInv, [Next]_vars
  PROVE  FaultInv'
<1>1. CASE ControllerStep
  BY <1>1, StartFaults, ResumeFaults, CrashFaults, StartStepsFaults, RecoveryStepsFaults
     DEF ControllerStep, ControllerNext
<1>2. CASE ProbeStep
  BY <1>2, ProbeForeign, ForeignKept
<1>3. CASE EnvironmentStep
  BY <1>3, EnvironmentForeign, ForeignKept
<1>4. CASE UNCHANGED vars
  <2>1. UNCHANGED localVars /\ UNCHANGED effects /\ flight' = flight /\ abandoned' = abandoned
    BY <1>4 DEF vars, storeVars
  <2> QED BY <2>1, QuietForeign, ForeignKept
<1> QED BY <1>1, <1>2, <1>3, <1>4 DEF Next

LEMMA FaultInvariant == Spec => [](TypeInv /\ LockInv /\ FaultInv)
<1>1. Init => FaultInv
  BY FaultInvInit
<1>2. (TypeInv /\ LockInv) /\ FaultInv /\ [Next]_vars => FaultInv'
  BY FaultInvNext
<1> QED BY <1>1, <1>2, LockInvariant, PTL DEF Spec

(* For any runs, probes, plans and bounds: as long as no call of a run      *)
(* outlives its timeout, every field journal, lab_jobs row and fault mode   *)
(* of it is under its claim, through failed, lost and late calls of others, *)
(* restarts at any point and operator edits (start, _recover).              *)
THEOREM FaultsClaimed == Spec => []FaultsAreClaimed
<1>1. TypeInv /\ FaultInv => FaultsAreClaimed
  BY DEF FaultInv, Covered, FaultsAreClaimed, HasFault, FaultAt, Step
<1> QED BY <1>1, FaultInvariant, PTL

(* ... and a controller that is restarted finds in the annotations every    *)
(* target of a run it may have touched anything for (_claim_run before      *)
(* _start, _persisted_run).                                                 *)
THEOREM RunDurable == Spec => []RunIsDurable
<1>1. ASSUME TypeInv, FaultInv
      PROVE  RunIsDurable
  <2> SUFFICES ASSUME pc \in Injecting \/ (pc = "idle" /\ active.status = "running")
               PROVE  Config.run = active.run /\ active.targets \subseteq Config.targets
    BY DEF RunIsDurable, Injecting
  <2>1. active.run \in Run \ abandoned /\ Config.run = active.run
    BY <1>1 DEF FaultInv, Claimed, AbandonedLate, Early
  <2> QED BY <1>1, <2>1 DEF FaultInv, Claimed
<1> QED BY <1>1, FaultInvariant, PTL

-----------------------------------------------------------------------------
(* What a call that is carried out does to the marks of the probes.         *)

LEMMA PatchedMark ==
  ASSUME NEW d \in Document, NEW m, WellFormed(m), m.to \in Object
  PROVE  LET e == [Patched(d, m) EXCEPT !.rv = d.rv + 1] IN
           e.probe = IF m.kind \in {"lock", "break"} THEN m.by
                     ELSE IF m.kind \in {"unlock", "unbreak"} THEN None ELSE d.probe
<1> DEFINE e == [Patched(d, m) EXCEPT !.rv = d.rv + 1]
           mark == IF m.kind \in {"lock", "break"} THEN m.by
                   ELSE IF m.kind \in {"unlock", "unbreak"} THEN None ELSE d.probe
<1> SUFFICES e.probe = mark
  OBVIOUS
<1>0. m.kind \in ObjectKind /\ Patched(d, m) \in Document
  BY PatchedType DEF WellFormed
<1>1. e.probe = Patched(d, m).probe
  BY <1>0 DEF Document
<1> HIDE DEF e
<1>2. CASE m.kind = "claim"
  BY <1>1, <1>2 DEF Patched, Document
<1>3. CASE m.kind = "journal"
  BY <1>1, <1>3 DEF Patched, Document
<1>4. CASE m.kind = "restore"
  BY <1>1, <1>4 DEF Patched, Document
<1>5. CASE m.kind = "note_job"
  BY <1>1, <1>5 DEF Patched, Document
<1>6. CASE m.kind = "clear"
  BY <1>1, <1>6 DEF Patched, Document
<1>7. CASE m.kind = "lock"
  BY <1>1, <1>7 DEF Patched, Document
<1>8. CASE m.kind = "unlock"
  BY <1>1, <1>8 DEF Patched, Document
<1>9. CASE m.kind = "break"
  BY <1>1, <1>9 DEF Patched, Document
<1>10. CASE m.kind = "unbreak"
  BY <1>1, <1>10 DEF Patched, Document
<1> QED BY <1>0, <1>2, <1>3, <1>4, <1>5, <1>6, <1>7, <1>8, <1>9, <1>10 DEF ObjectKind

Marks(m) ==
  /\ Config'.probe = IF m.kind = "lock" THEN m.by
                     ELSE IF m.kind = "unlock" THEN None ELSE Config.probe
  /\ Monitor'.probe = IF m.kind = "break" THEN m.by
                      ELSE IF m.kind = "unbreak" THEN None ELSE Monitor.probe
  /\ rule' = IF m.to # "rule" THEN rule ELSE IF m.kind = "create" THEN m.by ELSE None

SameMarks == Config'.probe = Config.probe /\ Monitor'.probe = Monitor.probe /\ rule' = rule

LEMMA PerformMarks ==
  ASSUME TypeInv, NEW m, WellFormed(m), Perform(m)
  PROVE  Marks(m)
<1>0. /\ store \in [Object -> Document] /\ Config = store["config"]
      /\ Config' = store'["config"] /\ Monitor = store["monitor"]
      /\ Monitor' = store'["monitor"] /\ Object = {"config", "service", "monitor"}
      /\ "rule" \notin Object /\ "rule" \notin App
  BY StoreFacts DEF Config, Monitor, App
<1>1. /\ m.kind \in {"lock", "unlock"} => m.to = "config"
      /\ m.kind \in {"break", "unbreak"} => m.to = "monitor"
  BY DEF WellFormed
<1>2. CASE m.to \in Object
  <2> DEFINE d == store[m.to]
             e == [Patched(d, m) EXCEPT !.rv = d.rv + 1]
             mark == IF m.kind \in {"lock", "break"} THEN m.by
                     ELSE IF m.kind \in {"unlock", "unbreak"} THEN None ELSE d.probe
  <2>1. store'[m.to] = e /\ (\A o \in Object \ {m.to} : store'[o] = store[o]) /\ rule' = rule
    BY <1>2, PerformStore
  <2>2. e.probe = mark
    <3>1. d \in Document
      BY <1>0, <1>2
    <3> QED BY <1>2, <3>1, PatchedMark
  <2> HIDE DEF e
  <2>3. store'[m.to].probe = mark
    BY <2>1, <2>2
  <2> QED BY <1>0, <1>1, <1>2, <2>1, <2>3 DEF Marks
<1>3. CASE m.to \notin Object
  <2>1. store' = store
    BY <1>3, PerformStore
  <2>2. CASE m.to = "rule"
    <3>1. rule' = IF m.kind = "create" THEN m.by ELSE None
      BY <2>2, PerformStore
    <3> QED BY <1>0, <1>1, <1>3, <2>1, <2>2, <3>1 DEF Marks
  <2>3. CASE m.to # "rule"
    <3>1. m.to \in App \cup {"queue"}
      BY <1>3, <2>3 DEF WellFormed, Message, Step
    <3>2. rule' = rule
      BY <3>1, PerformStore
    <3> QED BY <1>0, <1>1, <1>3, <2>1, <2>3, <3>2 DEF Marks
  <2> QED BY <2>2, <2>3
<1> QED BY <1>2, <1>3

(* A sound lock finds the Lab free, a sound unlock its own.                 *)
LEMMA AcceptedLock ==
  ASSUME NEW m, WellFormed(m), Sound(m), Accepts(m)
  PROVE  /\ m.kind = "lock" => Config.probe = None
         /\ m.kind = "unlock" => Config.probe = m.by
<1>1. m.kind \in {"lock", "unlock"} => m.rv = Config.rv
  BY DEF WellFormed, Accepts, Object, Config
<1> QED BY <1>1 DEF Sound, Agrees, Acquiring, Releasing

(* Others leave a probe its lock, and make no fault in its name.            *)
Spares(q) ==
  q \notin abandoned' =>
    /\ q \notin abandoned
    /\ Config.probe = q => Config'.probe = q
    /\ Monitor'.probe = q => Monitor.probe = q
    /\ rule' = q => rule = q

LEMMA PerformSpares ==
  ASSUME TypeInv, NEW m, WellFormed(m), Sound(m), Accepts(m), Perform(m),
         abandoned \subseteq abandoned', NEW q \in Probe, q # m.by
  PROVE  Spares(q)
BY PerformMarks, AcceptedLock, StoreFacts DEF Marks, Spares

LEMMA CallSpares ==
  ASSUME TypeInv, NEW m, WellFormed(m), Sound(m), Answered(m) \/ Failed(m),
         NEW q \in Probe, q # m.by
  PROVE  Spares(q)
<1>1. CASE Accepts(m) /\ Perform(m) /\ UNCHANGED <<flight, abandoned>>
  BY <1>1, PerformSpares
<1>2. CASE UNCHANGED effects /\ abandoned' \in {abandoned, abandoned \cup {m.by}}
  BY <1>2 DEF effects, Spares, Config, Monitor
<1> QED BY <1>1, <1>2, CallCases

LEMMA QuietSpares ==
  ASSUME UNCHANGED effects, abandoned \subseteq abandoned', NEW q
  PROVE  Spares(q) /\ SameMarks
BY DEF effects, Spares, SameMarks, Config, Monitor

LEMMA SparedSafe ==
  ASSUME TypeInv, NEW q \in Probe, ProbeSafe(q), Spares(q), proc'[q] = proc[q]
  PROVE  ProbeSafe(q)'
<1>1. Waits(q)'
  BY DEF ProbeSafe, Waits, Spares
<1>2. ASSUME q \notin abandoned'
      PROVE  /\ proc'[q]["parent"] \in {"spawn"} \cup SetUp => Config'.probe = q
             /\ \A a \in Actor : Undone(q, proc[q][a])'
             /\ store'["monitor"].probe = q \/ rule' = q => Config'.probe = q
  BY <1>2 DEF ProbeSafe, Spares, Undone, Monitor
<1> QED BY <1>1, <1>2 DEF ProbeSafe

LEMMA EnvironmentSpares ==
  ASSUME TypeInv, LockInv, FlightAbandoned, EnvironmentStep, NEW q \in Probe
  PROVE  Spares(q)
<1>1. ASSUME NEW m \in flight, Deliver(m)
      PROVE  Spares(q)
  <2>1. WellFormed(m) /\ Sound(m) /\ m.by \in abandoned /\ abandoned' = abandoned
    BY <1>1 DEF TypeInv, LockInv, FlightSound, FlightAbandoned, Deliver
  <2>2. CASE q = m.by
    BY <2>1, <2>2 DEF Spares
  <2>3. CASE q # m.by
    BY <1>1, <2>1, <2>3, PerformSpares DEF Deliver
  <2> QED BY <2>2, <2>3
<1>2. ASSUME NEW m \in flight, Discard(m)
      PROVE  Spares(q)
  BY <1>2, QuietSpares DEF Discard
<1>3. ASSUME NEW o \in Object, NEW v \in OperatorValue, OperatorEdit(o, v)
      PROVE  Spares(q)
  <2>1. \A x \in Object : store'[x].probe = store[x].probe
    BY <1>3, StoreFacts DEF OperatorEdit, Document
  <2> QED BY <1>3, <2>1 DEF OperatorEdit, Spares, Config, Monitor, Object
<1>4. ASSUME NEW a \in App, LeaseExpires(a)
      PROVE  Spares(q)
  BY <1>4 DEF LeaseExpires, Spares, Config, Monitor
<1> QED BY <1>1, <1>2, <1>3, <1>4 DEF EnvironmentStep, Environment

(* The patches of fields, and where the thread is.                          *)
Placed(m) ==
  /\ m.kind = "journal" => FieldPatch /\ m = ToObject("journal", Due, seen, active.run)
  /\ m.kind = "restore" => RestorePatch /\ m = ToObject("restore", Due, seen, active.run)

(* Every step of the controller that reaches the store is a call of its     *)
(* run's, or none.                                                          *)
LEMMA ControllerCalls ==
  ASSUME TypeInv, LockInv, ControllerStep
  PROVE  \/ UNCHANGED <<effects, abandoned, flight, opval>>
         \/ \E m : /\ WellFormed(m) /\ Sound(m) /\ m.by = active.run /\ active.run \in Run
                   /\ Placed(m) /\ (Answered(m) \/ Failed(m))
<1> DEFINE Silent == UNCHANGED <<effects, abandoned, flight, opval>>
           r == active.run
           Sent(m) == /\ WellFormed(m) /\ Sound(m) /\ m.by = r /\ r \in Run
                      /\ Placed(m) /\ (Answered(m) \/ Failed(m))
<1>0. /\ pc # "idle" => r \in Run
      /\ seen \in Nat /\ active.targets \in SUBSET Step
  BY DEF TypeInv, AtTarget, TypeOK, ControllerTypeOK, Activity
<1> SUFFICES Silent \/ \E m : Sent(m)
  OBVIOUS
<1>a. UNCHANGED storeVars \/ ReadFails => Silent
  BY DEF storeVars, ReadFails, SpendFault
<1>1. CASE \/ \E x \in Run, plan \in Plans : Start(x, plan)
           \/ ClaimGet \/ ClaimCheck \/ CheckMonitor \/ FieldGet \/ JobGet \/ Running
           \/ RestoreGet \/ KeepRecovering \/ ClearGet \/ RecoverActive \/ AdoptPersisted
  BY <1>1, <1>a DEF Start, ClaimGet, ClaimCheck, CheckMonitor, FieldGet, JobGet, Running,
                    RestoreGet, KeepRecovering, ClearGet, RecoverActive, AdoptPersisted
<1>2. CASE ControllerCrash
  BY <1>2 DEF ControllerCrash
<1>3. CASE ClaimPatch
  <2> DEFINE m == ClaimMessage(seen, r, active.targets)
  <2>1. WellFormed(m)
    BY <1>0, <1>3, ControllerMessages DEF ClaimPatch
  <2>2. Sound(m)
    BY <1>3 DEF ClaimPatch, LockInv, ControllerSound, ClaimMessage, Sound, Agrees, Acquiring,
                Releasing
  <2>3. m.by = r /\ (Answered(m) \/ Failed(m)) /\ r \in Run /\ Placed(m)
    BY <1>0, <1>3 DEF ClaimPatch, ClaimMessage, Placed
  <2> HIDE DEF m
  <2> QED BY <2>1, <2>2, <2>3
<1>4. CASE ClearPatch
  <2> DEFINE m == ToObject("clear", "config", seen, r)
  <2>1. WellFormed(m)
    BY <1>0, <1>4, ControllerMessages DEF ClearPatch
  <2>2. Sound(m)
    BY <1>4 DEF ClearPatch, LockInv, ControllerSound, ToObject, Sound, Agrees, Acquiring,
                Releasing
  <2>3. m.by = r /\ (Answered(m) \/ Failed(m)) /\ r \in Run /\ Placed(m)
    BY <1>0, <1>4 DEF ClearPatch, ToObject, Placed
  <2> HIDE DEF m
  <2> QED BY <2>1, <2>2, <2>3
<1>5. CASE FieldPatch \/ RestorePatch
  <2>1. Due \in Object /\ r \in Run
    BY <1>0, <1>5 DEF FieldPatch, RestorePatch, TypeInv, AtTarget
  <2>2. PICK kind \in {"journal", "restore"} :
          /\ kind = "journal" => FieldPatch
          /\ kind = "restore" => RestorePatch
          /\ Answered(ToObject(kind, Due, seen, r)) \/ Failed(ToObject(kind, Due, seen, r))
    BY <1>5 DEF FieldPatch, RestorePatch
  <2> DEFINE m == ToObject(kind, Due, seen, r)
  <2>3. WellFormed(m) /\ Sound(m)
    BY <1>0, <2>1, ControllerMessages, PlainMessages
  <2>4. m.by = r /\ Placed(m)
    BY <2>2 DEF ToObject, Placed
  <2> HIDE DEF m
  <2> QED BY <2>1, <2>2, <2>3, <2>4 DEF m
<1>6. CASE JobPatch
  <2> DEFINE m == ToObject("note_job", "config", seen, r)
  <2>1. WellFormed(m) /\ Sound(m) /\ m.by = r /\ Placed(m)
    BY <1>0, <1>6, ControllerMessages, PlainMessages DEF JobPatch, ToObject, Placed
  <2>2. (Answered(m) \/ Failed(m)) /\ r \in Run
    BY <1>0, <1>6 DEF JobPatch
  <2> HIDE DEF m
  <2> QED BY <2>1, <2>2
<1>7. CASE PostFault \/ PostNormal
  <2>1. Due \in App /\ r \in Run
    BY <1>0, <1>7 DEF PostFault, PostNormal
  <2>2. CASE UNCHANGED storeVars
    BY <1>a, <2>2
  <2>3. CASE \E kind \in {"fault", "normal"} :
               Answered(ToOther(kind, Due, r)) \/ Failed(ToOther(kind, Due, r))
    <3>1. PICK kind \in {"fault", "normal"} :
                 Answered(ToOther(kind, Due, r)) \/ Failed(ToOther(kind, Due, r))
      BY <2>3
    <3> DEFINE m == ToOther(kind, Due, r)
    <3>2. WellFormed(m) /\ Sound(m) /\ m.by = r /\ Placed(m)
      BY <1>0, <2>1, ControllerMessages, PlainMessages DEF ToOther, Placed
    <3> HIDE DEF m
    <3> QED BY <2>1, <3>1, <3>2 DEF m
  <2> QED BY <1>7, <2>2, <2>3 DEF PostFault, PostNormal
<1>8. CASE InsertJob \/ DeleteJob
  <2>1. r \in Run
    BY <1>0, <1>8 DEF InsertJob, DeleteJob
  <2>2. PICK kind \in {"insert", "delete"} :
          Answered(ToOther(kind, "queue", r)) \/ Failed(ToOther(kind, "queue", r))
    BY <1>8 DEF InsertJob, DeleteJob
  <2> DEFINE m == ToOther(kind, "queue", r)
  <2>3. WellFormed(m) /\ Sound(m) /\ m.by = r /\ Placed(m)
    BY <1>0, <2>1, ControllerMessages, PlainMessages DEF ToOther, Placed
  <2> HIDE DEF m
  <2> QED BY <2>1, <2>2, <2>3 DEF m
<1> QED BY <1>1, <1>2, <1>3, <1>4, <1>5, <1>6, <1>7, <1>8
        DEF ControllerStep, ControllerNext, StartSteps, RecoverySteps

LEMMA ControllerSpares ==
  ASSUME TypeInv, LockInv, ControllerStep, NEW q \in Probe
  PROVE  Spares(q)
<1>1. \A m : m.by = active.run /\ active.run \in Run => q # m.by
  BY StoreFacts
<1> QED BY <1>1, ControllerCalls, CallSpares, QuietSpares

(* What a probe's own call does to its marks, when it has not been given up.*)
LEMMA OwnMarks ==
  ASSUME TypeInv, FlightAbandoned, NEW m, WellFormed(m), Sound(m), Answered(m) \/ Failed(m)
  PROVE  /\ abandoned \subseteq abandoned'
         /\ m.by \notin abandoned' =>
              \/ SameMarks /\ ~Answered(m)
              \/ Marks(m) /\ Accepts(m)
<1>1. CASE Accepts(m) /\ Perform(m) /\ UNCHANGED <<flight, abandoned>>
  BY <1>1, PerformMarks
<1>2. CASE UNCHANGED effects /\ ~Answered(m)
           /\ abandoned' \in {abandoned, abandoned \cup {m.by}}
  BY <1>2 DEF effects, SameMarks, Config, Monitor
<1>3. CASE Answered(m)
  BY <1>3, PerformMarks DEF Answered
<1>4. CASE Failed(m)
  BY <1>1, <1>2, <1>3, <1>4, CallCases
<1> QED BY <1>3, <1>4

(* The parent goes on.                                                      *)
LEMMA ParentGoes ==
  ASSUME TypeInv, NEW p \in Probe, ProbeSafe(p), NEW to, Go(p, "parent", to),
         to \in Ahead => proc[p]["parent"] \in Ahead,
         to \in SetUp => proc[p]["parent"] \in SetUp,
         p \notin abandoned' =>
           /\ p \notin abandoned
           /\ to \in {"spawn"} \cup SetUp => Config'.probe = p
           /\ Undone(p, to)'
           /\ proc[p]["watchdog"] \notin {"none", "waiting", "done"} =>
                /\ Monitor'.probe = p => Monitor.probe = p
                /\ rule' = p => rule = p
           /\ Monitor'.probe = p \/ rule' = p => Config'.probe = p
  PROVE  ProbeSafe(p)'
<1>1. /\ proc'[p]["parent"] = to /\ proc'[p]["watchdog"] = proc[p]["watchdog"]
      /\ Actor = {"parent", "watchdog"}
  BY GoFacts DEF Actor
<1>2. Waits(p)'
  BY <1>1 DEF ProbeSafe, Waits
<1>3. ASSUME p \notin abandoned'
      PROVE  /\ proc'[p]["parent"] \in {"spawn"} \cup SetUp => Config'.probe = p
             /\ \A a \in Actor : Undone(p, proc[p][a])'
             /\ store'["monitor"].probe = p \/ rule' = p => Config'.probe = p
  BY <1>1, <1>3 DEF ProbeSafe, Undone, Monitor
<1> QED BY <1>2, <1>3 DEF ProbeSafe

(* Either process goes on with the restoration, which marks nothing.        *)
LEMMA RestorerGoes ==
  ASSUME TypeInv, NEW p \in Probe, NEW a \in Actor, ProbeSafe(p), NEW to, Go(p, a, to),
         to \notin {"none", "lock_get", "lock_patch", "spawn"} \cup SetUp,
         a = "watchdog" => proc[p]["parent"] \notin Ahead,
         p \notin abandoned' =>
           /\ p \notin abandoned
           /\ a = "watchdog" /\ proc[p]["parent"] \in SetUp => to = "done"
           /\ proc[p]["parent"] \in {"spawn"} \cup SetUp /\ a = "watchdog" => Config'.probe = p
           /\ Undone(p, to)'
           /\ Monitor'.probe = p => Monitor.probe = p
           /\ rule' = p => rule = p
           /\ Monitor'.probe = p \/ rule' = p => Config'.probe = p
  PROVE  ProbeSafe(p)'
<1>1. /\ proc'[p][a] = to /\ (\A b \in Actor : b # a => proc'[p][b] = proc[p][b])
      /\ Actor = {"parent", "watchdog"}
  BY GoFacts DEF Actor
<1>2. Waits(p)'
  BY <1>1 DEF ProbeSafe, Waits, Ahead
<1>3. ASSUME p \notin abandoned'
      PROVE  /\ proc'[p]["parent"] \in {"spawn"} \cup SetUp => Config'.probe = p
             /\ \A b \in Actor : Undone(p, proc[p][b])'
             /\ store'["monitor"].probe = p \/ rule' = p => Config'.probe = p
  BY <1>1, <1>3 DEF ProbeSafe, Undone, Monitor
<1> QED BY <1>2, <1>3 DEF ProbeSafe

LEMMA RestoreSafe ==
  ASSUME TypeInv, LockInv, FlightAbandoned, NEW p \in Probe, NEW a \in Actor,
         ProbeSafe(p), RestoreSteps(p, a)
  PROVE  ProbeSafe(p)'
<1>0. /\ readRv[p][a] \in Nat /\ proc[p][a] \notin Ahead \cup SetUp \cup {"waiting", "done"}
      /\ None # p
  <2>1. proc[p][a] \notin Ahead \cup SetUp \cup {"waiting", "done"}
    BY DEF RestoreSteps, RestoreMonitorGet, UnbreakMonitor, RemoveRule, SaveRecovery,
           ReleaseGet, ReleasePatch, At, Ahead, SetUp
  <2> QED BY <2>1, StoreAssumption DEF TypeInv, TypeOK, ProbeTypeOK
<1>b. /\ a \in {"parent", "watchdog"} /\ proc[p]["parent"] \notin Ahead
      /\ p \notin abandoned => proc[p]["parent"] \notin SetUp
  BY <1>0 DEF ProbeSafe, Waits, Ahead, Actor
<1>c. ASSUME UNCHANGED storeVars \/ ReadFails, NEW to, Go(p, a, to),
             to \notin Ahead \cup SetUp, p \notin abandoned => Undone(p, to)
      PROVE  ProbeSafe(p)'
  <2>1. SameMarks /\ abandoned' = abandoned
    BY <1>c, QuietSpares DEF storeVars, ReadFails
  <2>2. p \notin abandoned => Undone(p, to)'
    BY <1>c, <2>1 DEF SameMarks, Undone, Monitor
  <2> QED BY <1>b, <1>c, <2>1, <2>2, RestorerGoes DEF SameMarks, ProbeSafe, Ahead, Monitor
<1>1. CASE RestoreMonitorGet(p, a)
  <2>1. CASE store["monitor"].probe = None /\ UNCHANGED storeVars /\ Go(p, a, "remove")
    BY <1>0, <1>c, <2>1 DEF Undone, Ahead, SetUp
  <2>2. CASE /\ UNCHANGED storeVars \/ ReadFails
             /\ Go(p, a, "unbreak") \/ Go(p, a, "raised")
    BY <1>c, <2>2 DEF Undone, Ahead, SetUp
  <2> QED BY <1>1, <2>1, <2>2 DEF RestoreMonitorGet
<1>d. p \notin abandoned => Undone(p, proc[p][a])
  BY DEF ProbeSafe
<1>2. CASE SaveRecovery(p, a)
  <2>1. /\ proc[p][a] = "save" /\ UNCHANGED storeVars /\ Go(p, a, "release_get")
    BY <1>2 DEF SaveRecovery, At
  <2> QED BY <1>c, <1>d, <2>1 DEF Undone, Ahead, SetUp
<1>3. CASE ReleaseGet(p, a)
  <2>1. /\ proc[p][a] = "release_get"
        /\ UNCHANGED storeVars \/ ReadFails
        /\ \E to \in {"release_patch", "done", "raised"} : Go(p, a, to)
    BY <1>3 DEF ReleaseGet, At
  <2> QED BY <1>c, <1>d, <2>1 DEF Undone, Ahead, SetUp
(* A call of the process, answered or not.                                  *)
<1>e. ASSUME NEW m, WellFormed(m), Sound(m), m.by = p,
             NEW ok, NEW failed, ok \notin Ahead \cup SetUp, failed \in {"raised", "done"},
             Calls(p, a, m, ok, failed),
             m.kind \in {"unbreak", "remove", "unlock"}, m.to = "rule" => m.kind = "remove",
             m.kind = "unlock" /\ p \notin abandoned => Undone(p, "release_patch"),
             Marks(m) /\ p \notin abandoned => Undone(p, ok)'
      PROVE  ProbeSafe(p)'
  <2>1. /\ abandoned \subseteq abandoned'
        /\ p \notin abandoned' =>
             \/ SameMarks /\ ~Answered(m)
             \/ Marks(m) /\ Accepts(m)
    BY <1>e, OwnMarks DEF Calls
  <2>2. PICK to \in {ok, failed} : Go(p, a, to) /\ (to = failed \/ Answered(m))
    BY <1>e DEF Calls
  <2>3. ASSUME p \notin abandoned'
        PROVE  /\ p \notin abandoned
               /\ Undone(p, to)'
               /\ Monitor'.probe = p => Monitor.probe = p
               /\ rule' = p => rule = p
               /\ Monitor'.probe = p \/ rule' = p => Config'.probe = p
    <3>1. p \notin abandoned
      BY <2>1, <2>3
    <3>2. CASE SameMarks /\ ~Answered(m)
      <4>1. to = failed
        BY <2>2, <3>2
      <4> QED BY <1>e, <3>1, <3>2, <4>1 DEF SameMarks, ProbeSafe, Undone, Monitor
    <3>3. CASE Marks(m)
      <4>1. Undone(p, to)'
        BY <1>e, <2>2, <3>1, <3>3 DEF Undone
      <4>2. /\ Monitor'.probe = p => Monitor.probe = p
            /\ rule' = p => rule = p
        BY <1>0, <1>e, <3>3 DEF Marks
      <4>3. Monitor'.probe = p \/ rule' = p => Config'.probe = p
        BY <1>0, <1>e, <3>1, <3>3, <4>2 DEF Marks, ProbeSafe, Undone, Monitor
      <4> QED BY <3>1, <4>1, <4>2, <4>3
    <3> QED BY <2>1, <2>3, <3>2, <3>3
  <2>4. to \notin Ahead \cup SetUp
    BY <1>e, <2>2 DEF Ahead, SetUp
  <2> QED BY <1>b, <2>2, <2>3, <2>4, RestorerGoes DEF Ahead
<1>4. CASE UnbreakMonitor(p, a)
  <2> DEFINE m == ToObject("unbreak", "monitor", readRv[p][a], p)
  <2>1. Calls(p, a, m, "remove", "raised")
    BY <1>4 DEF UnbreakMonitor
  <2>2. WellFormed(m) /\ Sound(m)
    BY <1>0, ProbeMessages, ProbeMessagesSound
  <2>3. m.by = p /\ m.kind = "unbreak" /\ m.to = "monitor"
    BY DEF ToObject
  <2> HIDE DEF m
  <2>4. Marks(m) => Undone(p, "remove")'
    BY <1>0, <2>3 DEF Marks, Undone, Monitor
  <2> QED BY <1>e, <2>1, <2>2, <2>3, <2>4 DEF Ahead, SetUp
<1>5. CASE RemoveRule(p, a)
  <2> DEFINE m == ToOther("remove", "rule", p)
  <2>0. proc[p][a] = "remove"
    BY <1>5 DEF RemoveRule, At
  <2>1. CASE /\ UNCHANGED storeVars
             /\ \/ rule = None /\ Go(p, a, "save")
                \/ Go(p, a, "raised")
    BY <1>0, <1>c, <1>d, <2>0, <2>1 DEF Undone, Ahead, SetUp
  <2>2. CASE Calls(p, a, m, "save", "raised")
    <3>1. WellFormed(m) /\ Sound(m)
      BY ProbeMessages, ProbeMessagesSound
    <3>2. m.by = p /\ m.kind = "remove" /\ m.to = "rule"
      BY DEF ToOther
    <3> HIDE DEF m
    <3>3. Marks(m) /\ p \notin abandoned => Undone(p, "save")'
      BY <1>0, <1>d, <2>0, <3>2 DEF Marks, Undone, Monitor
    <3> QED BY <1>e, <2>2, <3>1, <3>2, <3>3 DEF Ahead, SetUp
  <2> QED BY <1>5, <2>1, <2>2 DEF RemoveRule
<1>6. CASE ReleasePatch(p, a)
  <2> DEFINE m == ToObject("unlock", "config", readRv[p][a], p)
  <2>0. proc[p][a] = "release_patch"
    BY <1>6 DEF ReleasePatch, At
  <2>1. Calls(p, a, m, "done", "raised")
    BY <1>6 DEF ReleasePatch
  <2>2. WellFormed(m)
    BY <1>0, ProbeMessages
  <2>3. m.by = p /\ m.kind = "unlock" /\ m.to = "config" /\ m.rv = readRv[p][a]
    BY DEF ToObject
  <2>4. Premise(Config, p, "release_patch", readRv[p][a])
    BY <2>0 DEF LockInv, ProbeSound
  <2> HIDE DEF m
  <2>5. Sound(m)
    BY <2>3, <2>4 DEF Premise, Sound, Agrees, Acquiring, Releasing
  <2>6. Undone(p, "done")'
    BY DEF Undone
  <2> QED BY <1>d, <1>e, <2>0, <2>1, <2>2, <2>3, <2>5, <2>6 DEF Ahead, SetUp
<1> QED BY <1>1, <1>2, <1>3, <1>4, <1>5, <1>6 DEF RestoreSteps

LEMMA ParentSafe ==
  ASSUME TypeInv, LockInv, FlightAbandoned, NEW p \in Probe, NEW shown, ProbeSafe(p),
         \/ Preflight(p, shown) \/ ParentSteps(p, shown) \/ WatchdogReturns(p)
         \/ RollbackTime(p) \/ ParentKilled(p)
  PROVE  ProbeSafe(p)'
<1>0. /\ readRv[p]["parent"] \in Nat /\ monitorRv[p] \in Nat /\ None # p
      /\ "parent" \in Actor /\ "watchdog" \in Actor
  BY StoreAssumption DEF Actor, TypeInv, TypeOK, ProbeTypeOK
<1>a. ASSUME UNCHANGED effects, abandoned' = abandoned, NEW to, Go(p, "parent", to),
             to \in Ahead => proc[p]["parent"] \in Ahead,
             to \in SetUp => proc[p]["parent"] \in SetUp,
             to \notin {"spawn", "remove", "save", "release_get", "release_patch"}
      PROVE  ProbeSafe(p)'
  <2>1. SameMarks
    BY <1>a, QuietSpares
  <2>2. Undone(p, to)'
    BY <1>a DEF Undone
  <2> QED BY <1>a, <2>1, <2>2, ParentGoes DEF SameMarks, ProbeSafe, Monitor
<1>b. UNCHANGED storeVars \/ ReadFails => UNCHANGED effects /\ abandoned' = abandoned
  BY DEF storeVars, ReadFails
<1>1. CASE Preflight(p, shown)
  BY <1>1, <1>a, <1>b DEF Preflight, At, Ahead, SetUp
<1>2. CASE LockGet(p)
  <2>1. /\ proc[p]["parent"] = "lock_get"
        /\ UNCHANGED storeVars \/ ReadFails
        /\ \E to \in {"lock_patch", "raised"} : Go(p, "parent", to)
    BY <1>2 DEF LockGet, At
  <2> QED BY <1>a, <1>b, <2>1 DEF Ahead, SetUp
<1>3. CASE Recheck(p, shown)
  <2>1. /\ proc[p]["parent"] = "recheck"
        /\ UNCHANGED storeVars \/ ReadFails
        /\ \E to \in {"create", "restore"} : Go(p, "parent", to)
    BY <1>3 DEF Recheck, At
  <2> QED BY <1>a, <1>b, <2>1 DEF Ahead, SetUp
<1>4. CASE StopObserving(p)
  BY <1>4, <1>a, <1>b DEF StopObserving, At, Ahead, SetUp
<1>5. CASE ParentKilled(p)
  BY <1>5, <1>a DEF ParentKilled, Ahead, SetUp
<1>6. CASE Spawn(p)
  <2>1. /\ proc[p]["parent"] = "spawn" /\ proc'[p]["parent"] = "recheck"
        /\ proc'[p]["watchdog"] = "waiting" /\ UNCHANGED storeVars
    BY <1>6 DEF Spawn, At, TypeInv, TypeOK, ProbeTypeOK
  <2>2. SameMarks /\ abandoned' = abandoned
    BY <2>1, QuietSpares DEF storeVars
  <2>3. Waits(p)'
    BY <2>1 DEF Waits, Ahead, SetUp
  <2>4. ASSUME p \notin abandoned'
        PROVE  /\ Config'.probe = p
               /\ \A a \in Actor : Undone(p, proc[p][a])'
    BY <2>1, <2>2, <2>4 DEF ProbeSafe, SameMarks, Undone, Actor
  <2> QED BY <2>3, <2>4 DEF ProbeSafe
<1>7. CASE WatchdogReturns(p) \/ RollbackTime(p)
  <2>1. PICK to \in {"done", "restore"} :
          /\ Go(p, "watchdog", to) /\ proc[p]["watchdog"] = "waiting" /\ UNCHANGED effects
          /\ abandoned' \in {abandoned, abandoned \cup {p}}
          /\ to = "restore" /\ proc[p]["parent"] \in SetUp => p \in abandoned'
    BY <1>7 DEF WatchdogReturns, RollbackTime, SetupMayOverrun, SpendFault, At, storeVars
  <2>2. SameMarks /\ (p \notin abandoned' => p \notin abandoned)
    BY <2>1, QuietSpares
  <2>3. proc[p]["parent"] \notin Ahead
    BY <2>1 DEF ProbeSafe, Waits
  <2>4. Undone(p, to)'
    BY <2>1 DEF Undone
  <2>5. to \notin {"none", "lock_get", "lock_patch", "spawn"} \cup SetUp
    BY <2>1 DEF SetUp
  <2> QED BY <1>0, <2>1, <2>2, <2>3, <2>4, <2>5, RestorerGoes DEF SameMarks, ProbeSafe, Monitor
(* A call of the parent, answered or not.                                   *)
<1>c. ASSUME NEW m, WellFormed(m), Sound(m), m.by = p, NEW ok, NEW failed,
             Calls(p, "parent", m, ok, failed),
             m.kind \in {"lock", "create", "break"}, m.to = "rule" <=> m.kind = "create",
             failed \in {"raised", "restore"}, ok \in {"spawn", "break", "observe"},
             ok = "spawn" => proc[p]["parent"] \in Ahead /\ m.kind = "lock",
             ok = "break" => proc[p]["parent"] \in SetUp,
             m.kind = "lock" \/ proc[p]["parent"] \in SetUp
      PROVE  ProbeSafe(p)'
  <2>1. /\ abandoned \subseteq abandoned'
        /\ p \notin abandoned' =>
             \/ SameMarks /\ ~Answered(m)
             \/ Marks(m) /\ Accepts(m)
    BY <1>c, OwnMarks DEF Calls
  <2>2. PICK to \in {ok, failed} : Go(p, "parent", to) /\ (to = failed \/ Answered(m))
    BY <1>c DEF Calls
  <2>3. ASSUME p \notin abandoned'
        PROVE  /\ p \notin abandoned
               /\ to \in {"spawn"} \cup SetUp => Config'.probe = p
               /\ Undone(p, to)'
               /\ proc[p]["watchdog"] \notin {"none", "waiting", "done"} =>
                    /\ Monitor'.probe = p => Monitor.probe = p
                    /\ rule' = p => rule = p
               /\ Monitor'.probe = p \/ rule' = p => Config'.probe = p
    <3>1. p \notin abandoned /\ Undone(p, to)'
      BY <1>c, <2>1, <2>2, <2>3 DEF Undone
    <3>2. CASE SameMarks /\ ~Answered(m)
      <4>1. to \in {"raised", "restore"}
        BY <1>c, <2>2, <3>2
      <4> QED BY <3>1, <3>2, <4>1 DEF SameMarks, ProbeSafe, Monitor, SetUp
    <3>3. CASE Marks(m)
      <4>1. CASE m.kind = "lock"
        BY <1>c, <3>1, <3>3, <4>1 DEF Marks, ProbeSafe, Monitor
      <4>2. CASE m.kind # "lock"
        <5>1. proc[p]["parent"] \in SetUp /\ Config.probe = p /\ Config'.probe = p
          BY <1>c, <3>1, <3>3, <4>2 DEF Marks, ProbeSafe
        <5>2. proc[p]["watchdog"] \in {"waiting", "done"}
          BY <3>1, <5>1 DEF ProbeSafe, Waits
        <5> QED BY <3>1, <5>1, <5>2
      <4> QED BY <4>1, <4>2
    <3> QED BY <2>1, <2>3, <3>2, <3>3
  <2>4. /\ to \in Ahead => proc[p]["parent"] \in Ahead
        /\ to \in SetUp => proc[p]["parent"] \in SetUp
    BY <1>c, <2>2 DEF Ahead, SetUp
  <2> QED BY <2>2, <2>3, <2>4, ParentGoes
<1>8. CASE LockPatch(p)
  <2> DEFINE m == ToObject("lock", "config", readRv[p]["parent"], p)
  <2>0. proc[p]["parent"] = "lock_patch"
    BY <1>8 DEF LockPatch, At
  <2>1. Calls(p, "parent", m, "spawn", "raised")
    BY <1>8 DEF LockPatch
  <2>2. WellFormed(m)
    BY <1>0, ProbeMessages
  <2>3. m.by = p /\ m.kind = "lock" /\ m.to = "config" /\ m.rv = readRv[p]["parent"]
    BY DEF ToObject
  <2>4. Premise(Config, p, "lock_patch", readRv[p]["parent"])
    BY <1>0, <2>0 DEF LockInv, ProbeSound
  <2> HIDE DEF m
  <2>5. Sound(m)
    BY <2>3, <2>4 DEF Premise, Sound, Agrees, Acquiring, Releasing
  <2> QED BY <1>c, <2>0, <2>1, <2>2, <2>3, <2>5 DEF Ahead
<1>9. CASE CreateRule(p)
  <2> DEFINE m == ToOther("create", "rule", p)
  <2>1. Calls(p, "parent", m, "break", "restore") /\ proc[p]["parent"] = "create"
    BY <1>9 DEF CreateRule, At
  <2>2. WellFormed(m) /\ Sound(m)
    BY <1>0, ProbeMessages, ProbeMessagesSound
  <2>3. m.by = p /\ m.kind = "create" /\ m.to = "rule"
    BY DEF ToOther
  <2> HIDE DEF m
  <2> QED BY <1>c, <2>1, <2>2, <2>3 DEF SetUp
<1>10. CASE BreakMonitor(p)
  <2> DEFINE m == ToObject("break", "monitor", monitorRv[p], p)
  <2>1. Calls(p, "parent", m, "observe", "restore") /\ proc[p]["parent"] = "break"
    BY <1>10 DEF BreakMonitor, At
  <2>2. WellFormed(m) /\ Sound(m)
    BY <1>0, ProbeMessages, ProbeMessagesSound
  <2>3. m.by = p /\ m.kind = "break" /\ m.to = "monitor"
    BY DEF ToObject
  <2> HIDE DEF m
  <2> QED BY <1>c, <2>1, <2>2, <2>3 DEF SetUp
<1> QED BY <1>1, <1>2, <1>3, <1>4, <1>5, <1>6, <1>7, <1>8, <1>9, <1>10 DEF ParentSteps

-----------------------------------------------------------------------------
(* The invariant of the probes.                                             *)

LEMMA ProbeInvInit ==
  ASSUME Init
  PROVE  ProbeInv
<1>1. /\ None \notin Probe /\ rule = None /\ store["monitor"].probe = None
      /\ \A p \in Probe, a \in Actor : proc[p][a] = "none"
      /\ "parent" \in Actor /\ "watchdog" \in Actor
  BY StoreAssumption DEF Init, StoreInit, ProbeInit, Deployed, Object, Actor
<1> QED BY <1>1 DEF ProbeInv, ProbeSafe, Waits, Undone, Ahead, SetUp

LEMMA ProbeInvNext ==
  ASSUME TypeInv, LockInv, FaultInv, ProbeInv, [Next]_vars
  PROVE  ProbeInv'
<1>0. ASSUME \A q \in Probe : Spares(q) /\ proc'[q] = proc[q]
      PROVE  ProbeInv'
  BY <1>0, SparedSafe DEF ProbeInv
<1>1. CASE ControllerStep
  BY <1>0, <1>1, ControllerSpares DEF ControllerStep, probeVars
<1>2. CASE ProbeStep
  <2>1. PICK p \in Probe : \/ Preflight(p, active.run) \/ ParentSteps(p, active.run)
                           \/ RestoreSteps(p, "parent") \/ WatchdogSteps(p) \/ ParentKilled(p)
    BY <1>2 DEF ProbeStep, ProbeNext
  <2>2. ProbeSafe(p)'
    BY <2>1, ParentSafe, RestoreSafe DEF FaultInv, ProbeInv, WatchdogSteps, Actor
  <2>3. ASSUME NEW q \in Probe, q # p
        PROVE  ProbeSafe(q)'
    <3>1. proc'[q] = proc[q] /\ Spares(q)
      BY <2>1, <2>3, ProbeCalls, CallSpares, QuietSpares
    <3> QED BY <3>1, SparedSafe DEF ProbeInv
  <2> QED BY <2>2, <2>3 DEF ProbeInv
<1>3. CASE EnvironmentStep
  BY <1>0, <1>3, EnvironmentSpares DEF EnvironmentStep, probeVars, FaultInv
<1>4. CASE UNCHANGED vars
  BY <1>0, <1>4, QuietSpares DEF vars, storeVars, probeVars
<1> QED BY <1>1, <1>2, <1>3, <1>4 DEF Next

LEMMA ProbeInvariant == Spec => [](TypeInv /\ LockInv /\ FaultInv /\ ProbeInv)
<1>1. Init => ProbeInv
  BY ProbeInvInit
<1>2. (TypeInv /\ LockInv /\ FaultInv) /\ ProbeInv /\ [Next]_vars => ProbeInv'
  BY ProbeInvNext
<1> QED BY <1>1, <1>2, FaultInvariant, PTL DEF Spec

(* For any runs, probes, plans and bounds: unless a call of a probe has     *)
(* outlived its timeout, or its setup the 240 seconds of its watchdog, its  *)
(* mark on the monitor and its rule are under its lock (run, watchdog,      *)
(* restore, release_external_run).                                          *)
THEOREM ProbeFaultsLocked == Spec => []ProbeFaultsAreLocked
<1>1. ProbeInv => ProbeFaultsAreLocked
  BY DEF ProbeInv, ProbeSafe, ProbeFaultsAreLocked
<1> QED BY <1>1, ProbeInvariant, PTL

-----------------------------------------------------------------------------
(* What a call that is carried out does to a field.                         *)

LEMMA PatchedField ==
  ASSUME NEW d \in Document, NEW m, WellFormed(m), m.to \in Object
  PROVE  LET e == [Patched(d, m) EXCEPT !.rv = d.rv + 1] IN
           /\ e.rv = d.rv + 1
           /\ m.kind = "journal" =>
                e.val = Fault /\ e.base = IF d.owner = m.by THEN d.base ELSE d.val
           /\ m.kind = "restore" => e.val = d.base
           /\ m.kind = "break" => e.val = Fault /\ e.base = d.base
           /\ m.kind = "unbreak" => e.val = Base /\ e.base = d.base
           /\ m.kind \notin FieldKind => e.val = d.val /\ e.base = d.base
<1> DEFINE e == [Patched(d, m) EXCEPT !.rv = d.rv + 1]
<1> SUFFICES /\ e.rv = d.rv + 1
             /\ m.kind = "journal" =>
                  e.val = Fault /\ e.base = IF d.owner = m.by THEN d.base ELSE d.val
             /\ m.kind = "restore" => e.val = d.base
             /\ m.kind = "break" => e.val = Fault /\ e.base = d.base
             /\ m.kind = "unbreak" => e.val = Base /\ e.base = d.base
             /\ m.kind \notin FieldKind => e.val = d.val /\ e.base = d.base
  OBVIOUS
<1>0. m.kind \in ObjectKind /\ Patched(d, m) \in Document
  BY PatchedType DEF WellFormed
<1>1. e.rv = d.rv + 1 /\ e.val = Patched(d, m).val /\ e.base = Patched(d, m).base
  BY <1>0 DEF Document
<1> HIDE DEF e
<1>2. CASE m.kind = "claim"
  BY <1>1, <1>2 DEF Patched, Document
<1>3. CASE m.kind = "journal"
  BY <1>1, <1>3 DEF Patched, Document, FieldKind
<1>4. CASE m.kind = "restore"
  BY <1>1, <1>4 DEF Patched, Document, FieldKind
<1>5. CASE m.kind = "note_job"
  BY <1>1, <1>5 DEF Patched, Document
<1>6. CASE m.kind = "clear"
  BY <1>1, <1>6 DEF Patched, Document
<1>7. CASE m.kind = "lock"
  BY <1>1, <1>7 DEF Patched, Document
<1>8. CASE m.kind = "unlock"
  BY <1>1, <1>8 DEF Patched, Document
<1>9. CASE m.kind = "break"
  BY <1>1, <1>9 DEF Patched, Document, FieldKind
<1>10. CASE m.kind = "unbreak"
  BY <1>1, <1>10 DEF Patched, Document, FieldKind
<1> QED BY <1>0, <1>2, <1>3, <1>4, <1>5, <1>6, <1>7, <1>8, <1>9, <1>10 DEF ObjectKind

LEMMA FieldFacts ==
  ASSUME TypeInv
  PROVE  /\ \A o \in Object : /\ store[o] \in Document /\ store[o].rv \in Nat
                              /\ store[o].owner \in Run \cup {None}
                              /\ store[o].probe \in Probe \cup {None}
                              /\ opval[o] \in {Base, Edited}
         /\ Monitor = store["monitor"] /\ Config = store["config"]
         /\ Object = {"config", "service", "monitor"}
         /\ None \notin Run \cup Probe /\ Run \cap Probe = {}
         /\ Base # Fault /\ Edited # Fault
BY StoreAssumption
   DEF TypeInv, TypeOK, StoreTypeOK, Document, Owner, Locker, OperatorValue, Monitor, Config,
       Object, Base, Edited, Fault

(* A document moves on or stays as it is, and so does what is taken for     *)
(* granted about it.                                                        *)
DocumentsMove == \A o \in Object : store'[o] = store[o] \/ store'[o].rv > store[o].rv

LEMMA PremiseMoves ==
  ASSUME NEW kind, NEW by, NEW o, NEW rv \in Nat, NEW c, NEW d, c.rv \in Nat, d.rv \in Nat,
         d = c \/ d.rv > c.rv, FieldPremise(kind, by, o, rv, c)
  PROVE  FieldPremise(kind, by, o, rv, d)
BY DEF FieldPremise

(* The document a carried-out patch leaves behind.                          *)
LEMMA PerformDocument ==
  ASSUME TypeInv, NEW m, WellFormed(m), Perform(m), m.to \in Object
  PROVE  LET d == store[m.to]
             e == store'[m.to]
         IN /\ e.rv = d.rv + 1
            /\ m.kind = "journal" =>
                 /\ e.val = Fault /\ e.base = IF d.owner = m.by THEN d.base ELSE d.val
                 /\ e.owner = m.by /\ e.probe = d.probe
            /\ m.kind = "restore" => e.val = d.base /\ e.owner = None /\ e.probe = d.probe
            /\ m.kind = "break" =>
                 e.val = Fault /\ e.base = d.base /\ e.owner = d.owner /\ e.probe = m.by
            /\ m.kind = "unbreak" =>
                 e.val = Base /\ e.base = d.base /\ e.owner = d.owner /\ e.probe = None
            /\ m.kind \notin FieldKind =>
                 /\ e.val = d.val /\ e.base = d.base /\ e.owner = d.owner
                 /\ m.to # "config" => e.probe = d.probe
<1> DEFINE d == store[m.to]
           e == [Patched(d, m) EXCEPT !.rv = d.rv + 1]
<1>1. store'[m.to] = e
  BY PerformStore
<1>2. d \in Document
  BY FieldFacts
<1>3. /\ m.kind = "journal" => e.owner = m.by
      /\ m.kind = "restore" => e.owner = None
      /\ m.kind \notin {"journal", "restore"} => e.owner = d.owner
  BY <1>2, PatchedClaim
<1>4. e.probe = IF m.kind \in {"lock", "break"} THEN m.by
                ELSE IF m.kind \in {"unlock", "unbreak"} THEN None ELSE d.probe
  BY <1>2, PatchedMark
<1>5. /\ e.rv = d.rv + 1
      /\ m.kind = "journal" =>
           e.val = Fault /\ e.base = IF d.owner = m.by THEN d.base ELSE d.val
      /\ m.kind = "restore" => e.val = d.base
      /\ m.kind = "break" => e.val = Fault /\ e.base = d.base
      /\ m.kind = "unbreak" => e.val = Base /\ e.base = d.base
      /\ m.kind \notin FieldKind => e.val = d.val /\ e.base = d.base
  BY <1>2, PatchedField
<1>6. m.kind \in {"lock", "unlock"} => m.to = "config"
  BY DEF WellFormed
<1> HIDE DEF e
<1> QED BY <1>1, <1>3, <1>4, <1>5, <1>6 DEF FieldKind

(* A call whose premise holds keeps the operator's values, and marks a      *)
(* monitor with a journal only as a probe.                                  *)
FieldStep ==
  /\ Fields' /\ DocumentsMove
  /\ \A m \in flight' : Grounded(m)'
  /\ Doubled' => /\ Monitor'.owner = Monitor.owner
                 /\ Doubled \/ \E p \in Probe : proc[p]["parent"] = "break"

LEMMA PerformKept ==
  ASSUME TypeInv, Fields, NEW m, WellFormed(m), Grounded(m), Accepts(m), Perform(m),
         opval' = opval
  PROVE  Fields'
<1>0. CASE m.to \notin Object
  BY <1>0, PerformStore DEF Fields, MarkOnBase, Kept, Monitor
<1>1. CASE m.to \in Object
  <2> DEFINE o == m.to
             d == store[o]
             e == store'[o]
  <2>1. /\ m.by \in Run \cup Probe
        /\ m.kind \in {"break", "unbreak"} => o = "monitor"
    BY DEF WellFormed, Message
  <2>2. m.kind \in FieldKind => Ready(m.kind, m.by, o, d)
    <3>1. d.rv = m.rv
      BY <1>1 DEF Accepts
    <3> QED BY <1>1, <3>1 DEF Grounded, FieldPremise
  <2>3. /\ d.val = opval[o] \/ (d.owner # None /\ d.base = opval[o] /\ d.val = Fault)
           \/ (o = "monitor" /\ d.probe # None /\ opval[o] = Base /\ d.val = Fault)
        /\ o = "monitor" /\ d.probe # None /\ d.val = Fault => opval[o] = Base
    BY <1>1, FieldFacts DEF Fields, Kept, MarkOnBase
  <2>4. /\ m.kind = "journal" =>
             /\ e.val = Fault /\ e.base = IF d.owner = m.by THEN d.base ELSE d.val
             /\ e.owner = m.by /\ e.probe = d.probe
        /\ m.kind = "restore" => e.val = d.base /\ e.owner = None /\ e.probe = d.probe
        /\ m.kind = "break" =>
             e.val = Fault /\ e.base = d.base /\ e.owner = d.owner /\ e.probe = m.by
        /\ m.kind = "unbreak" =>
             e.val = Base /\ e.base = d.base /\ e.owner = d.owner /\ e.probe = None
        /\ m.kind \notin FieldKind =>
             /\ e.val = d.val /\ e.base = d.base /\ e.owner = d.owner
             /\ o # "config" => e.probe = d.probe
    BY <1>1, PerformDocument
  <2>5. \A q \in Object \ {o} : store'[q] = store[q]
    BY <1>1, PerformStore
  <2>6. Base # Fault /\ None \notin Run \cup Probe /\ opval[o] # Fault
    BY <1>1, FieldFacts
  <2> HIDE DEF o, d, e
  <2>7. /\ e.val = opval[o] \/ (e.owner # None /\ e.base = opval[o] /\ e.val = Fault)
           \/ (o = "monitor" /\ e.probe # None /\ opval[o] = Base /\ e.val = Fault)
        /\ o = "monitor" /\ e.probe # None /\ e.val = Fault => opval[o] = Base
    <3>1. CASE m.kind = "journal"
      BY <2>1, <2>2, <2>3, <2>4, <2>6, <3>1 DEF Ready, Unmarked, FieldKind
    <3>2. CASE m.kind = "restore"
      BY <2>1, <2>2, <2>3, <2>4, <2>6, <3>2 DEF Ready, Unmarked, FieldKind
    <3>3. CASE m.kind = "break"
      BY <2>1, <2>2, <2>3, <2>4, <2>6, <3>3 DEF Ready, FieldKind
    <3>4. CASE m.kind = "unbreak"
      BY <2>1, <2>2, <2>3, <2>4, <2>6, <3>4 DEF Ready, FieldKind
    <3>5. CASE m.kind \notin FieldKind
      BY <2>3, <2>4, <3>5
    <3> QED BY <3>1, <3>2, <3>3, <3>4, <3>5 DEF FieldKind
  <2>8. ASSUME NEW q \in Object
        PROVE  Kept(q)'
    BY <2>5, <2>7, <2>8 DEF Fields, Kept, o, e
  <2>9. MarkOnBase'
    BY <2>5, <2>7, FieldFacts DEF Fields, MarkOnBase, Monitor, o, e
  <2> QED BY <2>8, <2>9 DEF Fields
<1> QED BY <1>0, <1>1

(* A mark on a monitor with a journal is made by a probe alone.             *)
LEMMA PerformDoubled ==
  ASSUME TypeInv, NEW m, WellFormed(m), Grounded(m), Accepts(m), Perform(m)
  PROVE  Doubled' => Monitor'.owner = Monitor.owner /\ (Doubled \/ m.kind = "break")
<1>0. CASE m.to # "monitor"
  <2>1. Monitor' = Monitor
    BY <1>0, PerformStore, FieldFacts DEF Monitor
  <2> QED BY <2>1 DEF Doubled
<1>1. CASE m.to = "monitor"
  <2>0. m.to \in Object
    BY <1>1, FieldFacts
  <2>1. m.kind = "journal" => Monitor.probe = None
    BY <1>1, <2>0 DEF Accepts, Grounded, FieldPremise, FieldKind, Ready, Unmarked, Monitor
  <2>2. /\ m.kind = "journal" => Monitor'.probe = Monitor.probe
        /\ m.kind = "restore" => Monitor'.owner = None
        /\ m.kind = "unbreak" => Monitor'.probe = None
        /\ m.kind = "break" => Monitor'.owner = Monitor.owner
        /\ m.kind \notin FieldKind =>
             Monitor'.owner = Monitor.owner /\ Monitor'.probe = Monitor.probe
    BY <1>1, <2>0, PerformDocument DEF Monitor
  <2> QED BY <2>1, <2>2 DEF Doubled, FieldKind
<1> QED BY <1>0, <1>1

LEMMA PerformMoves ==
  ASSUME TypeInv, NEW m, WellFormed(m), Perform(m)
  PROVE  DocumentsMove
<1>1. CASE m.to \in Object
  <2>1. store'[m.to].rv > store[m.to].rv
    BY <1>1, PerformDocument, FieldFacts
  <2> QED BY <1>1, <2>1, PerformStore DEF DocumentsMove
<1>2. CASE m.to \notin Object
  BY <1>2, PerformStore DEF DocumentsMove
<1> QED BY <1>1, <1>2

LEMMA GroundedMoves ==
  ASSUME TypeInv, TypeInv', DocumentsMove, NEW m \in Message, Grounded(m)
  PROVE  Grounded(m)'
<1>1. m.rv \in Nat
  BY DEF Message
<1>2. ASSUME NEW o \in Object, o = m.to
      PROVE  FieldPremise(m.kind, m.by, o, m.rv, store'[o])
  <2>1. store[o].rv \in Nat /\ store'[o].rv \in Nat
    BY FieldFacts, <1>2 DEF TypeInv, TypeOK, StoreTypeOK, Document
  <2>2. store'[o] = store[o] \/ store'[o].rv > store[o].rv
    BY DEF DocumentsMove
  <2>3. FieldPremise(m.kind, m.by, o, m.rv, store[o])
    BY <1>2 DEF Grounded
  <2> QED BY <1>1, <2>1, <2>2, <2>3, PremiseMoves
<1> QED BY <1>2 DEF Grounded

(* A call whose author is where it should be, whatever comes of it.         *)
LEMMA CallField ==
  ASSUME TypeInv, TypeInv', Fields, \A n \in flight : Grounded(n),
         NEW m, WellFormed(m), Grounded(m),
         m.kind = "break" => \E p \in Probe : proc[p]["parent"] = "break",
         Answered(m) \/ Failed(m)
  PROVE  FieldStep
<1>0. \A n \in flight : n \in Message
  BY DEF TypeInv, WellFormed
<1>1. opval' = opval
  BY CallCases
<1>2. CASE Accepts(m) /\ Perform(m) /\ flight' = flight
  <2>1. Fields' /\ DocumentsMove
    BY <1>1, <1>2, PerformKept, PerformMoves
  <2>2. \A n \in flight : Grounded(n)'
    BY <1>0, <2>1, GroundedMoves
  <2>3. Doubled' => Monitor'.owner = Monitor.owner /\ (Doubled \/ m.kind = "break")
    BY <1>2, PerformDoubled
  <2> QED BY <1>2, <2>1, <2>2, <2>3 DEF FieldStep
<1>3. CASE UNCHANGED effects /\ flight' \in {flight, flight \cup {m}}
  <2>1. store' = store
    BY <1>3 DEF effects
  <2>2. DocumentsMove /\ Fields' /\ \A n \in flight' : Grounded(n)'
    BY <1>1, <1>3, <2>1 DEF DocumentsMove, Fields, Kept, MarkOnBase, Monitor, Grounded
  <2> QED BY <2>1, <2>2 DEF FieldStep, Doubled, Monitor
<1> QED BY <1>2, <1>3, CallCases

LEMMA QuietField ==
  ASSUME Fields, \A n \in flight : Grounded(n), UNCHANGED <<store, opval, flight>>
  PROVE  FieldStep
BY DEF FieldStep, DocumentsMove, Fields, Kept, MarkOnBase, Doubled, Monitor, Grounded

LEMMA EnvironmentField ==
  ASSUME TypeInv, TypeInv', FlightAbandoned, Fields, \A n \in flight : Grounded(n),
         abandoned \cap Probe = {}, EnvironmentStep
  PROVE  FieldStep
<1>0. \A n \in flight : n \in Message /\ WellFormed(n)
  BY DEF TypeInv, WellFormed
<1>1. ASSUME NEW m \in flight, Deliver(m)
      PROVE  FieldStep
  <2>1. WellFormed(m) /\ Grounded(m) /\ m.by \notin Probe
    BY <1>0 DEF FlightAbandoned
  <2>2. m.kind # "break"
    BY <2>1 DEF WellFormed
  <2>3. Fields' /\ DocumentsMove
    BY <1>1, <2>1, PerformKept, PerformMoves DEF Deliver
  <2>4. \A n \in flight' : Grounded(n)'
    BY <1>0, <1>1, <2>3, GroundedMoves DEF Deliver
  <2>5. Doubled' => Monitor'.owner = Monitor.owner /\ Doubled
    BY <1>1, <2>1, <2>2, PerformDoubled DEF Deliver
  <2> QED BY <2>3, <2>4, <2>5 DEF FieldStep
<1>2. ASSUME NEW m \in flight, Discard(m)
      PROVE  FieldStep
  BY <1>2 DEF Discard, effects, FieldStep, DocumentsMove, Fields, Kept, MarkOnBase, Doubled,
              Monitor, Grounded
<1>3. ASSUME NEW o \in Object, NEW v \in OperatorValue, OperatorEdit(o, v)
      PROVE  FieldStep
  <2>1. /\ store'[o].val = v /\ store'[o].rv = store[o].rv + 1
        /\ store'[o].owner = store[o].owner /\ store'[o].probe = store[o].probe
        /\ \A q \in Object \ {o} : store'[q] = store[q]
        /\ flight' = flight
    BY <1>3, StoreFacts DEF OperatorEdit, Document
  <2>2. /\ opval'[o] = v /\ v # Fault
        /\ \A q \in Object \ {o} : opval'[q] = opval[q]
    BY <1>3 DEF OperatorEdit, TypeInv, TypeOK, StoreTypeOK, OperatorValue, Base, Edited, Fault
  <2>3. DocumentsMove
    BY <2>1, FieldFacts DEF DocumentsMove
  <2>4. \A n \in flight' : Grounded(n)'
    BY <1>0, <2>1, <2>3, GroundedMoves
  <2>5. Fields'
    BY <2>1, <2>2, FieldFacts DEF Fields, Kept, MarkOnBase, Monitor
  <2>6. Doubled' => Monitor'.owner = Monitor.owner /\ Doubled
    BY <2>1, FieldFacts DEF Doubled, Monitor
  <2> QED BY <2>3, <2>4, <2>5, <2>6 DEF FieldStep
<1>4. ASSUME NEW a \in App, LeaseExpires(a)
      PROVE  FieldStep
  BY <1>4, QuietField DEF LeaseExpires
<1> QED BY <1>1, <1>2, <1>3, <1>4 DEF EnvironmentStep, Environment

LEMMA ControllerField ==
  ASSUME TypeInv, TypeInv', LockInv, FieldSound, Fields, ControllerStep
  PROVE  FieldStep
<1>1. CASE UNCHANGED <<effects, abandoned, flight, opval>>
  BY <1>1, QuietField DEF effects, FieldSound
<1>2. ASSUME NEW m, WellFormed(m), m.by = active.run, active.run \in Run, Placed(m),
             Answered(m) \/ Failed(m)
      PROVE  FieldStep
  <2>0. m.kind \notin {"break", "unbreak"}
    BY <1>2, FieldFacts DEF WellFormed
  <2>1. Grounded(m)
    <3>1. CASE m.kind = "journal"
      <4>1. pc = "start_patch" /\ m.to = Due /\ m.rv = seen
        BY <1>2, <3>1 DEF Placed, FieldPatch, ToObject
      <4> QED BY <1>2, <3>1, <4>1 DEF FieldSound, Grounded
    <3>2. CASE m.kind = "restore"
      <4>1. pc = "restore_patch" /\ m.to = Due /\ m.rv = seen
        BY <1>2, <3>2 DEF Placed, RestorePatch, ToObject
      <4> QED BY <1>2, <3>2, <4>1 DEF FieldSound, Grounded
    <3>3. CASE m.kind \notin FieldKind
      BY <3>3 DEF Grounded, FieldPremise
    <3> QED BY <2>0, <3>1, <3>2, <3>3 DEF FieldKind
  <2> QED BY <1>2, <2>0, <2>1, CallField DEF FieldSound
<1> QED BY <1>1, <1>2, ControllerCalls

LEMMA ProbeField ==
  ASSUME TypeInv, TypeInv', LockInv, FieldSound, MonitorSound, Fields, ProbeStep
  PROVE  FieldStep
<1>0. PICK p \in Probe : \/ Preflight(p, active.run) \/ ParentSteps(p, active.run)
                         \/ RestoreSteps(p, "parent") \/ WatchdogSteps(p) \/ ParentKilled(p)
  BY DEF ProbeStep, ProbeNext
<1>1. CASE UNCHANGED <<effects, flight, opval>>
  BY <1>1, QuietField DEF effects, FieldSound
<1>2. ASSUME NEW m, WellFormed(m), m.by = p, Aimed(p, m), Answered(m) \/ Failed(m)
      PROVE  FieldStep
  <2>0. m.kind \notin {"journal", "restore"}
    BY <1>2, FieldFacts DEF WellFormed
  <2>1. m.kind = "break" => proc[p]["parent"] = "break"
    BY <1>2 DEF Aimed
  <2>2. Grounded(m)
    <3>1. CASE m.kind = "break"
      <4>1. m.to = "monitor" /\ m.rv = monitorRv[p]
        BY <1>2, <3>1 DEF Aimed, ToObject
      <4> QED BY <1>2, <2>1, <3>1, <4>1 DEF MonitorSound, Aiming, SetUp, Grounded, Monitor
    <3>2. CASE m.kind = "unbreak"
      <4>1. PICK a \in Actor :
              proc[p][a] = "unbreak" /\ m = ToObject("unbreak", "monitor", readRv[p][a], p)
        BY <1>2, <3>2 DEF Aimed
      <4>2. m.to = "monitor" /\ m.rv = readRv[p][a]
        BY <4>1 DEF ToObject
      <4> QED BY <1>2, <3>2, <4>1, <4>2 DEF MonitorSound, Grounded, Monitor
    <3>3. CASE m.kind \notin FieldKind
      BY <3>3 DEF Grounded, FieldPremise
    <3> QED BY <2>0, <3>1, <3>2, <3>3 DEF FieldKind
  <2> QED BY <1>2, <2>1, <2>2, CallField DEF FieldSound
<1> QED BY <1>0, <1>1, <1>2, ProbeCalls

-----------------------------------------------------------------------------
(* Where the controller's thread gets to.                                   *)

StartingUp == Claiming \cup Injecting

ControllerGoes ==
  /\ pc' \in StartingUp =>
       \/ \E r \in Run, plan \in Plans : Start(r, plan)
       \/ pc \in StartingUp /\ active'.run = active.run /\ todo' \subseteq todo
  /\ pc' = "start_patch" =>
       /\ FieldGet /\ Due' = Due /\ seen' = store[Due].rv /\ store' = store
       /\ active' = active /\ store[Due].owner \in {None, active.run}
  /\ pc' = "restore_patch" =>
       /\ RestoreGet /\ Due' = Due /\ seen' = store[Due].rv /\ store' = store
       /\ active' = active /\ Restorable(store[Due])
  /\ \/ active'.run \in {active.run, None}
     \/ \E r \in Run, plan \in Plans : Start(r, plan)
     \/ AdoptPersisted

LEMMA ControllerPlaces ==
  ASSUME TypeInv, ControllerStep
  PROVE  ControllerGoes
<1>0. /\ active \in Activity /\ Idle.run = None
  BY DEF TypeInv, TypeOK, ControllerTypeOK, Idle
<1>a. StartFailed => pc' = "recover" /\ active'.run = active.run
  BY <1>0 DEF StartFailed, BeginRecovery, Activity
<1>b. StillRecovering => active'.run = active.run
  BY <1>0 DEF StillRecovering, Activity
<1> USE DEF StartingUp, Claiming, Injecting
<1>1. CASE \E r \in Run, plan \in Plans : Start(r, plan)
  BY <1>1 DEF ControllerGoes, Start
<1>2. CASE ClaimGet
  BY <1>2 DEF ControllerGoes, ClaimGet
<1>3. CASE ClaimPatch
  BY <1>3 DEF ControllerGoes, ClaimPatch
<1>4. CASE ClaimCheck
  BY <1>0, <1>4, <1>a DEF ControllerGoes, ClaimCheck, Return
<1>5. CASE CheckMonitor
  BY <1>5, <1>a DEF ControllerGoes, CheckMonitor
<1>6. CASE FieldGet
  <2>1. CASE StartFailed
    BY <1>a, <2>1 DEF ControllerGoes
  <2>2. CASE /\ store[Due].owner \in {None, active.run} /\ seen' = store[Due].rv
             /\ pc' = "start_patch" /\ UNCHANGED <<active, todo, storeVars>>
    BY <1>6, <2>2, DueKept DEF ControllerGoes, FieldGet, storeVars, effects
  <2> QED BY <1>6, <2>1, <2>2 DEF FieldGet
<1>7. CASE FieldPatch \/ PostFault
  BY <1>7, <1>a DEF ControllerGoes, FieldPatch, PostFault
<1>8. CASE InsertJob
  BY <1>0, <1>8, <1>a DEF ControllerGoes, InsertJob, Activity
<1>9. CASE JobGet \/ JobPatch
  BY <1>9, <1>a DEF ControllerGoes, JobGet, JobPatch
<1>10. CASE Running
  BY <1>0, <1>10 DEF ControllerGoes, Running, Return, Activity
<1>11. CASE RestoreGet
  <2>1. CASE \E failed : NextTarget(failed) /\ UNCHANGED pc
    BY <1>11, <2>1 DEF ControllerGoes, RestoreGet, NextTarget
  <2>2. CASE /\ Restorable(store[Due]) /\ seen' = store[Due].rv
             /\ pc' = "restore_patch" /\ UNCHANGED <<active, todo, storeVars>>
    BY <1>11, <2>2, DueKept DEF ControllerGoes, storeVars, effects
  <2> QED BY <1>11, <2>1, <2>2 DEF RestoreGet
<1>12. CASE RestorePatch \/ PostNormal \/ DeleteJob
  <2>1. active' = active /\ pc' = "recover"
    BY <1>12 DEF RestorePatch, PostNormal, DeleteJob, NextTarget
  <2> QED BY <2>1 DEF ControllerGoes
<1>13. CASE KeepRecovering \/ ClearGet \/ ClearPatch
  <2>1. pc' \in {"idle", "clear_patch"} /\ active'.run \in {active.run, None}
    BY <1>0, <1>13, <1>b DEF KeepRecovering, ClearGet, ClearPatch, Return
  <2> QED BY <2>1 DEF ControllerGoes
<1>14. CASE RecoverActive
  BY <1>14 DEF ControllerGoes, RecoverActive, BeginRecovery
<1>15. CASE AdoptPersisted
  BY <1>15 DEF ControllerGoes, AdoptPersisted, BeginRecovery
<1>16. CASE ControllerCrash
  BY <1>0, <1>16 DEF ControllerGoes, ControllerCrash, Return
<1> QED BY <1>1, <1>2, <1>3, <1>4, <1>5, <1>6, <1>7, <1>8, <1>9, <1>10, <1>11, <1>12,
           <1>13, <1>14, <1>15, <1>16
        DEF ControllerStep, ControllerNext, StartSteps, RecoverySteps

(* A call injects nothing but what it is for.                               *)
LEMMA CallFaults ==
  ASSUME TypeInv, NEW m, WellFormed(m), Answered(m) \/ Failed(m), NEW r \in Run,
         NEW t \in Step, FaultAt(r, t)'
  PROVE  FaultAt(r, t) \/ (r = m.by /\ t = m.to /\ m.kind \in Injects)
<1>1. CASE Accepts(m) /\ Perform(m)
  BY <1>1, PerformFaults
<1>2. CASE UNCHANGED effects
  BY <1>2, SameFaults
<1> QED BY <1>1, <1>2, CallCases

LEMMA StartMine ==
  ASSUME TypeInv, LockInv, FaultInv, NEW r \in Run, NEW plan \in Plans, Start(r, plan)
  PROVE  /\ r \notin abandoned /\ abandoned' = abandoned /\ store' = store
         /\ active'.run = r /\ pc' = "claim_get"
         /\ \A o \in Object : store[o].owner = None
<1>1. /\ r \notin abandoned
  BY DEF Start, FaultInv, AbandonedLate
<1> QED BY <1>1 DEF Start, Orphaned, storeVars, effects

LEMMA MineNext ==
  ASSUME TypeInv, LockInv, FaultInv, NotYetMine, [Next]_vars
  PROVE  NotYetMine'
<1>0. /\ None \notin Run /\ Object \subseteq Step
      /\ pc \in StartingUp => active.run \in Run \ abandoned
  BY StoreFacts
     DEF Step, StartingUp, Claiming, Injecting, TypeInv, AtTarget, FaultInv, AbandonedLate, Early
<1>1. CASE ControllerStep
  <2> SUFFICES ASSUME pc' \in StartingUp, NEW o \in Object, o \in todo'
               PROVE  store'[o].owner # active'.run
    BY DEF NotYetMine, StartingUp
  <2>1. CASE \E r \in Run, plan \in Plans : Start(r, plan)
    BY <1>0, <2>1, StartMine
  <2>2. CASE pc \in StartingUp /\ active'.run = active.run /\ todo' \subseteq todo
    <3>1. store[o].owner # active.run
      BY <2>2 DEF NotYetMine, StartingUp
    <3>2. ASSUME NEW m, WellFormed(m), m.by = active.run, Placed(m), Answered(m) \/ Failed(m),
                 store'[o].owner = active.run
          PROVE  FALSE
      <4>1. ASSUME NEW r \in Run, r = active.run
            PROVE  r = m.by /\ o = m.to /\ m.kind \in Injects
        <5>1. FaultAt(r, o)' /\ ~FaultAt(r, o)
          BY <3>1, <3>2, <4>1, FieldFacts DEF FaultAt, Object, App
        <5> QED BY <1>0, <3>2, <5>1, CallFaults
      <4>2. o = m.to /\ m.kind = "journal"
        <5>1. o = m.to /\ m.kind \in Injects
          BY <1>0, <2>2, <4>1
        <5> QED BY <3>2, <5>1 DEF WellFormed, ObjectKind, Injects
      <4>3. FieldPatch /\ o = Due
        BY <3>2, <4>2 DEF Placed, ToObject
      <4>4. pc' = "recover" \/ todo' = todo \ {Due}
        BY <4>3 DEF FieldPatch, StartFailed, BeginRecovery
      <4> QED BY <4>3, <4>4 DEF StartingUp, Claiming, Injecting
    <3>3. UNCHANGED effects => store'[o].owner = store[o].owner
      BY DEF effects
    <3> QED BY <1>1, <2>2, <3>1, <3>2, <3>3, ControllerCalls
  <2> QED BY <1>1, <2>1, <2>2, ControllerPlaces DEF ControllerGoes
<1>2. CASE Foreign
  <2>1. pc' = pc /\ active' = active /\ todo' = todo
    BY <1>2 DEF Foreign, localVars
  <2>2. ASSUME pc \in StartingUp, NEW o \in todo \cap Object, NEW r \in Run \ abandoned,
               r = active.run, store'[o].owner = r
        PROVE  FALSE
    <3>1. FaultAt(r, o)'
      BY <2>2 DEF FaultAt
    <3>2. FaultAt(r, o)
      BY <1>0, <1>2, <2>2, <3>1 DEF Foreign
    <3> QED BY <2>2, <3>2, FieldFacts DEF FaultAt, App, NotYetMine, StartingUp
  <2> QED BY <1>0, <2>1, <2>2 DEF NotYetMine, StartingUp
<1>3. CASE ProbeStep \/ EnvironmentStep
  BY <1>2, <1>3, ProbeForeign, EnvironmentForeign
<1>4. CASE UNCHANGED vars
  BY <1>4 DEF vars, storeVars, effects, localVars, NotYetMine
<1> QED BY <1>1, <1>3, <1>4 DEF Next

-----------------------------------------------------------------------------
(* Where the processes of a probe get to.                                   *)

BreakReady(p) ==
  /\ Monitor.val = Base /\ Monitor.probe = None
  /\ monitorRv'[p] = Monitor.rv /\ store' = store

UnbreakReady(p, a) ==
  /\ Monitor.val = Fault /\ Monitor.probe = p
  /\ readRv'[p][a] = Monitor.rv /\ store' = store

ProbeGoes(p, shown) ==
  /\ \A q \in Probe : q # p =>
       proc'[q] = proc[q] /\ monitorRv'[q] = monitorRv[q] /\ readRv'[q] = readRv[q]
  /\ proc'[p]["parent"] \in Aiming =>
       \/ proc[p]["parent"] \in Aiming /\ monitorRv'[p] = monitorRv[p]
       \/ BreakReady(p)
  /\ \A a \in Actor : proc'[p][a] = "unbreak" =>
       \/ proc[p][a] = "unbreak" /\ readRv'[p][a] = readRv[p][a]
       \/ UnbreakReady(p, a)
  /\ proc'[p]["parent"] \in {"create", "break"} =>
       proc[p]["parent"] \in {"create", "break"} \/ shown = None

LEMMA KeepsFacts ==
  ASSUME TypeInv, NEW p \in Probe, NEW a \in Actor, NEW rv, Keeps(p, a, rv)
  PROVE  /\ readRv'[p][a] = rv
         /\ \A b \in Actor : b # a => readRv'[p][b] = readRv[p][b]
         /\ \A q \in Probe : q # p => readRv'[q] = readRv[q]
BY DEF TypeInv, TypeOK, ProbeTypeOK, Keeps

LEMMA ProbePlaces ==
  ASSUME TypeInv, NEW p \in Probe, NEW shown,
         \/ Preflight(p, shown) \/ ParentSteps(p, shown) \/ RestoreSteps(p, "parent")
         \/ WatchdogSteps(p) \/ ParentKilled(p)
  PROVE  ProbeGoes(p, shown)
<1>0. /\ Actor = {"parent", "watchdog"}
      /\ proc \in [Probe -> [Actor -> ProcPC]] /\ monitorRv \in [Probe -> Nat]
  BY DEF Actor, TypeInv, TypeOK, ProbeTypeOK
(* A process that does not get to its patch of the monitor.                 *)
<1>a. ASSUME NEW a \in Actor, NEW to, Go(p, a, to), to # "unbreak",
             a = "parent" /\ to \in Aiming => proc[p]["parent"] \in Aiming,
             a = "parent" /\ to \in {"create", "break"} =>
               proc[p]["parent"] \in {"create", "break"} \/ shown = None,
             monitorRv' = monitorRv \/ (a = "parent" /\ to \notin Aiming /\
               \A q \in Probe : q # p => monitorRv'[q] = monitorRv[q]),
             readRv' = readRv \/ \E rv : Keeps(p, a, rv)
      PROVE  ProbeGoes(p, shown)
  <2>1. /\ proc'[p][a] = to /\ (\A b \in Actor : b # a => proc'[p][b] = proc[p][b])
        /\ \A q \in Probe : q # p => proc'[q] = proc[q]
    BY <1>a, GoFacts
  <2>2. /\ \A b \in Actor : b # a => readRv'[p][b] = readRv[p][b]
        /\ \A q \in Probe : q # p => readRv'[q] = readRv[q]
    BY <1>a, KeepsFacts
  <2> QED BY <1>0, <1>a, <2>1, <2>2 DEF ProbeGoes
<1>1. CASE Preflight(p, shown)
  <2>1. /\ proc'[p]["parent"] = "lock_get" /\ proc'[p]["watchdog"] = proc[p]["watchdog"]
        /\ \A q \in Probe : q # p => proc'[q] = proc[q]
    BY <1>0, <1>1, GoFacts DEF Preflight
  <2>2. /\ BreakReady(p) /\ readRv' = readRv
        /\ \A q \in Probe : q # p => monitorRv'[q] = monitorRv[q]
    BY <1>0, <1>1 DEF Preflight, BreakReady, Monitor, storeVars, effects
  <2> QED BY <1>0, <2>1, <2>2 DEF ProbeGoes
<1>2. CASE LockGet(p)
  <2>1. /\ proc[p]["parent"] = "lock_get" /\ monitorRv' = monitorRv
        /\ readRv' = readRv \/ \E rv : Keeps(p, "parent", rv)
        /\ \E to \in {"lock_patch", "raised"} : Go(p, "parent", to)
    BY <1>2 DEF LockGet, At
  <2> QED BY <1>0, <1>a, <2>1 DEF Aiming, SetUp
<1>3. CASE LockPatch(p)
  <2>1. /\ proc[p]["parent"] = "lock_patch" /\ monitorRv' = monitorRv
        /\ \E rv : Keeps(p, "parent", rv)
        /\ \E to \in {"spawn", "raised"} : Go(p, "parent", to)
    BY <1>3 DEF LockPatch, At, Calls
  <2> QED BY <1>0, <1>a, <2>1 DEF Aiming, SetUp
<1>4. CASE Spawn(p)
  <2>1. /\ proc[p]["parent"] = "spawn" /\ proc'[p]["parent"] = "recheck"
        /\ proc'[p]["watchdog"] = "waiting" /\ monitorRv' = monitorRv /\ readRv' = readRv
        /\ \A q \in Probe : q # p => proc'[q] = proc[q]
    BY <1>0, <1>4 DEF Spawn, At
  <2> QED BY <1>0, <2>1 DEF ProbeGoes, Aiming, SetUp
<1>5. CASE Recheck(p, shown)
  <2>1. /\ proc[p]["parent"] = "recheck" /\ UNCHANGED <<monitorRv, readRv>>
        /\ \E to \in {"create", "restore"} :
             Go(p, "parent", to) /\ (to = "create" => shown = None)
    BY <1>5 DEF Recheck, At
  <2> QED BY <1>0, <1>a, <2>1 DEF Aiming, SetUp
<1>6. CASE CreateRule(p)
  <2>1. /\ proc[p]["parent"] = "create" /\ UNCHANGED <<monitorRv, readRv>>
        /\ \E to \in {"break", "restore"} : Go(p, "parent", to)
    BY <1>6 DEF CreateRule, At, Calls
  <2> QED BY <1>0, <1>a, <2>1 DEF Aiming, SetUp
<1>7. CASE BreakMonitor(p)
  <2>1. /\ readRv' = readRv /\ \A q \in Probe : q # p => monitorRv'[q] = monitorRv[q]
        /\ \E to \in {"observe", "restore"} : Go(p, "parent", to)
    BY <1>0, <1>7 DEF BreakMonitor, Calls
  <2> QED BY <1>0, <1>a, <2>1 DEF Aiming, SetUp
<1>8. CASE StopObserving(p) \/ ParentKilled(p)
  <2>1. /\ UNCHANGED <<monitorRv, readRv>>
        /\ \E to \in {"restore", "killed"} : Go(p, "parent", to)
    BY <1>8 DEF StopObserving, ParentKilled
  <2> QED BY <1>0, <1>a, <2>1 DEF Aiming, SetUp
<1>9. CASE WatchdogReturns(p) \/ RollbackTime(p)
  <2>1. /\ UNCHANGED <<monitorRv, readRv>>
        /\ \E to \in {"restore", "done"} : Go(p, "watchdog", to)
    BY <1>9 DEF WatchdogReturns, RollbackTime
  <2> QED BY <1>0, <1>a, <2>1 DEF Aiming, SetUp
<1>10. ASSUME NEW a \in Actor, RestoreSteps(p, a)
       PROVE  ProbeGoes(p, shown)
  <2>1. CASE /\ monitorRv' = monitorRv
             /\ readRv' = readRv \/ \E rv : Keeps(p, a, rv)
             /\ \E to \in {"remove", "raised", "save", "release_get", "release_patch", "done"} :
                  Go(p, a, to)
    BY <1>a, <2>1 DEF Aiming, SetUp
  <2>2. CASE /\ OwnFault(p, store["monitor"]) /\ Keeps(p, a, store["monitor"].rv)
             /\ Go(p, a, "unbreak") /\ UNCHANGED storeVars /\ monitorRv' = monitorRv
    <3>1. /\ proc'[p][a] = "unbreak" /\ (\A b \in Actor : b # a => proc'[p][b] = proc[p][b])
          /\ \A q \in Probe : q # p => proc'[q] = proc[q]
      BY <2>2, GoFacts
    <3>2. /\ readRv'[p][a] = Monitor.rv
          /\ \A b \in Actor : b # a => readRv'[p][b] = readRv[p][b]
          /\ \A q \in Probe : q # p => readRv'[q] = readRv[q]
      BY <2>2, KeepsFacts DEF Monitor
    <3>3. UnbreakReady(p, a)
      BY <2>2, <3>2 DEF UnbreakReady, OwnFault, Monitor, storeVars, effects
    <3> QED BY <1>0, <2>2, <3>1, <3>2, <3>3 DEF ProbeGoes, Aiming, SetUp
  <2>3. CASE RestoreMonitorGet(p, a)
    BY <2>1, <2>2, <2>3 DEF RestoreMonitorGet
  <2>4. CASE UnbreakMonitor(p, a) \/ ReleasePatch(p, a)
    BY <2>1, <2>4 DEF UnbreakMonitor, ReleasePatch, Calls
  <2>5. CASE RemoveRule(p, a) \/ SaveRecovery(p, a)
    BY <2>1, <2>5 DEF RemoveRule, SaveRecovery, Calls
  <2>6. CASE ReleaseGet(p, a)
    BY <2>1, <2>6 DEF ReleaseGet
  <2> QED BY <1>10, <2>3, <2>4, <2>5, <2>6 DEF RestoreSteps
<1> QED BY <1>0, <1>1, <1>2, <1>3, <1>4, <1>5, <1>6, <1>7, <1>8, <1>9, <1>10
        DEF ParentSteps, WatchdogSteps

-----------------------------------------------------------------------------
(* What the patches to be sent take for granted.                            *)

LEMMA MonitorSoundKept ==
  ASSUME TypeInv, TypeInv', MonitorSound, DocumentsMove,
         probeVars' = probeVars \/ \E p \in Probe : ProbeGoes(p, active.run)
  PROVE  MonitorSound'
<1>0. /\ Monitor.rv \in Nat /\ Monitor'.rv \in Nat
      /\ Monitor' = Monitor \/ Monitor'.rv > Monitor.rv
  BY FieldFacts DEF DocumentsMove, Monitor, TypeInv, TypeOK, StoreTypeOK, Document
<1>1. /\ \A p \in Probe : monitorRv[p] \in Nat
      /\ \A p \in Probe, a \in Actor : readRv[p][a] \in Nat
      /\ "parent" \in Actor
  BY DEF TypeInv, TypeOK, ProbeTypeOK, Actor
<1>2. ASSUME NEW p \in Probe, proc'[p]["parent"] \in Aiming
      PROVE  FieldPremise("break", p, "monitor", monitorRv'[p], Monitor')
  <2>1. CASE proc[p]["parent"] \in Aiming /\ monitorRv'[p] = monitorRv[p]
    BY <1>0, <1>1, <2>1, PremiseMoves DEF MonitorSound
  <2>2. CASE BreakReady(p)
    BY <1>0, <2>2 DEF BreakReady, FieldPremise, Ready, Monitor
  <2> QED BY <1>2, <2>1, <2>2 DEF ProbeGoes, probeVars
<1>3. ASSUME NEW p \in Probe, NEW a \in Actor, proc'[p][a] = "unbreak"
      PROVE  FieldPremise("unbreak", p, "monitor", readRv'[p][a], Monitor')
  <2>1. CASE proc[p][a] = "unbreak" /\ readRv'[p][a] = readRv[p][a]
    BY <1>0, <1>1, <2>1, PremiseMoves DEF MonitorSound
  <2>2. CASE UnbreakReady(p, a)
    BY <1>0, <2>2 DEF UnbreakReady, FieldPremise, Ready, Monitor
  <2> QED BY <1>3, <2>1, <2>2 DEF ProbeGoes, probeVars
<1> QED BY <1>2, <1>3 DEF MonitorSound

(* A monitor marked by a probe is under its lock, so no run has the claim.  *)
LEMMA UnmarkedByClaim ==
  ASSUME TypeInv, LockInv, ProbeInv, abandoned \cap Probe = {}, Config.run # None
  PROVE  /\ Monitor.probe = None
         /\ \A p \in Probe : proc[p]["parent"] \notin SetUp
<1>1. Config.probe = None
  BY DEF LockInv, OwnedOnce, OneOwner
<1> QED BY <1>1, FieldFacts DEF ProbeInv, ProbeSafe, Monitor

LEMMA FieldSoundKept ==
  ASSUME TypeInv, TypeInv', LockInv, FaultInv, ProbeInv, NotYetMine, FieldSound, MarkedAlone,
         abandoned \cap Probe = {}, FieldStep, ControllerStep \/ UNCHANGED localVars
  PROVE  FieldSound'
<1>0. \A m \in flight' : Grounded(m)'
  BY DEF FieldStep
<1>1. CASE UNCHANGED localVars
  <2>1. pc' = pc /\ active' = active /\ seen' = seen /\ Due' = Due /\ seen \in Nat
    BY <1>1, DueKept DEF localVars, TypeInv, TypeOK, ControllerTypeOK
  <2>2. ASSUME NEW o \in Object, NEW kind, FieldPremise(kind, active.run, o, seen, store[o])
        PROVE  FieldPremise(kind, active.run, o, seen, store'[o])
    <3>1. /\ store[o].rv \in Nat /\ store'[o].rv \in Nat
          /\ store'[o] = store[o] \/ store'[o].rv > store[o].rv
      BY FieldFacts DEF FieldStep, DocumentsMove, TypeInv, TypeOK, StoreTypeOK, Document
    <3> QED BY <2>1, <2>2, <3>1, PremiseMoves
  <2>3. pc \in {"start_patch", "restore_patch"} => Due \in Object
    BY DEF TypeInv, AtTarget
  <2> QED BY <1>0, <2>1, <2>2, <2>3 DEF FieldSound
<1>2. CASE ControllerStep
  <2>0. ControllerGoes
    BY <1>2, ControllerPlaces
  <2>1. ASSUME pc' = "start_patch"
        PROVE  FieldPremise("journal", active'.run, Due', seen', store'[Due'])
    <3>1. /\ FieldGet /\ Due' = Due /\ seen' = store[Due].rv /\ store' = store
          /\ active' = active /\ store[Due].owner \in {None, active.run}
      BY <2>0, <2>1 DEF ControllerGoes
    <3>2. Due \in Object
      BY <2>1, <3>1 DEF TypeInv, AtTarget
    <3>3. Due \in todo
      BY <3>1, DueInTodo DEF FieldGet, TypeInv, TypeOK, ControllerTypeOK, AtTarget
    <3>4. pc \in Injecting
      BY <3>1 DEF FieldGet, Injecting
    <3>5. store[Due].owner = None
      BY <3>1, <3>2, <3>3, <3>4 DEF NotYetMine
    <3>6. Monitor.probe = None
      <4>1. Config.run # None
        BY <3>4, FieldFacts DEF FaultInv, Claimed
      <4> QED BY <4>1, UnmarkedByClaim
    <3>7. Ready("journal", active.run, Due, store[Due])
      BY <3>5, <3>6 DEF Ready, Unmarked, Monitor
    <3>8. store[Due].rv \in Nat
      BY <3>2, FieldFacts
    <3> QED BY <3>1, <3>7, <3>8 DEF FieldPremise
  <2>2. ASSUME pc' = "restore_patch"
        PROVE  FieldPremise("restore", active'.run, Due', seen', store'[Due'])
    <3>1. /\ RestoreGet /\ Due' = Due /\ seen' = store[Due].rv /\ store' = store
          /\ active' = active /\ Restorable(store[Due])
      BY <2>0, <2>2 DEF ControllerGoes
    <3>2. Due \in Object /\ active.run # None
      BY <3>1, FieldFacts DEF RestoreGet, TypeInv, AtTarget
    <3>3. Due = "monitor" => Monitor.probe = None
      BY <3>1, <3>2 DEF Restorable, MarkedAlone, Doubled, Monitor
    <3>4. Ready("restore", active.run, Due, store[Due])
      BY <3>1, <3>3 DEF Ready, Restorable, Unmarked, Monitor
    <3>5. store[Due].rv \in Nat
      BY <3>2, FieldFacts
    <3> QED BY <3>1, <3>4, <3>5 DEF FieldPremise
  <2> QED BY <1>0, <2>1, <2>2 DEF FieldSound
<1> QED BY <1>1, <1>2

LEMMA MarkedAloneKept ==
  ASSUME TypeInv, LockInv, FaultInv, ProbeInv, MarkedAlone, TurnedDown,
         abandoned \cap Probe = {}, FieldStep, ControllerStep \/ UNCHANGED localVars
  PROVE  MarkedAlone'
<1> SUFFICES ASSUME Doubled'
             PROVE  active'.run # Monitor'.owner
  BY DEF MarkedAlone
<1>1. /\ Monitor'.owner = Monitor.owner /\ Monitor.owner # None
      /\ Doubled \/ \E p \in Probe : proc[p]["parent"] = "break"
  BY DEF FieldStep, Doubled
<1>2. active.run # Monitor.owner
  BY <1>1 DEF MarkedAlone, TurnedDown, Free
<1>3. CASE active'.run \in {active.run, None}
  BY <1>1, <1>2, <1>3
<1>4. CASE \E r \in Run, plan \in Plans : Start(r, plan)
  BY <1>1, <1>4, StartMine, FieldFacts
<1>5. CASE AdoptPersisted
  <2>1. Config.run # None /\ Monitor' = Monitor
    BY <1>5 DEF AdoptPersisted, storeVars, effects, Monitor
  <2> QED BY <2>1, UnmarkedByClaim DEF Doubled
<1>6. UNCHANGED localVars => active' = active
  BY DEF localVars
<1> QED BY <1>3, <1>4, <1>5, <1>6, ControllerPlaces DEF ControllerGoes

LEMMA TurnedDownKept ==
  ASSUME TypeInv, LockInv, FaultInv, ProbeInv, TurnedDown, abandoned \cap Probe = {},
         \/ ControllerStep
         \/ Foreign /\ (proc' = proc \/ \E p \in Probe : ProbeGoes(p, active.run))
  PROVE  TurnedDown'
<1>0. None \notin Run /\ (pc # "idle" => active.run \in Run)
  BY StoreFacts DEF TypeInv, AtTarget
<1>1. CASE Foreign /\ (proc' = proc \/ \E p \in Probe : ProbeGoes(p, active.run))
  <2>1. active' = active /\ pc' = pc
    BY <1>1 DEF Foreign, localVars
  <2>2. Free => Free'
    <3>1. CASE active.run = None
      BY <2>1, <3>1 DEF Free
    <3>2. CASE /\ pc \in {"claim_get", "claim_check"}
               /\ active.run \notin abandoned /\ Monitor.owner # active.run
      <4>1. active.run \in Run
        BY <1>0, <3>2
      <4>2. active.run \notin abandoned'
        BY <1>1, <3>2, <4>1 DEF Foreign
      <4>3. ASSUME NEW r \in Run \ abandoned, Monitor.owner # r
            PROVE  Monitor'.owner # r
        <5>1. ~FaultAt(r, "monitor") /\ "monitor" \in Step /\ "monitor" \in Object
          BY <4>3 DEF FaultAt, Object, App, Step, Monitor
        <5>2. ~FaultAt(r, "monitor")'
          BY <1>1, <5>1 DEF Foreign
        <5> QED BY <5>1, <5>2 DEF FaultAt, Monitor
      <4> QED BY <2>1, <3>2, <4>1, <4>2, <4>3 DEF Free
    <3> QED BY <3>1, <3>2 DEF Free
  <2>3. ASSUME NEW p \in Probe, proc'[p]["parent"] \in {"create", "break"}
        PROVE  proc[p]["parent"] \in {"create", "break"} \/ active.run = None
    BY <1>1, <2>3 DEF ProbeGoes
  <2> QED BY <2>1, <2>2, <2>3 DEF TurnedDown, Free
<1>2. CASE ControllerStep
  <2> SUFFICES ASSUME NEW p \in Probe, proc[p]["parent"] \in {"create", "break"}
               PROVE  Free'
    BY <1>2 DEF TurnedDown, ControllerStep, probeVars
  <2>1. Free /\ Config.run = None
    BY UnmarkedByClaim DEF TurnedDown, SetUp
  <2>2. Config.probe # None
    <3>1. Config.probe = p
      BY DEF ProbeInv, ProbeSafe, SetUp
    <3> QED BY <3>1, FieldFacts
  <2>3. CASE \E r \in Run, plan \in Plans : Start(r, plan)
    <3>1. PICK r \in Run, plan \in Plans : Start(r, plan)
      BY <2>3
    <3>2. /\ r \notin abandoned /\ abandoned' = abandoned /\ store' = store
          /\ active'.run = r /\ pc' = "claim_get"
          /\ \A o \in Object : store[o].owner = None
      BY <3>1, StartMine
    <3>3. Monitor'.owner = None
      BY <3>2, FieldFacts DEF Monitor
    <3> QED BY <1>0, <3>2, <3>3 DEF Free
  <2>4. CASE ClaimGet
    <3>1. /\ pc' = "claim_check" /\ active' = active /\ pc = "claim_get"
          /\ store' = store /\ abandoned' = abandoned
      BY <2>2, <2>4 DEF ClaimGet, Unowned, ReadFails, storeVars, effects
    <3> QED BY <2>1, <3>1 DEF Free, Monitor
  <2>5. CASE ClaimCheck
    <3>1. active' = Idle
      BY <1>0, <2>1, <2>5 DEF ClaimCheck
    <3> QED BY <3>1 DEF Free, Idle
  <2>6. CASE ControllerCrash
    BY <2>6 DEF ControllerCrash, Free, Idle
  <2>7. ~AdoptPersisted
    BY <2>1 DEF AdoptPersisted
  <2>8. CASE RecoverActive
    BY <2>1, <2>8 DEF RecoverActive, Free
  <2>9. CASE \/ ClaimPatch \/ CheckMonitor \/ FieldGet \/ FieldPatch \/ PostFault \/ InsertJob
             \/ JobGet \/ JobPatch \/ Running \/ RecoverySteps
    <3>1. pc \notin {"idle", "claim_get", "claim_check"}
      BY <2>9 DEF ClaimPatch, CheckMonitor, FieldGet, FieldPatch, PostFault, InsertJob, JobGet,
                  JobPatch, Running, RecoverySteps, RestoreGet, RestorePatch, PostNormal,
                  DeleteJob, KeepRecovering, ClearGet, ClearPatch
    <3> QED BY <1>0, <2>1, <3>1 DEF Free
  <2> QED BY <1>2, <2>3, <2>4, <2>5, <2>6, <2>7, <2>8, <2>9
          DEF ControllerStep, ControllerNext, StartSteps
<1> QED BY <1>1, <1>2

-----------------------------------------------------------------------------
(* The invariant of the fields.                                             *)

LEMMA FieldInvInit ==
  ASSUME Init
  PROVE  NotYetMine /\ FieldInv
<1>1. /\ flight = {} /\ pc = "idle" /\ active.run = None /\ None \notin Run \cup Probe
      /\ \A o \in Object : /\ store[o].owner = None /\ store[o].probe = None
                           /\ store[o].val = opval[o]
      /\ \A p \in Probe, a \in Actor : proc[p][a] = "none"
      /\ "parent" \in Actor /\ Monitor = store["monitor"] /\ "monitor" \in Object
  BY StoreAssumption
     DEF Init, StoreInit, ControllerInit, ProbeInit, Idle, Deployed, Actor, Monitor, Object
<1>2. NotYetMine /\ FieldSound /\ MonitorSound
  BY <1>1 DEF NotYetMine, Claiming, Injecting, FieldSound, MonitorSound, Aiming, SetUp
<1>3. MarkedAlone /\ TurnedDown /\ Fields
  BY <1>1 DEF MarkedAlone, Doubled, TurnedDown, Fields, MarkOnBase, Kept
<1> QED BY <1>2, <1>3 DEF FieldInv

LEMMA AbandonedGrows ==
  ASSUME TypeInv, LockInv, [Next]_vars
  PROVE  abandoned \subseteq abandoned'
<1>1. \A m : Answered(m) \/ Failed(m) => abandoned \subseteq abandoned'
  BY CallCases
<1>2. CASE ControllerStep
  BY <1>1, <1>2, ControllerCalls
<1>3. CASE ProbeStep
  BY <1>1, <1>3, ProbeCalls DEF ProbeStep, ProbeNext
<1>4. CASE EnvironmentStep
  BY <1>4 DEF EnvironmentStep, Environment, Deliver, Discard, OperatorEdit, LeaseExpires
<1>5. CASE UNCHANGED vars
  BY <1>5 DEF vars, storeVars
<1> QED BY <1>2, <1>3, <1>4, <1>5 DEF Next

LEMMA FieldInvNext ==
  ASSUME TypeInv, TypeInv', LockInv, FaultInv, ProbeInv, NotYetMine, FieldInv, [Next]_vars
  PROVE  FieldInv'
<1> SUFFICES ASSUME abandoned' \cap Probe = {}
             PROVE  (FieldSound /\ MonitorSound /\ MarkedAlone /\ TurnedDown /\ Fields)'
  BY DEF FieldInv
<1>1. /\ abandoned \cap Probe = {} /\ FlightAbandoned
      /\ FieldSound /\ MonitorSound /\ MarkedAlone /\ TurnedDown /\ Fields
      /\ \A m \in flight : Grounded(m)
  BY AbandonedGrows DEF FieldInv, FieldSound, FaultInv
<1>2. ProbeStep => \E p \in Probe : ProbeGoes(p, active.run)
  BY ProbePlaces DEF ProbeStep, ProbeNext
<1>3. \/ ControllerStep /\ probeVars' = probeVars
      \/ ProbeStep /\ UNCHANGED localVars
      \/ EnvironmentStep /\ UNCHANGED localVars /\ probeVars' = probeVars
      \/ UNCHANGED vars
  BY DEF Next, ControllerStep, ProbeStep, EnvironmentStep, probeVars
<1>4. UNCHANGED vars =>
        /\ UNCHANGED localVars /\ probeVars' = probeVars /\ proc' = proc
        /\ UNCHANGED <<store, opval, flight, effects, abandoned>>
  BY DEF vars, storeVars, effects, probeVars
<1>5. FieldStep
  BY <1>1, <1>3, <1>4, ControllerField, ProbeField, EnvironmentField, QuietField
<1>6. ControllerStep \/ Foreign
  BY <1>3, <1>4, ProbeForeign, EnvironmentForeign, QuietForeign
<1>7. FieldSound' /\ MarkedAlone'
  BY <1>1, <1>3, <1>4, <1>5, FieldSoundKept, MarkedAloneKept
<1>8. MonitorSound'
  BY <1>1, <1>2, <1>3, <1>4, <1>5, MonitorSoundKept DEF FieldStep
<1>9. TurnedDown'
  <2>1. ControllerStep \/ proc' = proc \/ \E p \in Probe : ProbeGoes(p, active.run)
    BY <1>2, <1>3, <1>4 DEF probeVars
  <2> QED BY <1>1, <1>6, <2>1, TurnedDownKept
<1> QED BY <1>5, <1>7, <1>8, <1>9 DEF FieldStep

(* For any runs, probes, plans and bounds: until a call of a probe outlives *)
(* its timeout, or its setup the 240 seconds, what the operator last wrote  *)
(* to a field is in it, in its journal, or is the baseline that a probe's   *)
(* mark stands for, whatever calls of runs fail or arrive late and whatever *)
(* is edited meanwhile (_claim_fields, _restore_owned_fields, patch_monitor,*)
(* restore).                                                                *)
THEOREM OperatorValuesKept == Spec => []OperatorValueKept
<1>1. Init => NotYetMine /\ FieldInv
  BY FieldInvInit
<1>2. /\ TypeInv /\ LockInv /\ FaultInv /\ ProbeInv
      /\ (TypeInv /\ LockInv /\ FaultInv /\ ProbeInv)'
      /\ NotYetMine /\ FieldInv /\ [Next]_vars
      => (NotYetMine /\ FieldInv)'
  BY MineNext, FieldInvNext
<1>3. FieldInv => OperatorValueKept
  BY DEF FieldInv, Fields, Kept, OperatorValueKept
<1> QED BY <1>1, <1>2, <1>3, ProbeInvariant, PTL DEF Spec
=============================================================================
