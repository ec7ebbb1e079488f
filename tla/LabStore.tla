------------------------------ MODULE LabStore ------------------------------
(***************************************************************************)
(* The state the Lab's actors share, and the calls that change it.          *)
(*                                                                          *)
(* Three Kubernetes objects (the scenario ConfigMap, the metrics Service    *)
(* and the exporter ServiceMonitor) carry one configured value each, the    *)
(* ownership annotations that app/control.py and the external screenshot    *)
(* runner write, and a resourceVersion.  Every write to them is a patch     *)
(* that names the resourceVersion its author read.  Next to them are the    *)
(* fault modes of the applications, the lab_jobs rows of the runs and the   *)
(* temporary PrometheusRule.                                                *)
(*                                                                          *)
(* A call of a client (app/control.py times its calls out after 3 to 5      *)
(* seconds, kubectl after 20) is answered, or fails: refused, never sent    *)
(* ("drop"), carried out with the answer lost ("lost"), or carried out at   *)
(* some moment after its author gave up ("late").                           *)
(***************************************************************************)
EXTENDS Naturals, FiniteSets

CONSTANTS
  Run,         \* run identities of the controller (uuid4, each used once)
  Probe,       \* owner identities of external screenshot runs (uuid4)
  None,        \* no owner
  Outcomes,    \* what an unanswered call may have done
  MaxFaults,   \* bound: calls and reads that fail, setups that overrun
  MaxEdits,    \* bound: operator edits of the three objects
  MaxCrashes   \* bound: killed processes

ASSUME StoreAssumption ==
  /\ Run \cap Probe = {}
  /\ None \notin Run \cup Probe
  /\ Outcomes \subseteq {"drop", "lost", "late"}
  /\ MaxFaults \in Nat /\ MaxEdits \in Nat /\ MaxCrashes \in Nat

Object == {"config", "service", "monitor"}
App == {"inventory", "worker", "orders", "edge", "library"}
Step == Object \cup App \cup {"queue"}

(* The values a controlled field takes: what it was deployed with, what a   *)
(* Lab fault writes, and what an operator may write meanwhile.              *)
Base == "baseline"
Fault == "fault"
Edited == "edited"
Value == {Base, Fault, Edited}
OperatorValue == {Base, Edited}

Owner == Run \cup {None}
Locker == Probe \cup {None}

Document ==
  [rv: Nat,               \* metadata.resourceVersion
   run: Owner,            \* CONTROL_OWNER
   targets: SUBSET Step,  \* CONTROL_TARGETS
   job: BOOLEAN,          \* CONTROL_JOB_ID is recorded
   probe: Locker,         \* EXTERNAL_PROBE_OWNER
   owner: Owner,          \* FIELD_OWNER
   base: Value,           \* FIELD_BASELINE; FIELD_APPLIED is always Fault
   val: Value]            \* the value of the controlled field

Kind == {"claim", "journal", "restore", "note_job", "clear",
         "lock", "unlock", "break", "unbreak",
         "fault", "normal", "insert", "delete", "create", "remove"}

Message == [kind: Kind, to: Step \cup {"rule"}, rv: Nat,
            by: Run \cup Probe, targets: SUBSET Step]

VARIABLES
  store,      \* the three Kubernetes objects
  app,        \* the run whose fault mode an application is in, or None
  queue,      \* runs that have a row in lab_jobs
  rule,       \* the probe that owns the temporary PrometheusRule, or None
  flight,     \* calls their authors gave up on and that may still be carried out
  faults, edits, crashes,   \* what is spent of the three bounds
  cleared,    \* history: owners whose claim or lock has been removed
  abandoned,  \* history: interventions given up, by a timeout of theirs, while
              \* a call of theirs was still to be carried out
  opval       \* history: what the operator last wrote to each field

effects == <<store, app, queue, rule, cleared>>
storeVars == <<effects, flight, faults, edits, crashes, abandoned, opval>>

StoreTypeOK ==
  /\ store \in [Object -> Document]
  /\ app \in [App -> Owner]
  /\ queue \subseteq Run
  /\ rule \in Locker
  /\ flight \subseteq Message
  /\ faults \in Nat /\ edits \in Nat /\ crashes \in Nat
  /\ cleared \subseteq Run \cup Probe
  /\ abandoned \subseteq Run \cup Probe
  /\ opval \in [Object -> OperatorValue]

Deployed == [rv |-> 0, run |-> None, targets |-> {}, job |-> FALSE,
             probe |-> None, owner |-> None, base |-> Base, val |-> Base]

StoreInit ==
  /\ store = [o \in Object |-> Deployed]
  /\ app = [a \in App |-> None]
  /\ queue = {} /\ rule = None /\ flight = {}
  /\ faults = 0 /\ edits = 0 /\ crashes = 0
  /\ cleared = {} /\ abandoned = {}
  /\ opval = [o \in Object |-> Base]

-----------------------------------------------------------------------------
(* What a carried-out call does.                                            *)

ToObject(kind, o, rv, by) ==
  [kind |-> kind, to |-> o, rv |-> rv, by |-> by, targets |-> {}]
ToOther(kind, to, by) ==
  [kind |-> kind, to |-> to, rv |-> 0, by |-> by, targets |-> {}]
ClaimMessage(rv, by, targets) ==
  [kind |-> "claim", to |-> "config", rv |-> rv, by |-> by, targets |-> targets]

(* The merge patch or JSON patch of message m, applied to document d.       *)
Patched(d, m) ==
  CASE m.kind = "claim"    -> [d EXCEPT !.run = m.by, !.targets = m.targets]
    [] m.kind = "journal"  -> [d EXCEPT !.owner = m.by, !.val = Fault,
                                 !.base = IF d.owner = m.by THEN d.base ELSE d.val]
    [] m.kind = "restore"  -> [d EXCEPT !.owner = None, !.val = d.base, !.base = Base]
    [] m.kind = "note_job" -> [d EXCEPT !.job = TRUE]
    [] m.kind = "clear"    -> [d EXCEPT !.run = None, !.targets = {}, !.job = FALSE]
    [] m.kind = "lock"     -> [d EXCEPT !.probe = m.by]
    [] m.kind = "unlock"   -> [d EXCEPT !.probe = None]
    [] m.kind = "break"    -> [d EXCEPT !.probe = m.by, !.val = Fault]
    [] m.kind = "unbreak"  -> [d EXCEPT !.probe = None, !.val = Base]

(* The server's precondition: the resourceVersion of an object, an absent   *)
(* rule, and, of the applications, only the library looks at the run.       *)
Accepts(m) ==
  /\ m.to \in Object => store[m.to].rv = m.rv
  /\ m.kind = "create" => rule = None
  /\ m.to = "library" => app["library"] \in
                           (IF m.kind = "fault" THEN {None} ELSE {None, m.by})

PerformObject(m) ==
  /\ m.to \in Object
  /\ store' = [store EXCEPT ![m.to] = [Patched(@, m) EXCEPT !.rv = store[m.to].rv + 1]]
  /\ cleared' = IF m.kind \in {"clear", "unlock"} THEN cleared \cup {m.by} ELSE cleared
  /\ UNCHANGED <<app, queue, rule>>

PerformApp(m) ==
  /\ m.to \in App
  /\ app' = [app EXCEPT ![m.to] = IF m.kind = "fault" THEN m.by ELSE None]
  /\ UNCHANGED <<store, queue, rule, cleared>>

PerformQueue(m) ==
  /\ m.to = "queue"
  /\ queue' = IF m.kind = "insert" THEN queue \cup {m.by} ELSE queue \ {m.by}
  /\ UNCHANGED <<store, app, rule, cleared>>

PerformRule(m) ==
  /\ m.to = "rule"
  /\ rule' = IF m.kind = "create" THEN m.by ELSE None
  /\ UNCHANGED <<store, app, queue, cleared>>

Perform(m) == PerformObject(m) \/ PerformApp(m) \/ PerformQueue(m) \/ PerformRule(m)

-----------------------------------------------------------------------------
(* What the author of a call sees.                                          *)

Answered(m) ==
  /\ Accepts(m) /\ Perform(m)
  /\ UNCHANGED <<flight, faults, edits, crashes, abandoned, opval>>

Refused(m) == ~Accepts(m) /\ UNCHANGED storeVars

SpendFault ==
  /\ faults < MaxFaults
  /\ faults' = faults + 1
  /\ UNCHANGED <<edits, crashes, opval>>

Unanswered(m) ==
  /\ SpendFault
  /\ \/ /\ "drop" \in Outcomes
        /\ UNCHANGED <<effects, flight, abandoned>>
     \/ /\ "lost" \in Outcomes
        /\ Accepts(m) /\ Perform(m)
        /\ UNCHANGED <<flight, abandoned>>
     \/ /\ "late" \in Outcomes
        /\ flight' = flight \cup {m}
        /\ abandoned' = abandoned \cup {m.by}
        /\ UNCHANGED effects

Failed(m) == Refused(m) \/ Unanswered(m)

(* A GET that raises.                                                       *)
ReadFails == SpendFault /\ UNCHANGED <<effects, flight, abandoned>>

-----------------------------------------------------------------------------
(* Steps of the environment.                                                *)

(* A call whose author gave up is carried out after all.                    *)
Deliver(m) ==
  /\ m \in flight
  /\ Accepts(m) /\ Perform(m)
  /\ flight' = flight \ {m}
  /\ UNCHANGED <<faults, edits, crashes, abandoned, opval>>

(* ... or refused, or never reaches its server.                             *)
Discard(m) ==
  /\ m \in flight
  /\ flight' = flight \ {m}
  /\ UNCHANGED <<effects, faults, edits, crashes, abandoned, opval>>

(* An operator edits a controlled field (never to the Lab's fault value).   *)
OperatorEdit(o, v) ==
  /\ edits < MaxEdits
  /\ v # store[o].val
  /\ store' = [store EXCEPT ![o].val = v, ![o].rv = @ + 1]
  /\ opval' = [opval EXCEPT ![o] = v]
  /\ edits' = edits + 1
  /\ UNCHANGED <<app, queue, rule, cleared, flight, faults, crashes, abandoned>>

(* The lease of an application ends its fault mode on its own.              *)
LeaseExpires(a) ==
  /\ app[a] # None
  /\ app' = [app EXCEPT ![a] = None]
  /\ UNCHANGED <<store, queue, rule, cleared, flight, faults, edits, crashes,
                 abandoned, opval>>

Environment ==
  \/ \E m \in flight : Deliver(m) \/ Discard(m)
  \/ \E o \in Object, v \in OperatorValue : OperatorEdit(o, v)
  \/ \E a \in App : LeaseExpires(a)
=============================================================================
