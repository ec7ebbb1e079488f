# Verification of fcapsule-lab

fcapsule-lab is a Kubernetes laboratory that injects bounded faults into a small
order application, records its own interventions apart from the telemetry, and puts
everything back. This directory holds TLA+ models of the program, the TLC
configurations that check them on small instances, and TLAPS proofs for every value of
the constants. The reference is the Python source; the comments of the modules name the
functions they translate, and `PROJECT.json` maps every definition to its lines.

Run a check with `tlc -config MC<Module>_<run>.cfg MC<Module>`, a proof with
`tlapm <Module>Proofs.tla`.

## 1. The system

    operator --UI/HTTP--> lab-control --HTTP /mode--> orders, inventory, worker, library, edge
                              |  \--MySQL--> lab_jobs ---------> worker
                              \--K8s API--> ConfigMap, Service, ServiceMonitor <-- screenshot runner
    traffic --HTTP--> orders-api --HTTP--> inventory-api --MySQL--> stock, reservation_events

| component | state | operations | what is hard | what makes it correct |
|---|---|---|---|---|
| lab-control (`app/control.py`) | `active` run in memory; the claim, its targets, job id and expiry as annotations on the scenario ConfigMap; a field journal on the Service and the monitor | start, inject per target, recover, watchdog, adopt a claim at startup | every step is a call that may fail, be carried out late or lose its answer; a restart between any two; operators edit the same fields | one owner of the Lab; a fault is under a durable claim; operators' values survive; recovery ends |
| screenshot runner (`tools/evaluate_external_screenshot.py`) | a lock annotation, a temporary rule, a broken monitor; `run.json`, `recovery.json` | lock, break, restore and release by the parent or by the watchdog process | parent and watchdog restore at the same time; either dies | the fault does not outlive the lock, and is rolled back |
| orders-api (`app/orders.py`) | idempotency store (ordered, bounded, with a time to live), condition variable, mode and lease, metrics | checkout, set_mode, lease thread | waiters, eviction, failure of the request others wait for, mode changes under way | one request at work per key, its answer replayed; nobody waits in vain; counters add up |
| inventory-api (`app/mysql_inventory.py`) | one reservation slot, one reused session, held sessions, collision token and owner, mode and lease; stock and reservation rows in MySQL | reserve, set_failure_mode, reconciliation, connection storm, lease thread | sessions handed around by threads while modes change; lost commit answers; clean-up of what a mode wrote | sessions are neither shared nor leaked; stock and rows agree; only the owner of a row is told "reserved" |
| lab-worker (`app/worker.py`) | mode, backlog, retained pages, mode thread and stop event, lease; `lab_jobs` | set_mode, three mode loops, heartbeat, job loop | joins that time out, threads that end their own mode, redelivery | one mode thread; faults confined to their mode; imports exactly once |
| library runtime (`app/library_runtime.py`) | the active case and its lease; the thread that attempts it | start, recover, tick | an attempt is made without the lock, of a case that may have ended | at most one attempt of a case that has been recovered |
| traffic (`app/traffic.py`) | slot counter, thread pool | claim_slot, run_request | slots released on every path, a timeout or an exception included | no slot is lost or given back twice; the load stays within the safe limit |
| CNFC edge (`app/cnfc_edge.py`) | route and lease of each replica; its probe thread | set_mode, probe | lease and route are read under the lock and used after it | at most one probe of a fault route that has been reset |
| demo suite (`tools/run_operator_demos.py run`) | its round and what it must raise; `traffic-generator.json`, `injection-attempt.json`, `recovery.json` | preflight, isolate, start, scale the generator up and down, observe, recover, next round | a signal or a lost answer in any call; operators edit the same Deployment; the status it acts on is old | a round reported over is over; later edits are kept; a generator left running is journaled and reported |
| paid commands (`tools/run_operator_demos.py`: await_assessment, attach, reassess, history, history-status) | output directories and files; the product's revisions, attachments and reviews | upload, wait for the extraction, reassess, compare | commands run twice, at once or after a crash; the product revises by itself | a directory is paid for once; what is compared is comparable |
| scenario runner (`tools/run_scenarios.py`) | its case and ownership record | settle, start, reconcile, observe, recover | a start whose answer is lost lands later | a settled case leaves no run and no start behind |

The other parts (evaluation and scoring, exports, deployment scripts, UI, catalogs, the
PostgreSQL predecessor of the inventory) are listed in `PROJECT.json` with the reason they
are not modelled.

Components meet in four ways: HTTP calls from the controller to the services, which set
a mode with a lease; annotations with a resourceVersion on Kubernetes objects, written by
controller, screenshot runner and operators; rows in MySQL (`lab_jobs`, inserted and
deleted by the controller and consumed by the worker); and HTTP calls along
traffic, orders, inventory. The tools are further clients of lab-control, and the demo suite
also scales the traffic generator with kubectl.

## 2. The modules

**Ownership of the Lab.**
`LabStore` holds what the API server, the services and MySQL keep and what a call does to
it: a call is a message that is carried out and answered, refused, carried out with its
answer lost, dropped, or left in flight to be carried out later (`Answered`, `Refused`,
`Unanswered`, `Deliver`, `Discard`). `LabController` is lab-control: one action per
network call of start (`ClaimGet`, `ClaimPatch`, `FieldGet`, ...) and of recover
(`RestoreGet`, ..., `ClearPatch`), the watchdog's decisions and `ControllerCrash`.
`ExternalProbe` is the screenshot runner: a parent and a watchdog process with the same
restoration. `LabOwnership` composes them with operators, leases and the network, and
states the properties. `LabLock` is the abstract specification: a lock whose past owners
never own it again. The code serialises the controller's operations by one lock in one
process, and there is one replica (docs/ARCHITECTURE.md), so the controller has one
program counter; `seen` and `readRv` keep the resourceVersion a step has read, since that
is what makes a later patch stale.

**Checkout.** `Orders` is `app/orders.py`. An entry of the store is identified with the
request that made it, so that "what the key holds" (`index`) and "the entry I made"
(`entry`) can differ, as with the dictionaries of the code. The critical sections under
the condition variable are one action each (`Enter`, `Reenter`, `Store`, `Finish`);
`older` is the order of the `OrderedDict`. An attempt has three outcomes (reserved, to be
retried, not to be retried), time to live and deadline are steps that may happen. `SetModeFails`
is set_mode with a duration that is not a number, which raises after the mode is assigned.
`IdempotentCheckout` is the abstract specification: per key one job at work or a
remembered result, which may be forgotten.

**Worker.** `Worker` is `set_mode` with the mode threads (numbered by episode), the
two-second join as a choice while the thread lives (`Replace` or `Refuse`), the heartbeat
thread and a restart. A leaking thread checks its mode, limit and stop event and appends its page in two
steps (`CheckBuffer`, `Retain`): both are under `_lock`, but the event is set without it. `ImportQueue` is the job loop over `lab_jobs`; `WorkerProcess`
composes the two, which share only the life of the process.

**Inventory.** `Inventory` is `app/mysql_inventory.py`: a reservation goes through key,
slot, token, session, transaction, return of the session, record of the owner (or the
look-up after a duplicate key) and release of the slot, one action for each lock or
statement between which other threads run; `set_failure_mode` is a sequence of steps under
its own lock; tasks are the background threads, one per mode in force. The mode change clears
token and owner outside `_lock`, so recording an owner is a check (`Record`) and an assignment
(`RecordOwner`), and clearing is two assignments, which interleave. A transaction is
one step: MySQL makes it so. A session is counted until its holder gives it up; closing
it cannot fail in a way the code notices. A reservation that was refused is forgotten
when it ends, and the kinds of refusal are not told apart: no property speaks of them.

**Tools and small services.** `LabApi` is lab-control as its clients see it: the owner of the
run it is busy with and the start requests that wait for its lock, which may be carried out
after their client has given up. `OwnedTraffic` is the generator's Deployment with the
runner's journal of it and the guards of the scale calls; `DemoSuite` is the suite, one
action per remote call or poll; `ScenarioRunner` is one case of the other runner;
`OperatorTools` composes them over one lab-control and one Deployment, beside an operator who
edits the Deployment and a watchdog that ends runs, and states what a tool must not do to the
others. `AssessmentReview` is the wait for an assessment and the commands attach and reassess,
which are processes of their own over shared directories and over a product that revises its
assessment by itself; `SourceReview` is history and history-status. `LibraryRuntime`,
`CnfcEdge` and `TrafficLoad` are one module for each service, with one action per critical section
and the unlocked work between two as an action of its own. `LabParts` puts them
together for checking: `OperatorTools`, the two paid parts and the three services share no
state, so `part` names the one a behaviour is about (`Part` is the set explored), and the others keep
their initial state. What it says of each part holds of any interleaving of them, since no
action of one reads another's variables.

`MCLabOwnership`, `MCOrders`, `MCWorker`, `MCInventory`, `MCLabParts` give the constants to
TLC. `LabOwnershipProofs`, `LabLockProofs`, `LabFaultsProofs` (each on top of the one before),
`OrdersProofs`, `WorkerProcessProofs`, `InventoryProofs`, `OperatorToolsProofs` and, on top of that one,
`LabPartsProofs` hold the proofs. Every invariant and every action property that a run checks is a theorem there.

## 3. The runs

| run | configuration | shows |
|---|---|---|
| controller | MCLabOwnership_controller | Two runs, two failed, lost or late calls, an edit, a restart: `OperatorValueKept`, `FaultsAreClaimed`, `RunIsDurable` |
| probe | MCLabOwnership_probe | Two screenshot runs against a controller run, a failed call or a setup overtaken by its rollback, a death: `ProbeFaultsAreLocked`, and the two kinds of owner implement `LabLock` together |
| progress | MCLabOwnership_progress | With fairness, refused calls, an edit and a death: `OperatorValueKept`, `RecoveryCompletes`, `ClaimIsReleased`, `FaultIsRolledBack` |
| checkout | MCOrders_safety | Three requests, three names, a store of two: `WaitsForWork`, `CapacityIsUsed`, `Orders` implements `IdempotentCheckout` |
| checkout_modes | MCOrders_modes | Two requests with retries, a store of one, two mode changes that may fail half-way: `MetricsAddUp`, `EveryCheckoutAnswered`, `LeasedModeEnds` |
| worker | MCWorker_process | Two calls of set_mode, a healthy and a poisoned import, a fault: the safety of modes and queue, `LeaseIsEnforced` as long as the heartbeat lives, `StoppedThreadEnds`, `HealthyImportsComplete` |
| reservations | MCInventory_reservations | Two reservations, the last item, two mode changes, a failure of MySQL: sessions, stock, rows and collision owners |
| parts | MCLabParts_parts | A suite of three rounds (exporter, traffic, plain) beside a scenario runner and an operator: `FinishedRunsAreOver`, `LaterEditsAreKept`, `ScaleUpIsJournaled`, `LeftTrafficIsReported`. Two attach, one of them incremental, with reassess and history: `PaidOnce`, `LinkedMeansComparable`. Library, edge and load generator: `LateWorkIsBounded`, `SlotsAreReturned` |
| late_call, lost_clear, lock_leak, worker_lease | see section 5 | what the documentation says and the code does not do |

**Bounds.** `MaxFaults`, `MaxCrashes`, `MaxEdits`, `MaxChanges`, `MaxCalls` and `MaxModes`
bound the failures, restarts, operators' edits and mode changes of a behaviour (a probe's setup
that outlasts its rollback time counts as a failure, being made of calls that hang); they
appear as guards of the actions that spend them and nowhere else. Two parties are enough for an
ownership conflict and a third call, edit or death for the window between its steps: every
finding below needs one of each. For the store, three requests let one work, one wait
and one evict; a capacity of two has an entry to keep and one to evict. Two mode changes
are the least that let a lease that has been read meet a newer mode. One item of stock
makes the second reservation meet an empty shelf and a duplicate alike. `Target` (at least
four in the code) is one: the storm's rule does not depend on how many sessions it holds.
In `parts`, three rounds are the fewest with one of each kind of case and a successor; two
faults let a call fail and the recovery after it fail too; one edit lands in any window of a round
(the guards under test read a generation once); waits of two reads let one succeed, be extended and run out;
three revisions are the assessed one, its successor and one that comes between; two attachments
are the command's own and a foreign one; two replicas and three route changes let a mode
be set between a read and the reset that follows; three requests against a limit of two let one be shed.
Symmetry is used only in runs without liveness properties, over parties that the
specification treats alike. `CHECK_DEADLOCK FALSE` stands where all runs,
requests or calls of an instance may be used up.

**Fairness.** `LabOwnership`: the thread that holds the controller's lock goes on, since each of
its calls has a timeout; the watchdog thread wakes every five seconds; the processes of a
screenshot run go on until they end; leases run out. Starting a run, editing, dying and
late delivery are not promised. `Orders`: requests have deadlines and their attempts have timeouts;
the lease thread wakes every second. `WorkerProcess`: threads run, a join ends one way or the
other, and the job loop polls for ever; for `HealthyImportsComplete` also that the
controller's recovery, which is retried, eventually gets the row lock between two
deliveries (strong fairness, since the row is unlocked again and again).

**Mutants.** Each property of a passing run is paired with a mutation of the modelled code
that it refutes: a dropped guard, a swapped order, a missing reset or notification. They
are the operators marked "Mutated" next to the definitions they replace.

## 4. What is proved

TLAPS proves these for all values of the constants, from the assumptions named in the modules
(finite sets of parties, natural bounds, constants that differ).

* `LabOwnershipProofs!TypeCorrect`: the types of documents, messages and local variables.
  The types alone are not inductive: what a call in flight does to an object depends on who may
  send it, so `TypeInv` adds, for every message, that its kind fits its sender and target.
* `LabLockProofs!OwnedByOne`, `LockImplemented`: a controller claim and a lock never coexist,
  and the annotations implement `LabLock`. The inductive invariant `LockInv` says: each
  party has at most one acquiring call, sent or to be sent, until it owns the Lab
  (`OneClaimEach`); each call in flight, and each about to be sent, names a resourceVersion
  at which its premise held (`FlightSound`, `ControllerSound`, `ProbeSound`). It is needed
  because calls land late: only the resourceVersion keeps one from acquiring a Lab that has
  changed since it was sent. The proof covers a rollback that overtakes its parent's setup.
* `LabFaultsProofs!FaultsClaimed`, `RunDurable`: from `FaultInv`. A call of a run that is still in
  flight when nobody waits for it has been given up (`FlightAbandoned`); a run that has been given up is
  past its start (`AbandonedLate`); the run in memory is the persisted one from the moment it may have touched anything
  (`Claimed`); each fault is where a recovery of its run will look, on a persisted target,
  in an application or in the queue (`Covered`); and a recovery without an error still has each
  fault ahead of it (`Progress`). The last is what the removal of the claim needs: `clear_patch` is sent when
  nothing is left to do and nothing has failed.
* `LabFaultsProofs!ProbeFaultsLocked`: from `ProbeInv`. A probe is abandoned when a call of it outlives
  its timeout or the rollback begins while its parent is in its setup (`RollbackTime`). Of one that is not, the
  watchdog waits until the parent is past its setup, a parent in its setup has the lock, and each stage of a
  restoration, the parent's or the watchdog's, knows what is gone already (`ProbeSafe`). `OperatorValuesKept`, with
  the same exemption in the property: each patch in flight or about to be sent names a version at
  which its premise about the field held (`FieldSound`, `MonitorSound`), and a mark of a probe stands on the
  baseline (`MarkOnBase`), where a run that has a journal too is no longer in memory (`MarkedAlone`).
* `OrdersProofs!NobodyWaitsInVain`, `CheckoutImplemented`: from the invariant that every
  stored entry is of a request that is at work under the key or done with success
  (`Indexed`), that a waiting request has one at work on the same order (`Waits`), that
  the local variables fit the program counter (`LocalInv`) and that fault keys belong to past
  episodes (`Episode`). `CheckoutImplemented` maps each action of the store to a step or a stutter
  of `IdempotentCheckout`; evictions and prunings together with the step that made them are
  one abstract step.
* `OrdersProofs!MetricsAgree`, `CapacityUsed`: the counters move with one request at a time, and
  entries under different keys are of different requests, so that the store is no
  larger than the finite set of requests and a store without anything completed is full of
  requests at work.
* `WorkerProcessProofs!TypeCorrect`, `OneThread`, `FaultConfined`: from a
  migration that closes having no backlog (`ClosingIsDone`) and a count of mode changes
  still owed by calls and leases (`Counted`), without which the numbered episodes could
  run out.
* `WorkerProcessProofs!ProcessTypeCorrect`, `JobsAreImportedOnce`, `RowsAreNotLost`: the
  invariant of the worker's modes beside that of the queue (`QueueInv`), in which no row stands twice
  in the queue (so that deleting one takes it out) and a delivery holds a row that is still there.
  `ProcessImplementsWorker`: a step of the process is one of the modes or leaves them alone, so
  that each theorem about the modes holds beside the queue (`ProcessModesAreSafe`).
* `InventoryProofs!SessionsEndWithMode`, `OwnerIsHolder`, `ReservedIsWritten`: from the row
  behind what a request knows once it has written (`HasRow`), which is also behind an owner that is
  recorded late, beside a later token or none, the collision tokens of episodes
  to come being nobody's (`TokensFresh`, with `Counted` as for the worker), what a mode change
  has read being the token of the mode it ends (`ChangeSound`), and every task but that of
  the mode in force having been told to stop (`TaskSound`).
* `InventoryProofs!StockIsAccounted`, `SessionsHaveOwners`: each step moves one unit between the terms
  of the sum. A collision token that a mode change deletes has not been
  removed before (`StockInv`); the slot of the normal mode lets one request or
  reconciliation in at a time, so the pooled session never has two users (`SlotInv`).
* `InventoryProofs!TypeCorrect`: that the storm holds no more than its target is not a matter of types. It looks at
  the target before it opens a session and keeps the session under the lock later; that
  nothing is added in between needs that only the storm of the mode in force may keep one (`HeldInv`),
  and that stock does not fall below zero or rise above what there was needs the sum of `StockAddsUp`.
* `LabPartsProofs!LateWorkBounded`: a run is requested once, so one that has had its late failure is
  neither active nor being attempted (`LibraryInv`); a probe that still holds the fault url has
  seen no stray probe (`EdgeInv`). `SlotsReturned`: the counter is the number of requests that hold
  a slot, and those that hold one are at most the pool (`LoadInv`); it needs the
  set of requests to be finite. `PaysOnce`: two commands that are uploading are in different
  directories, a directory that does not exist has paid for nothing, and a command about to pay
  stands before its directory's first request of that kind (`PaidInv`, `SourceInv`).
* `LabPartsProofs!LinkedComparable`: from `LinkedInv`, which says for each stage of an attach what it has
  learned by then (`Comparable`): the baseline is the accepted assessment, the attachment stays where it
  was put and is ready, revisions younger than the one that was rechecked have seen it, it stands first if the
  command saw it alone, and the one queued is younger than the accepted one. Each of these lasts
  because the product appends revisions and attachments and never takes one back (`Grows`). It
  assumes that a process is not an attach and a reassess at once (`ReviewAssumption`). `PartsTypeCorrect` rests on
  `OperatorToolsProofs!ToolsTypeCorrect`, and `PartsImplementTools` shows that a
  behaviour of the parts is one of `OperatorTools`, so that the next theorems hold in the composition too.
* `OperatorToolsProofs!ScaleUpJournaled`, `LeftTrafficReported`, `LaterEditsKept`: for any number of
  rounds, failed calls, signals and edits. A resource version stands for one state of the Deployment:
  while it is still the one a round has prepared on, object and generation are the prepared ones too
  (`VersionsName`). Rounds scale up one after the other and none again once it has restored
  (`WriterFits`), and what was not restored is on record from there on (`Reported`). The rounds
  are assumed to be positive numbers with 1 among them (`SuiteAssumption`), as 0 marks an
  operator's edit. `FinishedAreOver`: from a round having no request before it posts and none left once it
  is answered (`SuiteOver`), and an active case having no request left (`CaseOver`); it needs
  the owners to differ from each other and from nobody (`ToolsAssumption`).

Only model-checked: all liveness, since fairness and ENABLED are beyond the prover. What the runs of
section 5 refute is of course not proved. No module uses a RECURSIVE operator.

## 5. Where code and documentation disagree

Each is a run that TLC must find violated; `PROJECT.json` quotes the sentences.

1. `late_call`: a journal patch that timed out can be carried out after its run's recovery,
   leaving a label at its fault value and an owner that blocks later starts.
2. `lost_clear`: if the answer to the patch that clears the claim is lost, every retry of the
   recovery fails on the missing claim until lab-control restarts.
3. `lock_leak`: a parent killed between writing `recovery.json` and releasing its lock leaves the
   Lab locked; the watchdog takes the file for a finished restoration.
4. `worker_lease`: `set_mode` raises in the heartbeat thread when a mode thread outlasts its
   two-second join; the thread dies and no lease is enforced any more.

More disagreements are not runs. Two are read off the code, since nothing happens in between that a
model could show: import jobs have no expiry in the worker; and when another run is active at
the end of a round, `recover_owned` raises before it restores the traffic
(tools/run_operator_demos.py:778), so that the generator keeps its replica, where
docs/OPERATOR_DEMOS.md:121-123 has it always restored. `LeftTrafficIsReported` checks that the round says so.
Four limits are in the models, and TLC refutes the stronger statement in each case:

* An operator's scale-up may be undone. When the round's own call was refused, no generation is recorded
  and the next one after the prepared one is taken for the round's
  (tools/run_operator_demos.py:383-387), and the generation that is recorded is whatever is read first
  after the call (343-347): an operator's own change from 0 to 1 is then scaled down, against line 381
  ("preserving the operator's value") and the guards of docs/OPERATOR_DEMOS.md:121-123. TLC refutes "a scale-down
  applies to the round's own scale-up"; `LaterEditsAreKept` says what is left: no edit after
  the change taken for the scale-up is undone.
* A round whose start got no answer goes on to be confirmed if the status shows no run, and the suite goes on
  to the next round (unless it was interrupted), although the start may still be carried out. Its
  error is on record, so `FinishedRunsAreOver` does not speak of it; the run it leaves ends with its lease.
* `set_mode` of Orders assigns the mode before it converts the duration (app/orders.py:133-140): a malformed
  duration is refused with the fault mode in force under the lease of the mode before, and after the
  normal mode with none. `LeasedModeEnds` therefore speaks of modes with a lease; without that, TLC finds
  the fault mode that never ends.
* A screenshot run whose setup takes longer than its 240 seconds (the timeouts and retries of its calls
  add up to more) creates its rule and breaks the monitor after its watchdog has restored and released them.
  The rollback then records it as abandoned, and `ProbeFaultsAreLocked`, `OperatorValueKept`, `RecoveryCompletes` and
  `ClaimIsReleased` exempt it: TLC refutes each of them otherwise. What follows is that the value it leaves
  on the monitor is taken for an operator's and blocks the recovery of a later run until somebody removes it.

In the inventory, a mode change clears token and owner outside the lock (app/mysql_inventory.py:234-235) while a request
may be between its check and its assignment (585-586): a stale owner then stands beside the
next token. The clean-up at the end of that next mode looks for the stale owner under the new token, finds no row, and leaves
the stale owner's row, and if no other owner was recorded the next mode's own row, behind. No document promises otherwise;
`OwnerHoldsRow` says that an owner on record has a row all the same, and `StockAddsUp` counts such rows.

## 6. What is not modelled, and why

* Exceptions outside the handlers' classes that end a thread (broken HTTP replies in the
  controller's watchdog, unforeseen errors in the job loop): listed as hazards where they bite.
* The deadlock mode's transaction pairs, the sampler and schema checks of the inventory; latency
  windows, text of metrics, HTTP front ends, and validation that refuses a request before anything is
  assigned: no property depends on them. Where it comes later (`SetModeFails` in Orders) it is modelled.
* Time is not counted: leases, deadlines and timeouts are steps that may happen at any moment
  after they are armed, so what holds here holds for all durations, and nothing is said of how long.

* Tools: `Fails` and `ReaderFails` stand for a refused check, a lost answer, a wait that
  timed out and a kill alike. attach and the others start once an assessment has been
  accepted; a refused command leaves nothing behind and may be run again. A kubectl call that is
  carried out after its own timeout is not modelled (the timeout ends the process that sends it).
  The scenario runner has one case. Captures, retained logs and metrics, scoring of the
  results, the gap and the two rounds of query-rollout-history, retain-prior and the requests for
  investigations are left out: they read only, or write files nobody reads back. That
  `await_assessment` ends is not asserted: its deadline is capped, so it holds by construction.
* Services: rates, latencies and counters by status of the traffic generator, the library's
  catalog and the mechanisms of its cases (an attempt fails, or for `resource_cpu` may succeed).

## 7. Plan

Modelled first was what can do lasting harm (the ownership protocol), then the paths every
order takes, then the tools and the small services. Left, in this order:

1. Inventory: liveness (a failure mode ends, a reservation is answered) in an instance of its
   own; the deadlock pairs.
2. `OrderPath`: `Orders` and `Inventory` composed over lossy calls, implementing an abstract
   `Reservation` in which a completed checkout took stock exactly once.
3. `AppLease`: the lease thread that orders, inventory, worker, library and edge share, as one abstract
   specification that each implements, with the window between reading and resetting.
4. `LabParts` over the real controller: `LabApi` refined by `LabController`.
5. Pure functions as operators against reference definitions: the saturation target, percentile,
   lease bounds, scoring.

Runs are merged where they ask one question of one component, so that the number of runs stays
small as components are added.
