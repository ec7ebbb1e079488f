------------------------------ MODULE Inventory ------------------------------
(***************************************************************************)
(* Reservations in the Inventory API (app/mysql_inventory.py): concurrent   *)
(* requests, the one reservation slot, the reused MySQL session, the stock  *)
(* and reservation_events in MySQL, and the failure modes with their tasks, *)
(* their lease and what they have to clean up.                              *)
(***************************************************************************)
EXTENDS Integers, FiniteSets

CONSTANTS
  Request,     \* calls of GET /reserve
  Order,       \* order ids
  None,        \* no token, no owner, no row
  Stock,       \* quantity at the start
  Target,      \* _connection_saturation_target
  Modes,       \* the failure modes that are asked for
  MaxChanges,  \* bound: mode changes by operators
  MaxFaults    \* bound: failures of MySQL

(* Of FAILURE_MODES, those that differ in what the tasks and the            *)
(* reservations do; the rest behave like configured.                        *)
Mode == {"normal", "configured", "connection-saturation", "token-collision", "lock-contention"}

ASSUME ModesAssumption == Modes \subseteq Mode

(* Modes in force one after the other: an operator's is followed by at most *)
(* one that the lease thread sets.                                          *)
Episode == 0 .. 2 * MaxChanges

(* Primary keys of reservation_events: one per order, one per episode of    *)
(* the token-collision mode.                                                *)
Token == {"order"} \X Order \cup {"collision"} \X Episode

ASSUME InventoryAssumption ==
  /\ None \notin Order \cup Token
  /\ IsFiniteSet(Request)
  /\ Stock \in Nat /\ Target \in Nat \ {0}
  /\ MaxChanges \in Nat /\ MaxFaults \in Nat

VARIABLES
  fault,     \* the mode in force, its collision token and owner, its lease
  change,    \* the set_failure_mode that holds _operation_lock
  lease,     \* _expires_at and what the lease thread has read of it
  enabled,   \* _normal_reservation_connection_enabled
  pooled,    \* _normal_reservation_connection is a session
  held,      \* _held_connections: how many
  sessions,  \* client_sessions_active
  slot,      \* _reservation_slots: how many are free
  task,      \* the task thread of each episode
  stopped,   \* the episodes whose stop event is set
  req,       \* the local state of a reservation
  rows,      \* reservation_events: the order a token belongs to
  stock,     \* inventory_items: quantity
  removed,   \* the tokens whose row a mode change has deleted
  changes,   \* mode changes by operators so far
  faults     \* failures of MySQL so far

mysql == <<rows, stock, removed>>
pool == <<enabled, pooled>>
modes == <<fault, change, lease, stopped, changes>>
vars == <<modes, pool, held, sessions, slot, task, req, mysql, faults>>

Change == [pc: {"none", "releasing", "reading", "clearing", "forgetting", "cleaning", "applying",
                "enabling"},
           by: {"operator", "lease"}, mode: Mode,
           token: Token \cup {None}, owner: Order \cup {None}]
NoChange ==
  [pc |-> "none", by |-> "operator", mode |-> "normal", token |-> None, owner |-> None]

Local == [pc: {"new", "queued", "admitted", "connecting", "connected", "duplicate",
               "returning", "recording", "assigning", "finishing", "done"},
          order: Order \cup {None}, mode: Mode, token: Token \cup {None},
          session: {"none", "own", "reusable"},
          answer: {"none", "reserved", "refused"}]

Fresh == [pc |-> "new", order |-> None, mode |-> "normal", token |-> None,
          session |-> "none", answer |-> "none"]
Refused == [Fresh EXCEPT !.pc = "done", !.answer = "refused"]

Task == [kind: {"reconcile", "storm", "contention"},
         pc: {"none", "idle", "admitted", "open", "dead"}]

TypeOK ==
  /\ fault \in [mode: Mode, episode: Episode, token: Token \cup {None}, owner: Order \cup {None}]
  /\ change \in Change
  /\ lease \in [runs: BOOLEAN, read: BOOLEAN]
  /\ enabled \in BOOLEAN /\ pooled \in BOOLEAN
  /\ held \in 0 .. Target /\ sessions \in Nat /\ slot \in {0, 1}
  /\ task \in [Episode -> Task] /\ stopped \subseteq Episode
  /\ req \in [Request -> Local]
  /\ rows \in [Token -> Order \cup {None}]
  /\ stock \in 0 .. Stock /\ removed \subseteq Token
  /\ changes \in 0 .. MaxChanges /\ faults \in 0 .. MaxFaults

TaskOf(mode) ==
  [kind |-> CASE mode = "connection-saturation" -> "storm"
              [] mode = "lock-contention" -> "contention"
              [] OTHER -> "reconcile",
   pc |-> "idle"]

Init ==
  /\ fault = [mode |-> "normal", episode |-> 0, token |-> None, owner |-> None]
  /\ change = NoChange
  /\ lease = [runs |-> FALSE, read |-> FALSE]
  /\ enabled = TRUE /\ pooled = FALSE /\ held = 0 /\ sessions = 0 /\ slot = 1
  /\ task = [e \in Episode |-> IF e = 0 THEN TaskOf("normal")
                               ELSE [kind |-> "reconcile", pc |-> "none"]]
  /\ stopped = {}
  /\ req = [r \in Request |-> Fresh]
  /\ rows = [t \in Token |-> None] /\ stock = Stock /\ removed = {}
  /\ changes = 0 /\ faults = 0

Fails == faults < MaxFaults /\ faults' = faults + 1

Step(r, pc) == req' = [req EXCEPT ![r].pc = pc]

Ends(r, answer) == req' = [req EXCEPT ![r] = [@ EXCEPT !.pc = "finishing", !.session = "none",
                                                       !.answer = answer]]

-----------------------------------------------------------------------------
(* reserve.  A request takes the mode at once; a key that is not the        *)
(* accepted one ends it.                                                    *)
Begin(r, o) ==
  /\ req[r].pc = "new"
  /\ req' = [req EXCEPT ![r] = [@ EXCEPT !.pc = "queued", !.order = o, !.mode = fault.mode]]
  /\ UNCHANGED <<modes, pool, held, sessions, slot, task, mysql, faults>>

RejectKey(r) ==
  /\ req[r].pc = "new"
  /\ req' = [req EXCEPT ![r] = Refused]
  /\ UNCHANGED <<modes, pool, held, sessions, slot, task, mysql, faults>>

Admit(r) ==
  /\ req[r].pc = "queued" /\ slot > 0
  /\ slot' = slot - 1 /\ Step(r, "admitted")
  /\ UNCHANGED <<modes, pool, held, sessions, task, mysql, faults>>

(* The wait for the slot ends without it.                                   *)
Busy(r) ==
  /\ req[r].pc = "queued" /\ slot = 0
  /\ req' = [req EXCEPT ![r] = Refused]
  /\ UNCHANGED <<modes, pool, held, sessions, slot, task, mysql, faults>>

(* _reservation_token.                                                      *)
TokenOf(r) ==
  IF req[r].mode = "token-collision" /\ fault.token # None THEN fault.token
  ELSE <<"order", req[r].order>>

TakeToken(r) ==
  /\ req[r].pc = "admitted"
  /\ req' = [req EXCEPT ![r] = [@ EXCEPT !.pc = "connecting", !.token = TokenOf(r)]]
  /\ UNCHANGED <<modes, pool, held, sessions, slot, task, mysql, faults>>

(* _managed_reservation_connection: the pooled session, or a new one that   *)
(* may be kept, or one for this request alone.                              *)
Reuse(r) == req[r].mode = "normal" /\ enabled

Connected(r, kind) ==
  req' = [req EXCEPT ![r] = [@ EXCEPT !.pc = "connected", !.session = kind]]

(* Mutated TakePooled: the session stays where the next request finds it.   *)
SharePooled(r) ==
  /\ Reuse(r) /\ pooled
  /\ Connected(r, "reusable")
  /\ UNCHANGED <<pooled, sessions, faults>>

TakePooled(r) ==
  /\ Reuse(r) /\ pooled /\ pooled' = FALSE
  /\ Connected(r, "reusable")
  /\ UNCHANGED <<sessions, faults>>

(* The ping of the pooled session fails: it is discarded for a new one.     *)
ReplacePooled(r) ==
  /\ Reuse(r) /\ pooled /\ pooled' = FALSE
  /\ Fails
  /\ Connected(r, "reusable")
  /\ UNCHANGED sessions

OpenSession(r) ==
  /\ Reuse(r) => ~pooled
  /\ Connected(r, IF Reuse(r) THEN "reusable" ELSE "own")
  /\ sessions' = sessions + 1
  /\ UNCHANGED <<pooled, faults>>

(* No session to be had, with the pooled one discarded if there was one.    *)
ConnectFails(r) ==
  /\ Fails
  /\ pooled' = (pooled /\ ~Reuse(r))
  /\ sessions' = IF pooled /\ Reuse(r) THEN sessions - 1 ELSE sessions
  /\ Ends(r, "refused")

Connect(r) ==
  /\ req[r].pc = "connecting"
  /\ TakePooled(r) \/ ReplacePooled(r) \/ OpenSession(r) \/ ConnectFails(r)
  /\ UNCHANGED <<modes, enabled, held, slot, task, mysql>>

(* The transaction: the row for the token goes in and the stock down, or    *)
(* neither.  After an exception the session is closed.                      *)
Free(r) == rows[req[r].token] = None

Written(r) ==
  /\ Free(r) /\ stock > 0
  /\ rows' = [rows EXCEPT ![req[r].token] = req[r].order]
  /\ stock' = stock - 1
  /\ UNCHANGED removed

Committed(r) ==
  /\ Written(r)
  /\ Step(r, "returning") /\ UNCHANGED <<sessions, faults>>

(* The commit is carried out, its answer lost.                              *)
CommitUnanswered(r) ==
  /\ Written(r) /\ Fails
  /\ Ends(r, "refused") /\ sessions' = sessions - 1

Duplicate(r) ==
  /\ ~Free(r)
  /\ req' = [req EXCEPT ![r] = [@ EXCEPT !.pc = "duplicate", !.session = "none"]]
  /\ sessions' = sessions - 1
  /\ UNCHANGED <<mysql, faults>>

OutOfStock(r) ==
  /\ Free(r) /\ stock = 0
  /\ req' = [req EXCEPT ![r] = [@ EXCEPT !.pc = "returning", !.answer = "refused"]]
  /\ UNCHANGED <<mysql, sessions, faults>>

(* A lock wait times out, a statement or the connection fails.              *)
StatementFails(r) ==
  /\ Fails
  /\ Ends(r, "refused") /\ sessions' = sessions - 1
  /\ UNCHANGED mysql

Transact(r) ==
  /\ req[r].pc = "connected"
  /\ \/ Committed(r) \/ CommitUnanswered(r) \/ Duplicate(r)
     \/ OutOfStock(r) \/ StatementFails(r)
  /\ UNCHANGED <<modes, pool, held, slot, task>>

(* Mutated Keeps: a session is kept whatever mode has come.                 *)
KeepsAnyway(r) == req[r].session = "reusable"

(* The session goes back to the pool, unless the pool has been closed.      *)
Keeps(r) == req[r].session = "reusable" /\ enabled

ReturnSession(r) ==
  /\ req[r].pc = "returning"
  /\ pooled' = (pooled \/ Keeps(r))
  /\ sessions' = IF Keeps(r) THEN sessions ELSE sessions - 1
  /\ req' = [req EXCEPT ![r] =
       [@ EXCEPT !.session = "none",
                 !.pc = IF req[r].answer = "none" THEN "recording" ELSE "finishing"]]
  /\ UNCHANGED <<modes, enabled, held, slot, task, mysql, faults>>

(* Mutated Recorded: the token in force is not compared.                    *)
RecordedAnyway(r) == req[r].mode = "token-collision" /\ fault.owner = None

(* The first reservation under the collision token is its owner.            *)
Recorded(r) ==
  req[r].mode = "token-collision" /\ fault.owner = None /\ fault.token = req[r].token

(* A request that is to record its order holds _lock until it has; of those *)
(* that wait for it, only the next check and the end of a mode change touch *)
(* what it records.                                                         *)
Unlocked == \A r \in Request : req[r].pc # "assigning"

Record(r) ==
  /\ req[r].pc = "recording" /\ Unlocked
  /\ IF Recorded(r) THEN Step(r, "assigning") ELSE Ends(r, "reserved")
  /\ UNCHANGED <<modes, pool, held, sessions, slot, task, mysql, faults>>

RecordOwner(r) ==
  /\ req[r].pc = "assigning"
  /\ fault' = [fault EXCEPT !.owner = req[r].order]
  /\ Ends(r, "reserved")
  /\ UNCHANGED <<change, lease, stopped, changes, pool, held, sessions, slot, task, mysql, faults>>

(* Mutated IsOwner: a duplicate is taken for a retry.                       *)
IsAnyone(r) == ~Free(r)

(* After a duplicate key the owner of the token is looked up, over another  *)
(* session: a retry of the same order is answered as before.                *)
IsOwner(r) == rows[req[r].token] = req[r].order

LookUp(r) ==
  /\ req[r].pc = "duplicate"
  /\ \/ /\ Ends(r, IF IsOwner(r) THEN "reserved" ELSE "refused")
        /\ UNCHANGED faults
     \/ Ends(r, "refused") /\ Fails
  /\ UNCHANGED <<modes, pool, held, sessions, slot, task, mysql>>

(* The slot is given back.  What a refused request knew is forgotten.       *)
Finish(r) ==
  /\ req[r].pc = "finishing"
  /\ slot' = slot + 1
  /\ req' = [req EXCEPT ![r] =
       IF @.answer = "reserved" THEN [@ EXCEPT !.pc = "done", !.mode = "normal"]
                                ELSE Refused]
  /\ UNCHANGED <<modes, pool, held, sessions, task, mysql, faults>>

-----------------------------------------------------------------------------
(* set_failure_mode, under _operation_lock.  The task is told to stop and   *)
(* the pool is closed.                                                      *)
Release(by, mode) ==
  /\ change.pc = "none"
  /\ change' = [NoChange EXCEPT !.pc = "releasing", !.by = by, !.mode = mode]
  /\ stopped' = stopped \cup {fault.episode}
  /\ enabled' = FALSE /\ pooled' = FALSE
  /\ sessions' = IF pooled THEN sessions - 1 ELSE sessions

OperatorChanges(mode) ==
  /\ changes < MaxChanges /\ changes' = changes + 1
  /\ Release("operator", mode)
  /\ UNCHANGED <<fault, lease, held, slot, task, req, mysql, faults>>

(* _lease_loop finds that the lease has run out, some time after it began,  *)
(* and later sets the normal mode.  It looks again only when it has.        *)
LeaseLooks ==
  /\ lease.runs /\ ~lease.read /\ lease' = [lease EXCEPT !.read = TRUE]
  /\ UNCHANGED <<fault, change, stopped, changes, pool, held, sessions, slot, task, req,
                 mysql, faults>>

LeaseChanges ==
  /\ lease.read /\ Release("lease", "normal")
  /\ UNCHANGED <<fault, lease, changes, held, slot, task, req, mysql, faults>>

Changing(pc, next) == change.pc = pc /\ change' = [change EXCEPT !.pc = next]

ReleaseHeld ==
  /\ Changing("releasing", "reading")
  /\ held' = 0 /\ sessions' = sessions - held
  /\ UNCHANGED <<fault, lease, stopped, changes, pool, slot, task, req, mysql, faults>>

(* The collision token and its owner are read and cleared without a lock,   *)
(* one after the other: a request that has found the token in force may     *)
(* record its owner in between, or when both are cleared.                   *)
ReadToken ==
  /\ change.pc = "reading"
  /\ change' = [change EXCEPT !.pc = "clearing", !.token = fault.token, !.owner = fault.owner]
  /\ UNCHANGED <<fault, lease, stopped, changes, pool, held, sessions, slot, task, req, mysql,
                 faults>>

ClearToken ==
  /\ Changing("clearing", "forgetting")
  /\ fault' = [fault EXCEPT !.token = None]
  /\ UNCHANGED <<lease, stopped, changes, pool, held, sessions, slot, task, req, mysql, faults>>

ClearOwner ==
  /\ Changing("forgetting",
              IF change.token # None /\ change.owner # None THEN "cleaning" ELSE "applying")
  /\ fault' = [fault EXCEPT !.owner = None]
  /\ UNCHANGED <<lease, stopped, changes, pool, held, sessions, slot, task, req, mysql, faults>>

(* Mutated Deleted: rows of the token go, whoever owns them; the stock they *)
(* took comes back.                                                         *)
DeletedRestocking ==
  /\ rows' = [rows EXCEPT ![change.token] = None]
  /\ removed' = removed \cup {change.token} /\ stock' = stock + 1

(* _cleanup_collision_record deletes the owner's row, over another session. *)
Deleted ==
  /\ rows' = [rows EXCEPT ![change.token] = IF @ = change.owner THEN None ELSE @]
  /\ removed' = IF rows[change.token] = change.owner THEN removed \cup {change.token} ELSE removed
  /\ UNCHANGED stock

Cleanup ==
  /\ Changing("cleaning", "applying")
  /\ (Deleted /\ UNCHANGED faults) \/ (Fails /\ UNCHANGED mysql)
  /\ UNCHANGED <<fault, lease, stopped, changes, pool, held, sessions, slot, task, req>>

(* The mode is set under _lock.  An owner recorded since stays.             *)
Apply ==
  /\ Unlocked
  /\ Changing("applying", "enabling")
  /\ LET e == fault.episode + 1 IN
       fault' = [mode |-> change.mode, episode |-> e, owner |-> fault.owner,
                 token |-> IF change.mode = "token-collision" THEN <<"collision", e>> ELSE None]
  /\ lease' = [lease EXCEPT !.runs = change.mode # "normal"]
  /\ UNCHANGED <<stopped, changes, pool, held, sessions, slot, task, req, mysql, faults>>

Enable ==
  /\ change.pc = "enabling" /\ change' = NoChange
  /\ enabled' = (change.mode = "normal")
  /\ task' = [task EXCEPT ![fault.episode] = TaskOf(change.mode)]
  /\ lease' = [lease EXCEPT !.read = @ /\ change.by # "lease"]
  /\ UNCHANGED <<fault, stopped, changes, pooled, held, sessions, slot, req, mysql, faults>>

ChangeStep ==
  ReleaseHeld \/ ReadToken \/ ClearToken \/ ClearOwner \/ Cleanup \/ Apply \/ Enable

-----------------------------------------------------------------------------
(* The tasks.  An idle one waits or has already found its stop event unset: *)
(* once it is set, the loop may end or go through once more.                *)
Becomes(e, pc) == task' = [task EXCEPT ![e].pc = pc]

Again(e) == IF e \in stopped THEN "dead" ELSE "idle"

TaskStops(e) ==
  /\ task[e].pc = "idle" /\ e \in stopped
  /\ Becomes(e, "dead")
  /\ UNCHANGED <<modes, pool, held, sessions, slot, req, mysql, faults>>

(* _reconcile_stock waits for the slot, unless it is to cause contention.   *)
TaskAdmitted(e) ==
  /\ task[e] = [kind |-> "reconcile", pc |-> "idle"]
  /\ slot > 0 /\ slot' = slot - 1
  /\ Becomes(e, "admitted")
  /\ UNCHANGED <<modes, pool, held, sessions, req, mysql, faults>>

ReadyToOpen(e) ==
  task[e].pc = IF task[e].kind = "reconcile" THEN "admitted" ELSE "idle"

(* Mutated TaskOpens: the storm does not look at what it has checked out.   *)
TaskOpensAnyway(e) ==
  /\ ReadyToOpen(e)
  /\ Becomes(e, "open") /\ sessions' = sessions + 1
  /\ UNCHANGED <<modes, pool, held, slot, req, mysql, faults>>

TaskOpens(e) ==
  /\ ReadyToOpen(e) /\ (task[e].kind = "storm" => held < Target)
  /\ Becomes(e, "open") /\ sessions' = sessions + 1
  /\ UNCHANGED <<modes, pool, held, slot, req, mysql, faults>>

ReleasesSlot(e) == slot' = IF task[e].kind = "reconcile" THEN slot + 1 ELSE slot

(* No session is to be had, or the storm's does not work and is closed.     *)
TaskCannotOpen(e) ==
  /\ ReadyToOpen(e) /\ Fails
  /\ Becomes(e, Again(e)) /\ ReleasesSlot(e)
  /\ UNCHANGED <<modes, pool, held, sessions, req, mysql>>

(* The reconciliation commits, is rolled back or fails: all the same here.  *)
TaskCloses(e) ==
  /\ task[e].pc = "open" /\ task[e].kind # "storm"
  /\ Becomes(e, Again(e)) /\ ReleasesSlot(e) /\ sessions' = sessions - 1
  /\ UNCHANGED <<modes, pool, held, req, mysql, faults>>

(* Mutated StormHolds: the stop event is not looked at under the lock.      *)
StormHoldsAnyway(e) ==
  /\ held' = held + 1 /\ Becomes(e, "idle")
  /\ UNCHANGED sessions

(* _connection_storm checks a session out, unless it has been stopped.      *)
StormHolds(e) ==
  IF e \in stopped
    THEN Becomes(e, "dead") /\ sessions' = sessions - 1 /\ UNCHANGED held
    ELSE Becomes(e, "idle") /\ held' = held + 1 /\ UNCHANGED sessions

StormKeeps(e) ==
  /\ task[e] = [kind |-> "storm", pc |-> "open"]
  /\ StormHolds(e)
  /\ UNCHANGED <<modes, pool, slot, req, mysql, faults>>

StormEnds(e) ==
  /\ task[e] = [kind |-> "storm", pc |-> "idle"] /\ held >= Target
  /\ Becomes(e, "dead")
  /\ UNCHANGED <<modes, pool, held, sessions, slot, req, mysql, faults>>

TaskStep(e) ==
  \/ TaskStops(e) \/ TaskAdmitted(e) \/ TaskOpens(e) \/ TaskCannotOpen(e) \/ TaskCloses(e)
  \/ StormKeeps(e) \/ StormEnds(e)

-----------------------------------------------------------------------------
RequestStep(r) ==
  \/ Admit(r) \/ Busy(r) \/ TakeToken(r) \/ Connect(r) \/ Transact(r)
  \/ ReturnSession(r) \/ Record(r) \/ RecordOwner(r) \/ LookUp(r) \/ Finish(r)

Next ==
  \/ \E r \in Request :
       (\E o \in Order : Begin(r, o)) \/ RejectKey(r) \/ RequestStep(r)
  \/ \E mode \in Modes : OperatorChanges(mode)
  \/ LeaseLooks \/ LeaseChanges \/ ChangeStep
  \/ \E e \in Episode : TaskStep(e)

Spec == Init /\ [][Next]_vars

-----------------------------------------------------------------------------
(* Every open session has one user: a reservation, a task, the pool or the  *)
(* storm.  None is shared and none is forgotten, whatever fails, and the    *)
(* session gauge counts them (_managed_reservation_connection,              *)
(* _close_connection, _release_connections).                                *)
SessionsAreOwned ==
  sessions = Cardinality({r \in Request : req[r].session # "none"})
             + Cardinality({e \in Episode : task[e].pc = "open"})
             + held + (IF pooled THEN 1 ELSE 0)

(* A mode's sessions end with it: the pool only lives in the normal mode    *)
(* and the storm's sessions in its own, however late a reservation returns  *)
(* a session or the storm opens one (_release_connections).                 *)
ModeKeepsItsSessions ==
  /\ pooled => enabled
  /\ enabled => fault.mode = "normal"
  /\ held > 0 => fault.mode = "connection-saturation"

(* The stock goes down once for each reservation that was ever written, and *)
(* a retry, a lost answer or a cleaned up collision does not change it.     *)
StockAddsUp ==
  stock + Cardinality({t \in Token : rows[t] # None}) + Cardinality(removed) = Stock

(* A request is told that its order is reserved only if it is: under the    *)
(* order's own token or a collision token that a mode change has deleted    *)
(* since (reserve, _existing_reservation_owner).                            *)
ReservedMeansWritten ==
  /\ \A o \in Order : rows[<<"order", o>>] \in {o, None}
  /\ \A r \in Request :
       req[r].answer = "reserved" =>
         rows[req[r].token] = req[r].order \/ req[r].token \in removed

(* The owner on record, and the one whose row a mode change is about to     *)
(* delete, has reserved under a collision token of this process: although   *)
(* owners are recorded after the slow commit, while tokens change, nobody   *)
(* is taken for the owner whose reservation went elsewhere (reserve,        *)
(* _cleanup_collision_record).  It need not be the token in force: an owner *)
(* recorded after a mode change has cleared both stays beside the next one. *)
HoldsRow(o) == \E e \in 0 .. fault.episode : rows[<<"collision", e>>] = o

OwnerHoldsRow ==
  /\ fault.owner # None => HoldsRow(fault.owner)
  /\ change.pc = "cleaning" => HoldsRow(change.owner)
=============================================================================
