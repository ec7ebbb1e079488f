------------------------------- MODULE Orders -------------------------------
(***************************************************************************)
(* Checkout in the Orders API (app/orders.py): concurrent requests, the     *)
(* idempotency store they share, their calls to Inventory and the fault     *)
(* modes with their lease.                                                  *)
(*                                                                          *)
(* An entry of the store is the dictionary its request created: the request *)
(* is its identity, so that what the request later does to "its" entry and  *)
(* what the store holds under the key can differ, as in the code.           *)
(***************************************************************************)
EXTENDS Integers, FiniteSets

CONSTANTS
  Request,        \* calls of GET /checkout
  Name,           \* strings a client sends: order ids and Idempotency-Keys
  None,           \* no entry, no header
  Capacity,       \* MAX_IDEMPOTENCY_ENTRIES
  AttemptLimits,  \* values of MAX_RETRIES a setting may have
  DefaultLimit,   \* its default
  Modes,          \* the modes that are asked for
  MaxModes        \* bound: mode changes asked for

ASSUME OrdersAssumption ==
  /\ None \notin Request \cup Name
  /\ IsFiniteSet(Request)
  /\ Capacity \in Nat \ {0}
  /\ AttemptLimits \subseteq Nat \ {0} /\ DefaultLimit \in AttemptLimits
  /\ Modes \subseteq {"normal", "configured", "idempotency-conflict"}
  /\ MaxModes \in Nat

(* The keys of the store: hashes of what a client sent, and in the          *)
(* idempotency-conflict mode of one string per episode.                     *)
RawKey == {"client"} \X Name \cup {"fault"} \X (1 .. MaxModes)

Mode == {"normal", "configured", "idempotency-conflict"}

Answer == {"completed", "replayed", "conflict", "in_progress", "busy",
           "unavailable", "rejected", "invalid", "raised"}

VARIABLES
  setting,   \* mode, _fault_namespace, max_retries and the lease of the mode
  changes,   \* mode changes so far; the last one's namespace
  expired,   \* the lease thread has read an expired lease
  index,     \* _idempotency: the request whose entry a key has, or None
  older,     \* the order of _idempotency: <<j, k>> if j comes before k
  entry,     \* the entry a request created
  req,       \* the local state of a request
  count      \* inflight and the counters of the metrics

modeVars == <<setting, changes, expired>>
vars == <<modeVars, index, older, entry, req, count>>

Entry == {"none", "in_progress", "completed", "stale", "dropped"}

Pc == {"new", "accepted", "waiting", "woken", "attempt", "calling",
       "storing", "finishing", "done"}

Counter == {"inflight", "answered", "errors", "attempts", "retries", "replays",
            "conflicts", "refusals"}

Local == [pc: Pc, order: Name \cup {None}, key: RawKey \cup {None}, limit: Nat,
          attempt: Nat, late: BOOLEAN, answer: Answer \cup {None},
          original: Request \cup {None}]

TypeOK ==
  /\ setting \in [mode: Mode, namespace: Nat, limit: AttemptLimits,
                  lease: {"none", "running", "due"}]
  /\ changes \in Nat /\ expired \in BOOLEAN
  /\ index \in [RawKey -> Request \cup {None}]
  /\ older \subseteq RawKey \X RawKey
  /\ entry \in [Request -> Entry]
  /\ req \in [Request -> Local]
  /\ count \in [Counter -> Nat]

Init ==
  /\ setting = [mode |-> "normal", namespace |-> 0, limit |-> DefaultLimit, lease |-> "none"]
  /\ changes = 0 /\ expired = FALSE
  /\ index = [k \in RawKey |-> None] /\ older = {}
  /\ entry = [r \in Request |-> "none"]
  /\ req = [r \in Request |->
             [pc |-> "new", order |-> None, key |-> None, limit |-> 0, attempt |-> 0,
              late |-> FALSE, answer |-> None, original |-> None]]
  /\ count = [c \in Counter |-> 0]

-----------------------------------------------------------------------------
(* The idempotency store.                                                   *)
Present == {k \in RawKey : index[k] # None}

Completed(keys) == {k \in keys : entry[index[k]] \in {"completed", "stale"}}

(* _prune_idempotency: completed entries past their time to live go.        *)
Unexpired == {k \in Present : entry[index[k]] # "stale"}

HasRoom(keys) == Cardinality(keys) < Capacity

(* Mutated Evicted: in-progress entries are evicted like any other; only an *)
(* entry at the head of the store is evicted.                               *)
EvictedUnfinished(keys, out) ==
  /\ out \subseteq keys
  /\ \A j \in out, k \in keys \ out : <<j, k>> \in older
  /\ HasRoom(keys \ out)
  /\ out # {} => Cardinality(keys \ out) >= Capacity - 1

EvictedAtHead(keys, out) ==
  /\ out \subseteq Completed(keys)
  /\ \A j \in out, k \in keys \ out : <<j, k>> \in older
  /\ HasRoom(keys \ out) \/ ~ \E j \in Completed(keys) \ out :
                               \A k \in keys \ (out \cup {j}) : <<j, k>> \in older
  /\ out # {} => Cardinality(keys \ out) >= Capacity - 1

(* _make_idempotency_room pops the oldest completed entries until there is  *)
(* room: all of them, if even that is not enough.                           *)
Evicted(keys, out) ==
  /\ out \subseteq Completed(keys)
  /\ \A j \in out, k \in Completed(keys) \ out : <<j, k>> \in older
  /\ HasRoom(keys \ out) \/ out = Completed(keys)
  /\ out # {} => Cardinality(keys \ out) >= Capacity - 1

Stored(keys) == [k \in RawKey |-> IF k \in keys THEN index[k] ELSE None]

(* Keep only the entries of keys, in their order.                           *)
Keep(keys) == index' = Stored(keys) /\ older' = older \cap (keys \X keys)

(* Append an entry of r under k to those of keys.                           *)
Append(k, r, keys) ==
  /\ index' = [Stored(keys) EXCEPT ![k] = r]
  /\ older' = (older \cap (keys \X keys)) \cup (keys \X {k})

(* move_to_end.                                                             *)
MoveToEnd(k, keys) ==
  /\ index' = Stored(keys)
  /\ older' = (older \cap ((keys \ {k}) \X (keys \ {k}))) \cup ((keys \ {k}) \X {k})

(* Mutated NotifyAll: the waiting requests are not woken.                   *)
NotifyNobody(f) == f

(* The condition variable: notify_all wakes every waiting request.          *)
NotifyAll(f) ==
  [s \in Request |-> IF f[s].pc = "waiting" THEN [f[s] EXCEPT !.pc = "woken"] ELSE f[s]]

Go(r, pc) == req' = [req EXCEPT ![r].pc = pc]

Finishing(r, answer) == req' = [req EXCEPT ![r].pc = "finishing", ![r].answer = answer]

Bump(c) == count' = [count EXCEPT ![c] = @ + 1]

-----------------------------------------------------------------------------
(* Mutated KeyOf: the order id does not stand in for a missing header.      *)
KeyOfHeader(o, header) ==
  IF setting.mode = "idempotency-conflict" THEN <<"fault", setting.namespace>>
  ELSE <<"client", header>>

(* A checkout is accepted: it takes its settings at once.  Malformed input  *)
(* is answered without looking at the store.                                *)
KeyOf(o, header) ==
  IF setting.mode = "idempotency-conflict" THEN <<"fault", setting.namespace>>
  ELSE <<"client", IF header # None THEN header ELSE o>>

Accept(r, o, header) ==
  /\ req[r].pc = "new"
  /\ req' = [req EXCEPT ![r] = [@ EXCEPT !.pc = "accepted", !.order = o,
                                         !.key = KeyOf(o, header),
                                         !.limit = setting.limit]]
  /\ Bump("inflight")
  /\ UNCHANGED <<modeVars, index, older, entry>>

AcceptInvalid(r) ==
  /\ req[r].pc = "new"
  /\ Finishing(r, "invalid")
  /\ Bump("inflight")
  /\ UNCHANGED <<modeVars, index, older, entry>>

(* One round of the loop under the lock, over the keys that remain.         *)
Take(r, keys) ==
  \E out \in SUBSET keys :
    /\ req[r].key \notin keys
    /\ Evicted(keys, out) /\ HasRoom(keys \ out)
    /\ Append(req[r].key, r, keys \ out)
    /\ entry' = [entry EXCEPT ![r] = "in_progress"]
    /\ Go(r, "attempt")
    /\ UNCHANGED count

RefuseBusy(r, keys) ==
  \E out \in SUBSET keys :
    /\ req[r].key \notin keys
    /\ Evicted(keys, out) /\ ~HasRoom(keys \ out)
    /\ Keep(keys \ out)
    /\ Finishing(r, "busy")
    /\ Bump("refusals")
    /\ UNCHANGED entry

Holder(r) == index[req[r].key]

Conflict(r, keys) ==
  /\ req[r].key \in keys
  /\ req[Holder(r)].order # req[r].order
  /\ Keep(keys)
  /\ Finishing(r, "conflict")
  /\ Bump("conflicts")
  /\ UNCHANGED entry

Replay(r, keys) ==
  /\ req[r].key \in Completed(keys)
  /\ req[Holder(r)].order = req[r].order
  /\ MoveToEnd(req[r].key, keys)
  /\ req' = [req EXCEPT ![r].pc = "finishing", ![r].answer = "replayed",
                        ![r].original = Holder(r)]
  /\ Bump("replays")
  /\ UNCHANGED entry

InProgress(r, keys) ==
  /\ req[r].key \in keys \ Completed(keys)
  /\ req[Holder(r)].order = req[r].order

RefuseInProgress(r, keys) ==
  /\ InProgress(r, keys) /\ req[r].late
  /\ Keep(keys)
  /\ Finishing(r, "in_progress")
  /\ UNCHANGED <<entry, count>>

Wait(r, keys) ==
  /\ InProgress(r, keys) /\ ~req[r].late
  /\ Keep(keys)
  /\ Go(r, "waiting")
  /\ UNCHANGED <<entry, count>>

Examine(r, keys) ==
  \/ Take(r, keys) \/ RefuseBusy(r, keys) \/ Conflict(r, keys)
  \/ Replay(r, keys) \/ RefuseInProgress(r, keys) \/ Wait(r, keys)

(* Only the first round prunes.                                             *)
Enter(r) == req[r].pc = "accepted" /\ Examine(r, Unexpired) /\ UNCHANGED modeVars
Reenter(r) == req[r].pc = "woken" /\ Examine(r, Present) /\ UNCHANGED modeVars

(* wait(remaining) returns at the deadline, notified or not.                *)
WaitEnds(r) ==
  /\ req[r].pc = "waiting" /\ req[r].late
  /\ Go(r, "woken")
  /\ UNCHANGED <<modeVars, index, older, entry, count>>

DeadlinePasses(r) ==
  /\ req[r].pc \in {"accepted", "waiting", "woken"} /\ ~req[r].late
  /\ req' = [req EXCEPT ![r].late = TRUE]
  /\ UNCHANGED <<modeVars, index, older, entry, count>>

-----------------------------------------------------------------------------
(* Mutated BeginAttempt: the first call counts as a retry; the loop over    *)
(* the attempts does not advance.                                           *)
BeginAttemptAsRetry(r) ==
  /\ req[r].pc = "attempt"
  /\ req' = [req EXCEPT ![r].pc = "calling", ![r].attempt = @ + 1]
  /\ count' = [count EXCEPT !["attempts"] = @ + 1, !["retries"] = @ + 1]
  /\ UNCHANGED <<modeVars, index, older, entry>>

BeginAttemptAgain(r) ==
  /\ req[r].pc = "attempt"
  /\ Go(r, "calling")
  /\ UNCHANGED <<modeVars, index, older, entry, count>>

(* The calls to Inventory, outside the lock.                                *)
BeginAttempt(r) ==
  /\ req[r].pc = "attempt"
  /\ req' = [req EXCEPT ![r].pc = "calling", ![r].attempt = @ + 1]
  /\ count' = [count EXCEPT !["attempts"] = @ + 1,
                            !["retries"] = IF req[r].attempt > 0 THEN @ + 1 ELSE @]
  /\ UNCHANGED <<modeVars, index, older, entry>>

Reserved(r) == Go(r, "storing")

(* A timeout, 408, 425, 429 or 5xx.                                         *)
Retryable(r) ==
  IF req[r].attempt < req[r].limit THEN Go(r, "attempt") ELSE Finishing(r, "unavailable")

(* Another status or a transport error; a document that breaks the          *)
(* contract; an exception the attempt does not catch.                       *)
NotRetryable(r) == \E a \in {"unavailable", "rejected", "raised"} : Finishing(r, a)

AttemptReturns(r) ==
  /\ req[r].pc = "calling"
  /\ Reserved(r) \/ Retryable(r) \/ NotRetryable(r)
  /\ UNCHANGED <<modeVars, index, older, entry, count>>

Store(r) ==
  /\ req[r].pc = "storing"
  /\ entry' = [entry EXCEPT ![r] = "completed"]
  /\ req' = NotifyAll([req EXCEPT ![r].pc = "finishing", ![r].answer = "completed"])
  /\ UNCHANGED <<modeVars, index, older, count>>

(* The finally block: a request that created an entry and did not complete  *)
(* takes out whatever its key holds.                                        *)
OwnsEntry(r) == entry[r] # "none"
Failed(r) == OwnsEntry(r) /\ req[r].answer # "completed"

IsError(answer) == answer \in {"busy", "unavailable", "rejected", "raised"}

Finish(r) ==
  /\ req[r].pc = "finishing"
  /\ IF Failed(r)
       THEN /\ Keep(Present \ {req[r].key})
            /\ entry' = [entry EXCEPT ![r] = "dropped"]
       ELSE UNCHANGED <<index, older, entry>>
  /\ LET ended == [req EXCEPT ![r].pc = "done"] IN
       req' = IF OwnsEntry(r) THEN NotifyAll(ended) ELSE ended
  /\ count' = [count EXCEPT !["inflight"] = IF @ > 0 THEN @ - 1 ELSE 0, !["answered"] = @ + 1,
                            !["errors"] = IF IsError(req[r].answer) THEN @ + 1 ELSE @]
  /\ UNCHANGED modeVars

(* A completed entry outlives IDEMPOTENCY_TTL_SECONDS.                      *)
Ages(r) ==
  /\ entry[r] = "completed"
  /\ entry' = [entry EXCEPT ![r] = "stale"]
  /\ UNCHANGED <<modeVars, index, older, req, count>>

-----------------------------------------------------------------------------
(* Only the conflict mode has a namespace, a fresh one for each episode.    *)
Namespace(mode) == IF mode = "idempotency-conflict" THEN changes' ELSE 0

(* Mutated Apply: only the conflict mode gets a lease.                      *)
ApplyUnleased(mode, limit) ==
  /\ setting' = [mode |-> mode, namespace |-> Namespace(mode), limit |-> limit,
                 lease |-> IF mode = "idempotency-conflict" THEN "running" ELSE "none"]
  /\ UNCHANGED <<index, older, entry, req, count>>

(* The modes: set_mode assigns under the lock, and gives every mode but     *)
(* normal a lease.                                                          *)
Apply(mode, limit) ==
  /\ setting' = [mode |-> mode, namespace |-> Namespace(mode), limit |-> limit,
                 lease |-> IF mode = "normal" THEN "none" ELSE "running"]
  /\ UNCHANGED <<index, older, entry, req, count>>

SetMode(mode, limit) ==
  /\ changes < MaxModes /\ changes' = changes + 1
  /\ Apply(mode, limit)
  /\ UNCHANGED expired

(* The duration is only converted once the mode, its settings and its       *)
(* namespace are assigned, and not at all for the normal mode: a malformed  *)
(* one is refused with the new mode in force under the lease of the mode    *)
(* before, which may be none.                                               *)
SetModeFails(mode, limit) ==
  /\ mode # "normal"
  /\ changes < MaxModes /\ changes' = changes + 1
  /\ setting' = [setting EXCEPT !.mode = mode, !.namespace = Namespace(mode), !.limit = limit]
  /\ UNCHANGED <<expired, index, older, entry, req, count>>

LeaseRunsOut ==
  /\ setting.lease = "running"
  /\ setting' = [setting EXCEPT !.lease = "due"]
  /\ UNCHANGED <<changes, expired, index, older, entry, req, count>>

(* _lease_loop looks at the lease under the lock and resets the mode later. *)
LeaseLooks ==
  /\ setting.lease = "due" /\ ~expired
  /\ expired' = TRUE
  /\ UNCHANGED <<setting, changes, index, older, entry, req, count>>

LeaseResets ==
  /\ expired /\ expired' = FALSE
  /\ Apply("normal", DefaultLimit)
  /\ UNCHANGED changes

-----------------------------------------------------------------------------
RequestStep(r) ==
  \/ Enter(r) \/ Reenter(r) \/ WaitEnds(r) \/ BeginAttempt(r)
  \/ AttemptReturns(r) \/ Store(r) \/ Finish(r)

ModeStep ==
  \/ \E mode \in Modes, limit \in AttemptLimits :
       SetMode(mode, limit) \/ SetModeFails(mode, limit)
  \/ LeaseRunsOut \/ LeaseLooks \/ LeaseResets

Next ==
  \/ \E r \in Request :
       \/ \E o \in Name, header \in Name \cup {None} : Accept(r, o, header)
       \/ AcceptInvalid(r) \/ RequestStep(r) \/ DeadlinePasses(r) \/ Ages(r)
  \/ ModeStep

Spec == Init /\ [][Next]_vars

(* Every request has a thread of its own, its calls to Inventory time out,  *)
(* the lease thread wakes every second, and time passes.  Nothing is        *)
(* promised about clients and operators.                                    *)
Fairness ==
  /\ \A r \in Request : WF_vars(RequestStep(r)) /\ WF_vars(DeadlinePasses(r))
  /\ WF_vars(LeaseRunsOut) /\ WF_vars(LeaseLooks) /\ WF_vars(LeaseResets)

FairSpec == Spec /\ Fairness

-----------------------------------------------------------------------------
(* The store keeps the promise of IdempotentCheckout: one request works for *)
(* a key at a time, nobody works while its result is kept, and a replay is  *)
(* the result of the same order (checkout, _prune_idempotency,              *)
(* _make_idempotency_room).                                                 *)
Working == {"attempt", "calling", "storing"}

Looking == {"accepted", "waiting", "woken"}

Phase(r) ==
  CASE req[r].pc = "new" -> "new"
    [] req[r].pc \in Looking -> "asked"
    [] entry[r] = "in_progress" -> "working"
    [] entry[r] \in {"completed", "stale"} -> "completed"
    [] entry[r] = "dropped" -> "failed"
    [] OTHER -> IF req[r].answer = "replayed" THEN "served" ELSE "refused"

Jobs == [r \in Request |-> [phase |-> Phase(r), key |-> req[r].key,
                           order |-> req[r].order, from |-> req[r].original]]

Checkout == INSTANCE IdempotentCheckout WITH
  Key <- RawKey, Order <- Name, holder <- index, job <- Jobs

ImplementsCheckout == Checkout!Spec

(* A request only waits while another one works on its order under its key: *)
(* no wake-up is missed, and a key never stays taken by a request that is   *)
(* gone (notify_all and the finally block of checkout).                     *)
WaitsForWork ==
  /\ \A k \in Present :
       entry[index[k]] = "in_progress" => req[index[k]].pc \in Working \cup {"finishing"}
  /\ \A r \in Request :
       req[r].pc = "waiting" =>
         Holder(r) # None /\ entry[Holder(r)] = "in_progress"
           /\ req[Holder(r)].order = req[r].order

(* The store never outgrows its capacity, and a request is refused for it   *)
(* only while that many others are being worked on (_make_idempotency_room).*)
CapacityIsUsed ==
  [][/\ Cardinality(Present') <= Capacity
     /\ \A r \in Request :
          (req'[r].answer = "busy" /\ req[r].answer # "busy")
            => Cardinality({s \in Request : entry[s] = "in_progress"}) >= Capacity]_vars

(* The metrics agree with what the requests did on every path out of        *)
(* checkout, failures and early returns included.                           *)
MetricsAddUp ==
  LET At(pcs) == Cardinality({r \in Request : req[r].pc \in pcs})
      Tried(n) == Cardinality({r \in Request : req[r].attempt >= n})
  IN /\ count["inflight"] = At(Pc \ {"new", "done"})
     /\ count["answered"] = At({"done"})
     /\ count["attempts"] - count["retries"] = Tried(1)
     /\ Tried(2) <= count["retries"]

(* Every checkout is answered, although its original may fail, its result   *)
(* be forgotten or its key be taken over while it waits.                    *)
EveryCheckoutAnswered ==
  \A r \in Request : req[r].pc = "accepted" ~> req[r].pc = "done"

(* A lease that runs or is due brings the mode back to normal, although the *)
(* mode it was given to may have been replaced meanwhile, by one that has   *)
(* its own lease or by one whose duration was refused, and although the     *)
(* lease thread may still have to act on an older lease (set_mode,          *)
(* _lease_loop).  A mode set with a malformed duration while no lease runs  *)
(* has none, and nothing ends it.                                           *)
LeasedModeEnds == setting.lease # "none" ~> setting.mode = "normal"
=============================================================================
