------------------------- MODULE IdempotentCheckout -------------------------
(***************************************************************************)
(* What an idempotent checkout promises: for one idempotency key at most    *)
(* one request works at a time and nobody works while the key's result is   *)
(* remembered; a request is only served the result of a request that asked  *)
(* for the same order and completed it; a failed request leaves the key     *)
(* free.  Only completed results are ever forgotten.                        *)
(***************************************************************************)
CONSTANTS Request, Key, Order, None

VARIABLES
  holder,   \* the request a key belongs to, or None
  job       \* what each request asked for, and how far it has come

vars == <<holder, job>>

Init ==
  /\ holder = [k \in Key |-> None]
  /\ job \in [Request -> [phase: {"new"}, key: {None}, order: {None}, from: {None}]]

Forgettable == {k \in Key : holder[k] # None /\ job[holder[k]].phase = "completed"}

(* The holders once the results under the keys of gone are forgotten.       *)
Without(gone) == [k \in Key |-> IF k \in gone THEN None ELSE holder[k]]

Becomes(r, phase) == job' = [job EXCEPT ![r].phase = phase]

Ask(r, k, o) ==
  /\ job[r].phase = "new"
  /\ job' = [job EXCEPT ![r] = [phase |-> "asked", key |-> k, order |-> o, from |-> None]]
  /\ UNCHANGED holder

Begin(r) ==
  \E gone \in SUBSET Forgettable :
    /\ job[r].phase = "asked" /\ Without(gone)[job[r].key] = None
    /\ holder' = [Without(gone) EXCEPT ![job[r].key] = r]
    /\ Becomes(r, "working")

Succeed(r) ==
  /\ job[r].phase = "working" /\ holder[job[r].key] = r
  /\ Becomes(r, "completed") /\ UNCHANGED holder

Fail(r) ==
  /\ job[r].phase = "working" /\ holder[job[r].key] = r
  /\ holder' = [holder EXCEPT ![job[r].key] = None]
  /\ Becomes(r, "failed")

Serve(r) ==
  \E gone \in SUBSET Forgettable :
    LET s == Without(gone)[job[r].key] IN
      /\ job[r].phase = "asked" /\ s # None
      /\ job[s].phase = "completed" /\ job[s].order = job[r].order
      /\ holder' = Without(gone)
      /\ job' = [job EXCEPT ![r] = [phase |-> "served", key |-> job[r].key,
                                    order |-> job[r].order, from |-> s]]

Refuse(r) ==
  \E gone \in SUBSET Forgettable :
    /\ job[r].phase \in {"new", "asked"}
    /\ holder' = Without(gone)
    /\ Becomes(r, "refused")

Forget ==
  \E gone \in SUBSET Forgettable : holder' = Without(gone) /\ UNCHANGED job

Next ==
  \/ Forget
  \/ \E r \in Request :
       \/ \E k \in Key, o \in Order : Ask(r, k, o)
       \/ Begin(r) \/ Succeed(r) \/ Fail(r) \/ Serve(r) \/ Refuse(r)

Spec == Init /\ [][Next]_vars
=============================================================================
