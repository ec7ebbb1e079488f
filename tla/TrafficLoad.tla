---------------------------- MODULE TrafficLoad ----------------------------
(***************************************************************************)
(* app/traffic.py: the slots of the load generator.  One thread claims a   *)
(* slot and submits a request; the threads of the pool carry requests out  *)
(* and give the slot back.  A request that times out after three seconds   *)
(* goes on in the Orders API.                                              *)
(***************************************************************************)
EXTENDS Integers, FiniteSets

CONSTANTS Checkout,     \* the requests
          Configured,   \* MAX_INFLIGHT
          SafeInflight  \* MAX_SAFE_INFLIGHT

ASSUME LoadAssumption ==
  IsFiniteSet(Checkout) /\ {Configured, SafeInflight} \subseteq Nat \ {0}

VARIABLES
  inflight, \* the counter
  sent,     \* where each request is
  outcome   \* the status it was counted under

loadVars == <<inflight, sent, outcome>>

LoadInit ==
  /\ inflight = 0
  /\ sent = [q \in Checkout |-> "new"]
  /\ outcome = [q \in Checkout |-> "none"]

MaxInflight == IF Configured < SafeInflight THEN Configured ELSE SafeInflight

In(states) == {q \in Checkout : sent[q] \in states}

(* claim_slot and submit; when the limit is reached the request is shed.   *)
ClaimSlot(q) ==
  /\ sent[q] = "new"
  /\ IF inflight < MaxInflight
     THEN inflight' = inflight + 1 /\ sent' = [sent EXCEPT ![q] = "submitted"]
     ELSE UNCHANGED inflight /\ sent' = [sent EXCEPT ![q] = "shed"]
  /\ UNCHANGED outcome

(* A thread of the pool is free once it has given back the slot of its last*)
(* request.                                                                *)
Dispatch(q) ==
  /\ sent[q] = "submitted"
  /\ Cardinality(In({"calling", "releasing"})) < MaxInflight
  /\ sent' = [sent EXCEPT ![q] = "calling"]
  /\ UNCHANGED <<inflight, outcome>>

(* Mutated Answer: a request that raises keeps its slot.                   *)
AnswerOrRaise(q) ==
  /\ sent[q] = "calling"
  /\ \E s \in {"200", "503", "transport_error", "none"} :
       /\ outcome' = [outcome EXCEPT ![q] = s]
       /\ sent' = [sent EXCEPT ![q] = IF s = "none" THEN "done" ELSE "releasing"]
  /\ UNCHANGED inflight

(* Counted as answered, as failed (a timeout included), or, when reading   *)
(* the body of an error status raises, not at all.                         *)
Answer(q) ==
  /\ sent[q] = "calling"
  /\ \E s \in {"200", "503", "transport_error", "none"} :
       outcome' = [outcome EXCEPT ![q] = s]
  /\ sent' = [sent EXCEPT ![q] = "releasing"]
  /\ UNCHANGED inflight

(* Mutated ReleaseSlot: the slot is given back twice.                      *)
ReleaseTwice(q) ==
  /\ sent[q] = "releasing"
  /\ sent' = [sent EXCEPT ![q] = "done"]
  /\ inflight' = inflight - 2
  /\ UNCHANGED outcome

(* The finally block.                                                      *)
ReleaseSlot(q) ==
  /\ sent[q] = "releasing"
  /\ sent' = [sent EXCEPT ![q] = "done"]
  /\ inflight' = IF inflight > 0 THEN inflight - 1 ELSE 0
  /\ UNCHANGED outcome

LoadNext == \E q \in Checkout : ClaimSlot(q) \/ Dispatch(q) \/ Answer(q) \/ ReleaseSlot(q)

LoadSpec == LoadInit /\ [][LoadNext]_loadVars
=============================================================================
