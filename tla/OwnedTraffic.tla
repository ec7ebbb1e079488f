---------------------------- MODULE OwnedTraffic ----------------------------
(***************************************************************************)
(* The traffic generator's Deployment and the journal a demo round keeps   *)
(* of it.  The Deployment is scaled with kubectl under the guards          *)
(* --current-replicas and --resource-version; operators edit it too.       *)
(***************************************************************************)
EXTENDS Integers

CONSTANTS
  Round,     \* the rounds of a suite, numbered from 1
  MaxEdits,  \* bound on the operators' edits of the Deployment
  MaxFaults  \* bound on failed calls and signals

VARIABLES
  deployment, \* the Deployment: its spec, metadata and running pods
  writer,     \* the round whose call set the replicas in force, or 0
  journal,    \* traffic-generator.json of each round
  edits       \* the edits made so far

trafficVars == <<deployment, writer, journal, edits>>

(* Zero stands for a field that is missing.                                *)
NoJournal == [status |-> "none", uid |-> 0, generation |-> 0, version |-> 0,
              applied |-> 0]

TrafficInit ==
  /\ deployment = [uid |-> 1, replicas |-> 0, generation |-> 1, version |-> 1,
                   pods |-> 0]
  /\ writer = 0
  /\ journal = [k \in Round |-> NoJournal]
  /\ edits = 0

-----------------------------------------------------------------------------
(* The API server and the operators.                                       *)

(* Mutated Guarded: without --resource-version.                            *)
GuardedByReplicas(from, version) == deployment.replicas = from

Guarded(from, version) ==
  deployment.replicas = from /\ deployment.version = version

Scale(k, to) ==
  /\ deployment' = [deployment EXCEPT !.replicas = to, !.generation = @ + 1,
                                      !.version = @ + 1]
  /\ writer' = k

(* The deployment controller starts or ends pods and updates the status.   *)
Reconcile ==
  /\ deployment.pods # deployment.replicas
  /\ deployment' = [deployment EXCEPT !.pods = deployment.replicas,
                                      !.version = @ + 1]
  /\ UNCHANGED <<writer, journal, edits>>

(* An operator scales the Deployment, edits its template, or replaces it.  *)
OperatorEdits ==
  /\ edits < MaxEdits
  /\ edits' = edits + 1
  /\ UNCHANGED journal
  /\ \/ \E n \in {0, 1, 2} \ {deployment.replicas}: Scale(0, n)
     \/ /\ deployment' = [deployment EXCEPT !.generation = @ + 1,
                                            !.version = @ + 1]
        /\ UNCHANGED writer
     \/ /\ deployment' = [uid |-> deployment.uid + 1, replicas |-> 0,
                          generation |-> 1, pods |-> 0,
                          version |-> deployment.version + 1]
        /\ writer' = 0

-----------------------------------------------------------------------------
(* What the runner decides from a Deployment it has read.                  *)

Stopped == deployment.replicas = 0 /\ deployment.pods = 0

Prepared(k) ==
  journal' = [journal EXCEPT ![k] =
                [status |-> "prepared", uid |-> deployment.uid,
                 generation |-> deployment.generation,
                 version |-> deployment.version, applied |-> 0]]

(* Mutated Marked: the journal is not saved before the call.               *)
MarkedAfter(k, status) ==
  journal' = IF status = "starting" THEN journal ELSE [journal EXCEPT ![k].status = status]

Marked(k, status) == journal' = [journal EXCEPT ![k].status = status]

SameObject(k) == deployment.uid = journal[k].uid

ScaledUp(k) ==
  /\ SameObject(k)
  /\ deployment.replicas = 1
  /\ deployment.generation > journal[k].generation

Untouched(k) ==
  /\ SameObject(k)
  /\ deployment.replicas = 1
  /\ deployment.generation = journal[k].applied

(* Without applied_generation the next generation after the prepared one is*)
(* taken for the runner's own.                                             *)
Expected(k) == IF journal[k].applied # 0 THEN journal[k].applied
               ELSE journal[k].generation + 1

Restorable(k) ==
  /\ SameObject(k)
  /\ deployment.replicas = 1
  /\ deployment.generation = Expected(k)

Draining(k) ==
  /\ SameObject(k)
  /\ deployment.replicas = 0
  /\ deployment.generation = Expected(k) + 1
=============================================================================
