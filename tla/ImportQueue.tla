---------------------------- MODULE ImportQueue ----------------------------
(***************************************************************************)
(* The import queue lab_jobs and its consumer, the job loop of the worker   *)
(* (app/worker.py): one transaction per delivery, over a connection that    *)
(* can fail before or after the commit is carried out.  Runs of the Lab put *)
(* documents into the queue that no decoder accepts, and their recovery     *)
(* takes them out again (app/control.py).                                   *)
(***************************************************************************)
EXTENDS Naturals, SequencesExt

CONSTANTS
  Job,       \* the rows ever put into lab_jobs
  Poison,    \* those a Lab run puts there
  NoJob,     \* no delivery under way
  MaxFaults  \* bound: failures of MySQL and restarts of the worker

ASSUME ImportQueueAssumption ==
  Poison \subseteq Job /\ NoJob \notin Job /\ MaxFaults \in Nat

VARIABLES
  queue,     \* lab_jobs in the order of their ids
  imported,  \* the jobs whose records are in lab_import_records
  delivery,  \* the job whose row the worker's transaction has locked
  jobs,      \* the worker's count of completed jobs
  removed,   \* jobs a recovery has deleted
  faults     \* failures so far

queueVars == <<queue, imported, delivery, jobs, removed, faults>>

Queued == ToSet(queue)

QueueTypeOK ==
  /\ queue \in Seq(Job) /\ imported \subseteq Job
  /\ delivery \in Job \cup {NoJob} /\ jobs \in Nat
  /\ removed \subseteq Poison /\ faults \in 0 .. MaxFaults

QueueInit ==
  /\ queue = <<>> /\ imported = {} /\ delivery = NoJob
  /\ jobs = 0 /\ removed = {} /\ faults = 0

Fault == faults < MaxFaults /\ faults' = faults + 1

(* The row of j is deleted.                                                 *)
Deletes(j) == \E i \in DOMAIN queue : queue[i] = j /\ queue' = RemoveAt(queue, i)

-----------------------------------------------------------------------------
(* A row is inserted; ids ascend.                                           *)
Insert(j) ==
  /\ j \notin Queued \cup imported \cup removed
  /\ queue' = Append(queue, j)
  /\ UNCHANGED <<imported, delivery, jobs, removed, faults>>

(* The oldest row is selected FOR UPDATE.                                   *)
Receive ==
  /\ delivery = NoJob /\ queue # <<>>
  /\ delivery' = Head(queue)
  /\ UNCHANGED <<queue, imported, jobs, removed, faults>>

(* Mutated Commit: the row is left for a second transaction.                *)
CommitRecords ==
  /\ delivery \in Job \ Poison
  /\ imported' = imported \cup {delivery}
  /\ delivery' = NoJob
  /\ UNCHANGED <<queue, removed>>

(* The records of the delivery go in and its row goes out in one commit.    *)
Commit ==
  /\ delivery \in Job \ Poison
  /\ imported' = imported \cup {delivery}
  /\ Deletes(delivery)
  /\ delivery' = NoJob
  /\ UNCHANGED removed

Acknowledge == Commit /\ jobs' = jobs + 1 /\ UNCHANGED faults

(* The commit is carried out, but the connection breaks before its answer.  *)
AnswerLost == Commit /\ Fault /\ UNCHANGED jobs

(* Mutated Reject: a document that cannot be decoded is acknowledged; its   *)
(* transaction is not rolled back.                                          *)
RejectForGood ==
  /\ delivery \in Poison /\ delivery' = NoJob
  /\ Deletes(delivery)
  /\ UNCHANGED <<imported, jobs, removed, faults>>

RejectHolding ==
  /\ delivery \in Poison
  /\ UNCHANGED queueVars

(* The document cannot be decoded: rollback, and the row stays.             *)
Reject ==
  /\ delivery \in Poison /\ delivery' = NoJob
  /\ UNCHANGED <<queue, imported, jobs, removed, faults>>

(* Any statement may fail; the transaction is rolled back.                  *)
Fail ==
  /\ delivery # NoJob /\ delivery' = NoJob
  /\ Fault
  /\ UNCHANGED <<queue, imported, jobs, removed>>

(* The worker restarts: MySQL rolls its transaction back.                   *)
RestartConsumer ==
  /\ Fault /\ delivery' = NoJob /\ jobs' = 0
  /\ UNCHANGED <<queue, imported, removed>>

(* The recovery of a run deletes its row, unless a delivery has it locked.  *)
Delete(j) ==
  /\ j \in Queued \cap Poison /\ delivery # j
  /\ Deletes(j) /\ removed' = removed \cup {j}
  /\ UNCHANGED <<imported, delivery, jobs, faults>>

Deliver == Receive \/ Acknowledge \/ AnswerLost \/ Reject \/ Fail

QueueStep == Deliver \/ \E j \in Job : Insert(j) \/ Delete(j)

-----------------------------------------------------------------------------
(* A row is in the queue, imported or deleted by its run's recovery, and    *)
(* only one of these: a delivery is neither lost nor imported twice, and    *)
(* completed jobs are never over-reported (_job_loop; recover in            *)
(* app/control.py).                                                         *)
ImportedOnce ==
  /\ \A m, n \in DOMAIN queue : queue[m] = queue[n] => m = n
  /\ Queued \cap (imported \cup removed) = {}
  /\ jobs <= Cardinality(imported)

(* A row leaves the queue only with its records, in the commit that        *)
(* _job_loop makes of both, or deleted by the recovery of its run: no      *)
(* rollback, lost connection or restart of the worker drops it.            *)
NothingIsLost ==
  [][\A j \in Queued : j \in Queued' \cup imported' \cup removed']_queueVars
=============================================================================
