--------------------------- MODULE WorkerProcess ---------------------------
(***************************************************************************)
(* The worker (app/worker.py): its operating modes and the consumer of the  *)
(* import queue are threads of one process, which restarts as a whole.      *)
(***************************************************************************)
EXTENDS Worker, ImportQueue

allVars == <<vars, queueVars>>

ProcessTypeOK == TypeOK /\ QueueTypeOK

ProcessInit == Init /\ QueueInit

(* The process is killed, by its memory limit or otherwise, and restarted.  *)
ProcessRestarts == Restart /\ RestartConsumer

ProcessNext ==
  \/ ModeStep /\ UNCHANGED queueVars
  \/ QueueStep /\ UNCHANGED vars
  \/ ProcessRestarts

ProcessSpec == ProcessInit /\ [][ProcessNext]_allVars

(* Threads run and time passes; a join ends one way or the other; the job   *)
(* loop polls for ever.  Clients, operators and faults owe nothing.         *)
WorkerFairness ==
  /\ \A e \in Episode : WF_allVars(ThreadStep(e) /\ UNCHANGED queueVars)
  /\ WF_allVars((Replace \/ Refuse) /\ UNCHANGED queueVars)
  /\ WF_allVars((LeaseRunsOut \/ HeartbeatLooks \/ HeartbeatCalls) /\ UNCHANGED queueVars)
  /\ WF_allVars(Deliver /\ UNCHANGED vars)

(* The watchdog of the controller retries a recovery until its row is gone; *)
(* its DELETE waits for the row lock and gets it when a delivery is rolled  *)
(* back.                                                                    *)
ControllerFairness == \A j \in Poison : SF_allVars(Delete(j) /\ UNCHANGED vars)

FairSpec == ProcessSpec /\ WorkerFairness
RecoveredSpec == FairSpec /\ ControllerFairness

-----------------------------------------------------------------------------
(* Documents that can be decoded are imported, although a run's document    *)
(* at the head of the queue holds them up, MySQL fails and the worker       *)
(* restarts (_job_loop; recover in app/control.py).                         *)
HealthyImportsComplete ==
  \A j \in Job \ Poison : j \in Queued ~> j \in imported

(* A leased mode ends by itself as long as the heartbeat thread lives       *)
(* (_heartbeat_loop).                                                       *)
LeaseIsEnforced == mode # "normal" ~> (mode = "normal" \/ heartbeat = "dead")

(* A mode thread that has been told to stop ends, so that the next set_mode *)
(* gets through, although its join may have been given up, it may still     *)
(* retain the page in its hands, and its batch may end meanwhile and go on  *)
(* as the normal export (set_mode, the loops).  A restart, which starts     *)
(* again with no stop event set, ends all threads.                          *)
StoppedThreadEnds == \A e \in Episode : e \in stopped ~> (~Alive(e) \/ stopped = {})

(* docs/ARCHITECTURE.md:43: "Both worker and inventory enforce local        *)
(* leases".                                                                 *)
LocalLeaseIsEnforced == mode # "normal" ~> mode = "normal"
=============================================================================
