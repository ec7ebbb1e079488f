--------------------------- MODULE LibraryRuntime ---------------------------
(***************************************************************************)
(* app/library_runtime.py: the one active case of the incident library,    *)
(* its lease, and the thread that attempts it twice a second.  Requests    *)
(* are served by other threads; the lock is held by each of Start, Recover,*)
(* Take and Count, but not while an attempt is at work.                    *)
(***************************************************************************)
EXTENDS Naturals

CONSTANTS LibraryRun,  \* runs the controller starts here
          NoRun,
          CpuRun       \* those whose mechanism is resource_cpu

ASSUME LibraryAssumption == NoRun \notin LibraryRun /\ CpuRun \subseteq LibraryRun

VARIABLES
  library,   \* active: its run_id, and whether expires_at has passed
  requested, \* the runs whose start has been served
  ticking,   \* the thread: idle, executing or counting, for which run
  late       \* failures counted for a run that was not active any more

libraryVars == <<library, requested, ticking, late>>

Inactive == [run |-> NoRun, due |-> FALSE]

LibraryInit ==
  /\ library = Inactive
  /\ requested = {}
  /\ ticking = [pc |-> "idle", run |-> NoRun, failed |-> FALSE]
  /\ late = [r \in LibraryRun |-> 0]

(* A run that is due but that no tick has seen yet is replaced.  The       *)
(* controller sends one start for each run.                                *)
StartCase(r) ==
  /\ r \notin requested
  /\ requested' = requested \cup {r}
  /\ library' = IF library.run = NoRun \/ library.due THEN [run |-> r, due |-> FALSE]
                ELSE library
  /\ UNCHANGED <<ticking, late>>

(* Without an active case a recovery succeeds too; another run's is refused.*)
RecoverCaseOf(r) ==
  /\ library' = IF library.run = r THEN Inactive ELSE library
  /\ UNCHANGED <<requested, ticking, late>>

LeaseRunsOut ==
  /\ library.run # NoRun /\ ~library.due
  /\ library' = [library EXCEPT !.due = TRUE]
  /\ UNCHANGED <<requested, ticking, late>>

(* tick copies the active case, or ends it when its lease has run out.     *)
Take ==
  /\ ticking.pc = "idle"
  /\ library.run # NoRun
  /\ IF library.due THEN library' = Inactive /\ UNCHANGED ticking
     ELSE /\ ticking' = [pc |-> "executing", run |-> library.run, failed |-> FALSE]
          /\ UNCHANGED library
  /\ UNCHANGED <<requested, late>>

(* Every mechanism raises, except that the hash of resource_cpu may be done*)
(* within its budget.                                                      *)
Failed(r) == IF r \in CpuRun THEN BOOLEAN ELSE {TRUE}

Execute ==
  /\ ticking.pc = "executing"
  /\ \E f \in Failed(ticking.run) :
       ticking' = [ticking EXCEPT !.pc = "counting", !.failed = f]
  /\ UNCHANGED <<library, requested, late>>

(* Mutated Count: a failed attempt is made again at once.                  *)
CountAndRetry ==
  /\ ticking.pc = "counting"
  /\ ticking' = IF ticking.failed THEN [ticking EXCEPT !.pc = "executing"]
                ELSE [pc |-> "idle", run |-> NoRun, failed |-> FALSE]
  /\ late' = IF library.run = ticking.run \/ ~ticking.failed THEN late
             ELSE [late EXCEPT ![ticking.run] = @ + 1]
  /\ UNCHANGED <<library, requested>>

Count ==
  /\ ticking.pc = "counting"
  /\ ticking' = [pc |-> "idle", run |-> NoRun, failed |-> FALSE]
  /\ late' = IF library.run = ticking.run \/ ~ticking.failed THEN late
             ELSE [late EXCEPT ![ticking.run] = @ + 1]
  /\ UNCHANGED <<library, requested>>

LibraryNext ==
  \/ \E r \in LibraryRun : StartCase(r) \/ RecoverCaseOf(r)
  \/ LeaseRunsOut \/ Take \/ Execute \/ Count
=============================================================================
