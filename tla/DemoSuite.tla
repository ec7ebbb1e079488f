----------------------------- MODULE DemoSuite -----------------------------
(***************************************************************************)
(* tools/run_operator_demos.py run: one round after the other, each with   *)
(* its own fault, owned by the round, and a recovery that must be confirmed*)
(* before the next.  One action per remote call or poll; waiting is        *)
(* stuttering, and a poll that has not been satisfied may time out.        *)
(***************************************************************************)
EXTENDS LabApi, OwnedTraffic

CONSTANT Cases  \* the case of each round: "traffic", "plain" or "probe"

ASSUME SuiteAssumption == 1 \in Round /\ Round \subseteq Nat \ {0}

VARIABLES
  runner, \* the process: where it is, its round and what it has to raise
  faults  \* failed calls and signals so far

demoVars == <<labVars, trafficVars, runner, faults>>

Errors == {"Exception", "Interrupt"}

DemoInit ==
  /\ LabInit
  /\ TrafficInit
  /\ faults = 0
  /\ runner = [pc |-> "preflight", round |-> 1, error |-> "none", blind |-> FALSE,
               seen |-> FALSE, trouble |-> FALSE, confirmed |-> FALSE,
               version |-> 0]

This == runner.round
At(pc) == runner.pc = pc
Goto(pc) == runner' = [runner EXCEPT !.pc = pc]

(* A remote call fails, or SIGTERM raises KeyboardInterrupt inside it.     *)
Fault == faults < MaxFaults /\ faults' = faults + 1

(* Raised in the try block: the finally block recovers first.              *)
Raise(e) == runner' = [runner EXCEPT !.pc = "status", !.error = e]

(* Raised by recover_owned: it replaces what was being raised.             *)
RecoveryRaises(e) == runner' = [runner EXCEPT !.pc = "ended", !.error = e]

(* Raised by restore_owned_traffic: recorded, and the recovery goes on; if *)
(* the status could not be read, that error is raised.                     *)
AfterTraffic(r) ==
  runner' = [r EXCEPT !.pc = IF r.blind THEN "ended" ELSE "recover"]

(* Mutated TrafficTrouble: the error is not kept.                          *)
TrafficForgotten == AfterTraffic(runner)

TrafficTrouble == AfterTraffic([runner EXCEPT !.trouble = TRUE])

-----------------------------------------------------------------------------
(* Before the fault: another run, a firing alert, an unsafe node or a failed*)
(* call ends the suite, since the round has no recovery.json.              *)

Preflight ==
  /\ At("preflight")
  /\ \/ /\ active = None
        /\ (\E k \in Round : Cases[k] = "traffic") => Stopped
        /\ Goto("ready")
     \/ Goto("stopped")
  /\ UNCHANGED <<labVars, trafficVars, faults>>

Begins(case) == IF case = "probe" THEN "probe" ELSE "isolate"

Ready ==
  /\ At("ready")
  /\ (active = None /\ Goto(Begins(Cases[This]))) \/ Goto("stopped")
  /\ UNCHANGED <<labVars, trafficVars, faults>>

(* No earlier signal can join the episode of this fault.                   *)
Isolate ==
  /\ At("isolate")
  /\ Goto("baseline") \/ Goto("stopped")
  /\ UNCHANGED <<labVars, trafficVars, faults>>

(* The baseline is read again, held for a minute and still quiet.          *)
HealthyBaseline ==
  /\ At("baseline")
  /\ \/ active = None /\ Goto(IF Cases[This] = "traffic" THEN "prepare" ELSE "post")
     \/ Goto("stopped")
  /\ UNCHANGED <<labVars, trafficVars, faults>>

(* The exporter case is the external probe's, with its own recovery.       *)
RunExporter ==
  /\ At("probe")
  /\ \E e \in Errors \cup {"none"}, confirmed \in BOOLEAN:
       /\ e = "none" => confirmed
       /\ runner' = [runner EXCEPT !.pc = "ended", !.error = e,
                                   !.confirmed = confirmed]
  /\ UNCHANGED <<labVars, trafficVars, faults>>

PrepareTraffic ==
  /\ At("prepare")
  /\ \/ Stopped /\ Prepared(This) /\ Goto("post") /\ UNCHANGED faults
     \/ Raise("Exception") /\ UNCHANGED <<journal, faults>>
     \/ Fault /\ UNCHANGED journal /\ Raise("Interrupt")
  /\ UNCHANGED <<labVars, deployment, writer, edits>>

(* injection-attempt.json is on disk before the only POST.                 *)
PostFault ==
  /\ At("post")
  /\ PostStart(This)
  /\ Goto("posted")
  /\ UNCHANGED <<trafficVars, faults>>

(* lab-control carries out a start, whether or not its client still waits. *)
Acknowledged(case) == IF case = "traffic" THEN "scale" ELSE "observe"

StartAnswered ==
  /\ \/ /\ StartSucceeds(This)
        /\ IF At("posted") THEN Goto(Acknowledged(Cases[This])) ELSE UNCHANGED runner
     \/ /\ StartFails(This)
        /\ IF At("posted") THEN Raise("Exception") ELSE UNCHANGED runner
  /\ UNCHANGED <<trafficVars, faults>>

StartLate ==
  /\ \E o \in starts \ {This}: StartSucceeds(o) \/ StartFails(o)
  /\ UNCHANGED <<trafficVars, runner, faults>>

NoAnswer ==
  /\ At("posted")
  /\ Fault
  /\ \E e \in Errors: Raise(e)
  /\ UNCHANGED <<labVars, trafficVars>>

-----------------------------------------------------------------------------
(* The traffic of an acknowledged run.  The journal says "starting" before *)
(* the call is made; a failed call may have been carried out.              *)

ScaleUp ==
  /\ At("scale")
  /\ Marked(This, "starting")
  /\ \/ Guarded(0, journal[This].version) /\ Scale(This, 1) /\ Goto("scaled")
        /\ UNCHANGED faults
     \/ ~Guarded(0, journal[This].version) /\ Raise("Exception")
        /\ UNCHANGED <<deployment, writer, faults>>
     \/ /\ Fault
        /\ \E e \in Errors: Raise(e)
        /\ \/ Guarded(0, journal[This].version) /\ Scale(This, 1)
           \/ UNCHANGED <<deployment, writer>>
  /\ UNCHANGED <<labVars, edits>>

SeeScaled ==
  /\ At("scaled")
  /\ \/ /\ ScaledUp(This)
        /\ journal' = [journal EXCEPT ![This].applied = deployment.generation]
        /\ Goto("warmup")
        /\ UNCHANGED faults
     \/ ~ScaledUp(This) /\ Raise("Exception") /\ UNCHANGED <<journal, faults>>
     \/ Fault /\ UNCHANGED journal /\ \E e \in Errors: Raise(e)
  /\ UNCHANGED <<labVars, deployment, writer, edits>>

SeeReady ==
  /\ At("warmup")
  /\ \/ Untouched(This) /\ deployment.pods = 1 /\ Marked(This, "started")
        /\ Goto("observe") /\ UNCHANGED faults
     \/ ~(Untouched(This) /\ deployment.pods = 1) /\ Raise("Exception")
        /\ UNCHANGED <<journal, faults>>
     \/ Fault /\ UNCHANGED journal /\ \E e \in Errors: Raise(e)
  /\ UNCHANGED <<labVars, deployment, writer, edits>>

(* The capture is complete, the time is up or the run is over; another run *)
(* is active, the node is unsafe or the episode is not fresh.              *)
Observe ==
  /\ At("observe")
  /\ \/ active \in {This, None} /\ Goto("status") /\ UNCHANGED faults
     \/ active # None /\ Raise("Exception") /\ UNCHANGED faults
     \/ Fault /\ \E e \in Errors: Raise(e)
  /\ UNCHANGED <<labVars, trafficVars>>

-----------------------------------------------------------------------------
(* recover_owned.                                                          *)

ReadStatus ==
  /\ At("status")
  /\ \/ active \in {This, None} /\ UNCHANGED faults
        /\ runner' = [runner EXCEPT !.pc = "restore", !.seen = (active = This)]
     \/ active \notin {This, None} /\ UNCHANGED faults
        /\ RecoveryRaises("Exception")
     \/ /\ Fault
        /\ \E e \in Errors:
             runner' = [runner EXCEPT !.pc = "restore", !.blind = TRUE, !.error = e]
  /\ UNCHANGED <<labVars, trafficVars>>

NothingToRestore ==
  /\ At("restore")
  /\ journal[This].status \in {"none", "prepared"}
  /\ AfterTraffic(runner)
  /\ UNCHANGED <<labVars, trafficVars, faults>>

RestoreTraffic ==
  /\ At("restore")
  /\ journal[This].status \in {"starting", "started"}
  /\ \/ /\ SameObject(This) /\ deployment.replicas = 0
        /\ Marked(This, "restored")
        /\ AfterTraffic(runner)
        /\ UNCHANGED faults
     \/ /\ Restorable(This)
        /\ runner' = [runner EXCEPT !.pc = "down", !.version = deployment.version]
        /\ UNCHANGED <<journal, faults>>
     \/ /\ ~(SameObject(This) /\ deployment.replicas = 0) /\ ~Restorable(This)
        /\ TrafficTrouble
        /\ UNCHANGED <<journal, faults>>
     \/ Fault /\ TrafficTrouble /\ UNCHANGED journal
  /\ UNCHANGED <<labVars, deployment, writer, edits>>

ScaleDown ==
  /\ At("down")
  /\ \/ Guarded(1, runner.version) /\ Scale(This, 0) /\ Goto("drain")
        /\ UNCHANGED faults
     \/ ~Guarded(1, runner.version) /\ TrafficTrouble
        /\ UNCHANGED <<deployment, writer, faults>>
     \/ /\ Fault
        /\ TrafficTrouble
        /\ \/ Guarded(1, runner.version) /\ Scale(This, 0)
           \/ UNCHANGED <<deployment, writer>>
  /\ UNCHANGED <<labVars, journal, edits>>

SeeDrained ==
  /\ At("drain")
  /\ \/ Draining(This) /\ deployment.pods = 0 /\ Marked(This, "restored")
        /\ AfterTraffic(runner) /\ UNCHANGED faults
     \/ ~(Draining(This) /\ deployment.pods = 0) /\ TrafficTrouble
        /\ UNCHANGED <<journal, faults>>
     \/ Fault /\ TrafficTrouble /\ UNCHANGED journal
  /\ UNCHANGED <<labVars, deployment, writer, edits>>

(* One POST to /api/recover, and only if the status read showed the run.   *)
RecoverRun ==
  /\ At("recover")
  /\ \/ ~runner.seen /\ Goto("verify") /\ UNCHANGED <<labVars, faults>>
     \/ runner.seen /\ RecoverOwned(This) /\ Goto("verify") /\ UNCHANGED faults
     \/ /\ runner.seen
        /\ RecoverPending(This) \/ RecoverRefused(This)
        /\ RecoveryRaises("Exception")
        /\ UNCHANGED faults
     \/ /\ runner.seen
        /\ Fault
        /\ RecoverOwned(This) \/ UNCHANGED labVars
        /\ \E e \in Errors: RecoveryRaises(e)
  /\ UNCHANGED trafficVars

(* No run is active any more and the baseline is back: recovery.json.      *)
Verify ==
  /\ At("verify")
  /\ \/ /\ active = None
        /\ runner' = [runner EXCEPT !.pc = "ended", !.confirmed = TRUE,
                        !.error = IF runner.trouble THEN "Exception" ELSE @]
        /\ UNCHANGED faults
     \/ active # None /\ RecoveryRaises("Exception") /\ UNCHANGED faults
     \/ Fault /\ \E e \in Errors: RecoveryRaises(e)
  /\ UNCHANGED <<labVars, trafficVars>>

(* The suite goes on after a failed round only if its recovery was         *)
(* confirmed and it was not interrupted.                                   *)
Continues == runner.confirmed /\ runner.error # "Interrupt"

NextRound ==
  IF This + 1 \notin Round THEN Goto("done")
  ELSE runner' = [runner EXCEPT !.pc = "ready", !.round = This + 1,
                    !.error = "none", !.seen = FALSE, !.trouble = FALSE,
                    !.confirmed = FALSE, !.version = 0]

EndRound ==
  /\ At("ended")
  /\ IF Continues THEN NextRound ELSE Goto("stopped")
  /\ UNCHANGED <<labVars, trafficVars, faults>>

(* SIGTERM while the assessment of a captured round is awaited.            *)
Interrupted ==
  /\ At("ended") /\ Continues /\ runner.error = "none"
  /\ Fault
  /\ Goto("stopped")
  /\ UNCHANGED <<labVars, trafficVars>>

-----------------------------------------------------------------------------
RunnerStep ==
  \/ Preflight \/ Ready \/ Isolate \/ HealthyBaseline \/ RunExporter \/ PrepareTraffic
  \/ PostFault \/ NoAnswer \/ ScaleUp \/ SeeScaled \/ SeeReady \/ Observe
  \/ ReadStatus \/ NothingToRestore \/ RestoreTraffic \/ ScaleDown
  \/ SeeDrained \/ RecoverRun \/ Verify \/ EndRound \/ Interrupted

DemoEnvironment ==
  \/ (Reconcile \/ OperatorEdits) /\ UNCHANGED <<labVars, runner, faults>>
  \/ StartAnswered
  \/ StartLate
  \/ RunEnds /\ UNCHANGED <<trafficVars, runner, faults>>
=============================================================================
