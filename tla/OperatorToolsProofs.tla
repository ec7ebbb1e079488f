------------------------ MODULE OperatorToolsProofs ------------------------
(***************************************************************************)
(* What a demo suite does to the Lab and to the traffic generator, for any *)
(* number of rounds, failed calls, signals and edits.                      *)
(***************************************************************************)
EXTENDS OperatorTools, TLAPS

(* The fields of the records, and the versions as numbers.                 *)
DeploymentShape ==
  /\ deployment = [uid |-> deployment.uid, replicas |-> deployment.replicas,
                   generation |-> deployment.generation,
                   version |-> deployment.version, pods |-> deployment.pods]
  /\ deployment.version \in Nat \ {0}
  /\ writer \in Nat

JournalShape ==
  /\ journal = [k \in Round |-> journal[k]]
  /\ \A k \in Round :
       /\ journal[k] = [status |-> journal[k].status, uid |-> journal[k].uid,
                        generation |-> journal[k].generation,
                        version |-> journal[k].version, applied |-> journal[k].applied]
       /\ journal[k].version \in Nat

RunnerShape ==
  /\ runner = [pc |-> runner.pc, round |-> runner.round, error |-> runner.error,
               blind |-> runner.blind, seen |-> runner.seen,
               trouble |-> runner.trouble, confirmed |-> runner.confirmed,
               version |-> runner.version]
  /\ runner.round \in Round /\ runner.version \in Nat
  /\ runner.blind \in BOOLEAN /\ runner.confirmed \in BOOLEAN /\ runner.trouble \in BOOLEAN

(* A version stands for one state of the Deployment: the one a round has   *)
(* prepared on, and the one a restoration has read.                        *)
VersionsName ==
  /\ \A k \in Round :
       /\ journal[k].version <= deployment.version
       /\ journal[k].version = deployment.version =>
            /\ SameObject(k) /\ Stopped
            /\ deployment.generation = journal[k].generation
  /\ At("down") =>
       /\ runner.version <= deployment.version
       /\ runner.version = deployment.version =>
            SameObject(This) /\ deployment.generation = Expected(This)

Before == {"preflight", "ready", "probe", "isolate", "baseline", "prepare", "post",
           "posted", "scale"}
During == {"scaled", "warmup", "observe", "status", "restore", "down"}
After == {"recover", "verify", "ended"}

(* Rounds scale up one after the other, and none scales up again once it   *)
(* has restored.                                                           *)
WriterFits ==
  /\ writer <= This
  /\ runner.pc \in Before => writer # This
  /\ runner.pc \in During /\ writer = This => deployment.replicas = 1
  /\ runner.pc \in {"down", "drain"} => journal[This].status \in {"starting", "started"}
  /\ writer # 0 => writer \in Round

(* What could not be restored is on record.                                *)
Reported ==
  /\ runner.pc \in Before \cup During \cup {"drain"} => ~runner.confirmed
  /\ runner.pc \in Before \cup {"scaled", "warmup", "observe", "status", "recover", "verify"}
       => ~runner.blind
  /\ runner.confirmed => ~runner.blind
  /\ (runner.pc \in After /\ writer = This /\ deployment.replicas = 1) =>
       runner.trouble \/ (runner.pc = "ended" /\ ~runner.confirmed /\ ~runner.blind)

Shape == DeploymentShape /\ JournalShape /\ RunnerShape
ToolsInv == Shape /\ VersionsName /\ WriterFits /\ ScaleUpIsJournaled /\ Reported

-----------------------------------------------------------------------------
LEMMA ToolsInitially == ToolsInit => ToolsInv
BY SuiteAssumption
   DEF ToolsInit, DemoInit, TrafficInit, NoJournal, ToolsInv, Shape, DeploymentShape,
       JournalShape, RunnerShape, VersionsName, WriterFits,
       ScaleUpIsJournaled, Reported, At, This, SameObject, Stopped, Before, During, After

(* What a call to scale and a mark in a journal do.                        *)
LEMMA ScaleFacts ==
  ASSUME DeploymentShape, NEW k \in Nat, NEW n, Scale(k, n)
  PROVE  /\ writer' = k
         /\ DeploymentShape'
         /\ deployment'.uid = deployment.uid
         /\ deployment'.replicas = n
         /\ deployment'.generation = deployment.generation + 1
         /\ deployment'.version = deployment.version + 1
         /\ deployment'.pods = deployment.pods
<1>1. deployment' = [uid |-> deployment.uid, replicas |-> n,
                     generation |-> deployment.generation + 1,
                     version |-> deployment.version + 1, pods |-> deployment.pods]
  BY DEF Scale, DeploymentShape
<1>2. /\ deployment'.uid = deployment.uid /\ deployment'.replicas = n
      /\ deployment'.generation = deployment.generation + 1
      /\ deployment'.version = deployment.version + 1
      /\ deployment'.pods = deployment.pods
  BY <1>1
<1>3. deployment' = [uid |-> deployment'.uid, replicas |-> deployment'.replicas,
                     generation |-> deployment'.generation,
                     version |-> deployment'.version, pods |-> deployment'.pods]
  BY <1>1
<1>4. writer' = k /\ deployment'.version \in Nat \ {0}
  BY <1>2 DEF Scale, DeploymentShape
<1> QED BY <1>2, <1>3, <1>4 DEF DeploymentShape

LEMMA MarkedFacts ==
  ASSUME JournalShape, NEW k \in Round, NEW s, Marked(k, s)
  PROVE  /\ JournalShape'
         /\ \A j \in Round \ {k} : journal'[j] = journal[j]
         /\ journal'[k].status = s
         /\ journal'[k].version = journal[k].version
         /\ journal'[k].generation = journal[k].generation
         /\ journal'[k].applied = journal[k].applied
         /\ journal'[k].uid = journal[k].uid
BY DEF Marked, JournalShape

(* The runner after a step: where it goes and what it keeps.               *)
RunnerTo(p, b, t, c, v) ==
  /\ RunnerShape'
  /\ runner'.pc = p /\ runner'.round = runner.round
  /\ runner'.blind = b /\ runner'.trouble = t /\ runner'.confirmed = c
  /\ runner'.version = v

Goes(p) == RunnerTo(p, runner.blind, runner.trouble, runner.confirmed, runner.version)

LEMMA GotoFacts ==
  ASSUME RunnerShape, NEW p, Goto(p) \/ \E e : runner' = [runner EXCEPT !.pc = p, !.error = e]
  PROVE  Goes(p)
BY DEF Goto, RunnerShape, Goes, RunnerTo

LEMMA RaiseFacts == ASSUME RunnerShape, NEW e, Raise(e) PROVE Goes("status")
BY DEF Raise, RunnerShape, Goes, RunnerTo

LEMMA TroubleFacts ==
  ASSUME RunnerShape, TrafficTrouble
  PROVE  RunnerTo(IF runner.blind THEN "ended" ELSE "recover", runner.blind, TRUE,
                  runner.confirmed, runner.version)
BY DEF TrafficTrouble, AfterTraffic, RunnerShape, RunnerTo

LEMMA AfterTrafficFacts ==
  ASSUME RunnerShape, AfterTraffic(runner)
  PROVE  Goes(IF runner.blind THEN "ended" ELSE "recover")
BY DEF AfterTraffic, RunnerShape, RunnerTo, Goes

-----------------------------------------------------------------------------
(* A step that touches neither the Deployment nor a journal.               *)
LEMMA QuietKeeps ==
  ASSUME ToolsInv, UNCHANGED <<deployment, writer, journal>>,
         RunnerShape', runner'.round = runner.round, runner'.pc \notin {"down", "drain"},
         runner'.pc \in Before => runner.pc \in Before,
         runner'.pc \in During => runner.pc \in Before \cup During,
         Reported'
  PROVE  ToolsInv'
BY DEF ToolsInv, Shape, DeploymentShape, JournalShape, VersionsName, WriterFits,
       ScaleUpIsJournaled, At, This, SameObject, Stopped, Expected

LEMMA QuietStepKeeps ==
  ASSUME ToolsInv,
         \/ Preflight \/ Ready \/ Isolate \/ HealthyBaseline \/ RunExporter \/ PostFault
         \/ NoAnswer \/ Observe \/ ReadStatus \/ NothingToRestore \/ RecoverRun
         \/ Verify \/ Interrupted
  PROVE  ToolsInv'
<1> USE DEF At, This, Before, During, After, Goto, trafficVars
<1>0. RunnerShape /\ Reported /\ WriterFits /\ ScaleUpIsJournaled
  BY DEF ToolsInv, Shape
<1> DEFINE Quiet == /\ UNCHANGED <<deployment, writer, journal>>
                    /\ RunnerShape' /\ runner'.round = runner.round
                    /\ runner'.pc \notin {"down", "drain"}
                    /\ runner'.pc \in Before => runner.pc \in Before
                    /\ runner'.pc \in During => runner.pc \in Before \cup During
                    /\ Reported'
<1>1. ASSUME Preflight PROVE Quiet
  BY <1>0, <1>1 DEF Preflight, RunnerShape, Reported, WriterFits
<1>2. ASSUME Ready PROVE Quiet
  BY <1>0, <1>2 DEF Ready, RunnerShape, Reported, WriterFits, Begins
<1>3. ASSUME Isolate PROVE Quiet
  BY <1>0, <1>3 DEF Isolate, RunnerShape, Reported, WriterFits
<1>4. ASSUME HealthyBaseline PROVE Quiet
  BY <1>0, <1>4 DEF HealthyBaseline, RunnerShape, Reported, WriterFits
<1>5. ASSUME RunExporter PROVE Quiet
  BY <1>0, <1>5 DEF RunExporter, RunnerShape, Reported, WriterFits, Errors
<1>6. ASSUME PostFault PROVE Quiet
  BY <1>0, <1>6 DEF PostFault, RunnerShape, Reported, WriterFits
<1>7. ASSUME NoAnswer PROVE Quiet
  BY <1>0, <1>7 DEF NoAnswer, RunnerShape, Reported, WriterFits, Raise
<1>8. ASSUME Observe PROVE Quiet
  BY <1>0, <1>8 DEF Observe, RunnerShape, Reported, WriterFits, Raise
<1>9. ASSUME ReadStatus PROVE Quiet
  BY <1>0, <1>9 DEF ReadStatus, RunnerShape, Reported, WriterFits, RecoveryRaises
<1>10. ASSUME NothingToRestore PROVE Quiet
  <2>1. Goes(IF runner.blind THEN "ended" ELSE "recover")
    BY <1>0, <1>10, AfterTrafficFacts DEF NothingToRestore
  <2>2. This # 0 /\ journal[This].status \in {"none", "prepared"}
    BY <1>0, <1>10, SuiteAssumption DEF NothingToRestore, RunnerShape
  <2>3. writer = This => deployment.replicas # 1
    BY <1>0, <2>2 DEF ScaleUpIsJournaled
  <2> QED BY <1>0, <1>10, <2>1, <2>3
          DEF NothingToRestore, RunnerShape, Reported, Goes, RunnerTo
<1>11. ASSUME RecoverRun PROVE Quiet
  BY <1>0, <1>11 DEF RecoverRun, RunnerShape, Reported, WriterFits, RecoveryRaises
<1>12. ASSUME Verify PROVE Quiet
  BY <1>0, <1>12 DEF Verify, RunnerShape, Reported, WriterFits, RecoveryRaises
<1>13. ASSUME Interrupted PROVE Quiet
  BY <1>0, <1>13 DEF Interrupted, RunnerShape, Reported, WriterFits, Continues
<1> QED BY <1>1, <1>2, <1>3, <1>4, <1>5, <1>6, <1>7, <1>8, <1>9, <1>10, <1>11, <1>12, <1>13, QuietKeeps

LEMMA EndRoundKeeps ==
  ASSUME ToolsInv, EndRound
  PROVE  ToolsInv'
<1>1. /\ UNCHANGED <<deployment, journal, writer>> /\ runner.pc = "ended" /\ RunnerShape
      /\ \/ Goto("done") \/ Goto("stopped")
         \/ Continues /\ This + 1 \in Round
            /\ runner' = [runner EXCEPT !.pc = "ready", !.round = This + 1,
                    !.error = "none", !.seen = FALSE, !.trouble = FALSE,
                    !.confirmed = FALSE, !.version = 0]
  BY DEF EndRound, At, trafficVars, NextRound, ToolsInv, Shape
<1>2. ASSUME NEW p \in {"done", "stopped"}, Goto(p) PROVE ToolsInv'
  BY <1>1, <1>2, GotoFacts, QuietKeeps
     DEF ToolsInv, Reported, Before, During, After, Goes, RunnerTo
<1>3. CASE /\ Continues /\ This + 1 \in Round
           /\ runner' = [runner EXCEPT !.pc = "ready", !.round = This + 1,
                    !.error = "none", !.seen = FALSE, !.trouble = FALSE,
                    !.confirmed = FALSE, !.version = 0]
  <2>1. /\ RunnerShape' /\ runner'.pc = "ready" /\ runner'.round = This + 1
        /\ runner'.blind = runner.blind /\ ~runner'.confirmed
    BY <1>1, <1>3 DEF RunnerShape, This
  <2>2. ~runner.blind /\ This \in Nat /\ writer \in Nat
    BY <1>1, <1>3, SuiteAssumption
       DEF Continues, ToolsInv, Reported, RunnerShape, This, Shape, DeploymentShape
  <2> QED BY <1>1, <2>1, <2>2
       DEF ToolsInv, Shape, DeploymentShape, JournalShape, VersionsName,
           WriterFits, ScaleUpIsJournaled, Reported, At, This, SameObject, Stopped,
           Expected, Before, During, After, RunnerTo, Goes
<1> QED BY <1>1, <1>2, <1>3

LEMMA PrepareTrafficKeeps ==
  ASSUME ToolsInv, PrepareTraffic
  PROVE  ToolsInv'
<1>1. UNCHANGED <<deployment, writer>> /\ runner.pc = "prepare" /\ RunnerShape
      /\ ((Stopped /\ Prepared(This) /\ Goto("post"))
          \/ \E e : Raise(e) /\ UNCHANGED journal)
  BY DEF PrepareTraffic, At, ToolsInv, Shape
<1>2. CASE \E e : Raise(e) /\ UNCHANGED journal
  BY <1>1, <1>2, RaiseFacts, QuietKeeps
     DEF ToolsInv, Reported, Before, During, After, Goes, RunnerTo
<1>3. CASE Stopped /\ Prepared(This) /\ Goto("post")
  <2>1. Goes("post")
    BY <1>1, <1>3, GotoFacts
  <2>2. /\ JournalShape' /\ \A j \in Round \ {This} : journal'[j] = journal[j]
        /\ journal'[This].version = deployment.version
        /\ journal'[This].generation = deployment.generation
        /\ journal'[This].uid = deployment.uid
    BY <1>1, <1>3 DEF Prepared, ToolsInv, Shape, JournalShape, DeploymentShape, RunnerShape, This
  <2> QED BY <1>1, <1>3, <2>1, <2>2
       DEF ToolsInv, Shape, DeploymentShape, JournalShape, VersionsName,
           WriterFits, ScaleUpIsJournaled, Reported, At, This, SameObject, Stopped,
           Expected, Before, During, After, RunnerTo, Goes
<1> QED BY <1>1, <1>2, <1>3

LEMMA ScaleUpKeeps ==
  ASSUME ToolsInv, ScaleUp
  PROVE  ToolsInv'
<1>1. /\ runner.pc = "scale" /\ Shape /\ Marked(This, "starting") /\ This \in Round /\ This \in Nat
      /\ \/ Scale(This, 1) /\ (Goto("scaled") \/ \E e : Raise(e))
         \/ UNCHANGED <<deployment, writer>> /\ \E e : Raise(e)
  BY SuiteAssumption DEF ScaleUp, At, ToolsInv, Shape, RunnerShape, This
<1>2. /\ JournalShape' /\ \A j \in Round \ {This} : journal'[j] = journal[j]
      /\ journal'[This].status = "starting"
      /\ journal'[This].version = journal[This].version
      /\ journal'[This].generation = journal[This].generation
      /\ journal'[This].uid = journal[This].uid
  BY <1>1, MarkedFacts DEF Shape
<1>3. \/ Scale(This, 1) /\ (Goes("scaled") \/ Goes("status"))
      \/ UNCHANGED <<deployment, writer>> /\ Goes("status")
  BY <1>1, GotoFacts, RaiseFacts DEF Shape
<1>4. CASE Scale(This, 1)
  <2>1. /\ writer' = This /\ DeploymentShape' /\ deployment'.replicas = 1
        /\ deployment'.version = deployment.version + 1
    BY <1>1, <1>4, ScaleFacts DEF Shape
  <2>2. Goes("scaled") \/ Goes("status")
    BY <1>3
  <2> QED BY <1>1, <1>2, <2>1, <2>2
       DEF ToolsInv, Shape, DeploymentShape, JournalShape, VersionsName,
           WriterFits, ScaleUpIsJournaled, Reported, At, This, SameObject, Stopped,
           Expected, Before, During, After, RunnerTo, Goes
<1>5. CASE UNCHANGED <<deployment, writer>> /\ Goes("status")
  BY <1>1, <1>2, <1>5
       DEF ToolsInv, Shape, DeploymentShape, JournalShape, VersionsName,
           WriterFits, ScaleUpIsJournaled, Reported, At, This, SameObject, Stopped,
           Expected, Before, During, After, RunnerTo, Goes
<1> QED BY <1>3, <1>4, <1>5

LEMMA SeeScaledKeeps ==
  ASSUME ToolsInv, SeeScaled
  PROVE  ToolsInv'
<1>1. /\ runner.pc = "scaled" /\ Shape /\ This \in Round /\ UNCHANGED <<deployment, writer>>
      /\ \/ /\ journal' = [journal EXCEPT ![This].applied = deployment.generation]
            /\ Goto("warmup")
         \/ UNCHANGED journal /\ \E e : Raise(e)
  BY DEF SeeScaled, At, ToolsInv, Shape, RunnerShape, This
<1>2. CASE UNCHANGED journal /\ \E e : Raise(e)
  BY <1>1, <1>2, RaiseFacts, QuietKeeps
     DEF ToolsInv, Shape, Reported, Before, During, After, Goes, RunnerTo
<1>3. CASE /\ journal' = [journal EXCEPT ![This].applied = deployment.generation]
           /\ Goto("warmup")
  <2>1. Goes("warmup")
    BY <1>1, <1>3, GotoFacts DEF Shape
  <2>2. /\ JournalShape'
        /\ \A j \in Round : /\ journal'[j].version = journal[j].version
                            /\ journal'[j].generation = journal[j].generation
                            /\ journal'[j].uid = journal[j].uid
                            /\ journal'[j].status = journal[j].status
    BY <1>1, <1>3 DEF Shape, JournalShape
  <2> QED BY <1>1, <2>1, <2>2
       DEF ToolsInv, Shape, DeploymentShape, JournalShape, VersionsName,
           WriterFits, ScaleUpIsJournaled, Reported, At, This, SameObject, Stopped,
           Expected, Before, During, After, RunnerTo, Goes
<1> QED BY <1>1, <1>2, <1>3

LEMMA SeeReadyKeeps ==
  ASSUME ToolsInv, SeeReady
  PROVE  ToolsInv'
<1>1. /\ runner.pc = "warmup" /\ Shape /\ This \in Round /\ UNCHANGED <<deployment, writer>>
      /\ \/ Marked(This, "started") /\ Goto("observe")
         \/ UNCHANGED journal /\ \E e : Raise(e)
  BY DEF SeeReady, At, ToolsInv, Shape, RunnerShape, This
<1>2. CASE UNCHANGED journal /\ \E e : Raise(e)
  BY <1>1, <1>2, RaiseFacts, QuietKeeps
     DEF ToolsInv, Shape, Reported, Before, During, After, Goes, RunnerTo
<1>3. CASE Marked(This, "started") /\ Goto("observe")
  <2>1. Goes("observe")
    BY <1>1, <1>3, GotoFacts DEF Shape
  <2>2. /\ JournalShape' /\ \A j \in Round \ {This} : journal'[j] = journal[j]
        /\ journal'[This].status = "started"
        /\ journal'[This].version = journal[This].version
        /\ journal'[This].generation = journal[This].generation
        /\ journal'[This].uid = journal[This].uid
    BY <1>1, <1>3, MarkedFacts DEF Shape
  <2> QED BY <1>1, <2>1, <2>2
       DEF ToolsInv, Shape, DeploymentShape, JournalShape, VersionsName,
           WriterFits, ScaleUpIsJournaled, Reported, At, This, SameObject, Stopped,
           Expected, Before, During, After, RunnerTo, Goes
<1> QED BY <1>1, <1>2, <1>3

LEMMA RestoreTrafficKeeps ==
  ASSUME ToolsInv, RestoreTraffic
  PROVE  ToolsInv'
<1>1. /\ runner.pc = "restore" /\ Shape /\ This \in Round /\ UNCHANGED <<deployment, writer>>
      /\ journal[This].status \in {"starting", "started"}
      /\ \/ deployment.replicas = 0 /\ Marked(This, "restored") /\ AfterTraffic(runner)
         \/ /\ Restorable(This) /\ UNCHANGED journal
            /\ runner' = [runner EXCEPT !.pc = "down", !.version = deployment.version]
         \/ TrafficTrouble /\ UNCHANGED journal
  BY DEF RestoreTraffic, At, ToolsInv, Shape, RunnerShape, This
<1>2. CASE TrafficTrouble /\ UNCHANGED journal
  BY <1>1, <1>2, TroubleFacts, QuietKeeps
     DEF ToolsInv, Shape, Reported, Before, During, After, RunnerTo
<1>3. CASE deployment.replicas = 0 /\ Marked(This, "restored") /\ AfterTraffic(runner)
  <2>1. Goes(IF runner.blind THEN "ended" ELSE "recover")
    BY <1>1, <1>3, AfterTrafficFacts DEF Shape
  <2>2. /\ JournalShape' /\ \A j \in Round \ {This} : journal'[j] = journal[j]
        /\ journal'[This].version = journal[This].version
        /\ journal'[This].generation = journal[This].generation
        /\ journal'[This].uid = journal[This].uid
    BY <1>1, <1>3, MarkedFacts DEF Shape
  <2>3. writer # This
    BY <1>1, <1>3 DEF ToolsInv, WriterFits, During
  <2> QED BY <1>1, <1>3, <2>1, <2>2, <2>3
       DEF ToolsInv, Shape, DeploymentShape, JournalShape, VersionsName,
           WriterFits, ScaleUpIsJournaled, Reported, At, This, SameObject, Stopped,
           Expected, Before, During, After, RunnerTo, Goes
<1>4. CASE /\ Restorable(This) /\ UNCHANGED journal
           /\ runner' = [runner EXCEPT !.pc = "down", !.version = deployment.version]
  <2>1. RunnerTo("down", runner.blind, runner.trouble, runner.confirmed, deployment.version)
    BY <1>1, <1>4 DEF Shape, RunnerShape, DeploymentShape, RunnerTo
  <2>2. /\ deployment.generation = Expected(This) /\ Expected(This)' = Expected(This)
        /\ SameObject(This) /\ SameObject(This)'
    BY <1>1, <1>4, <2>1 DEF Restorable, Expected, SameObject, RunnerTo, This
  <2> QED BY <1>1, <1>4, <2>1, <2>2, SMTT(30)
       DEF ToolsInv, Shape, DeploymentShape, JournalShape, VersionsName,
           WriterFits, ScaleUpIsJournaled, Reported, At, This, SameObject, Stopped,
           Expected, Before, During, After, RunnerTo, Goes
<1> QED BY <1>1, <1>2, <1>3, <1>4

LEMMA ScaleDownKeeps ==
  ASSUME ToolsInv, ScaleDown
  PROVE  ToolsInv'
<1>1. /\ runner.pc = "down" /\ Shape /\ This \in Round /\ This \in Nat /\ UNCHANGED journal
      /\ journal[This].status \in {"starting", "started"}
      /\ \/ Scale(This, 0) /\ (Goto("drain") \/ TrafficTrouble)
         \/ TrafficTrouble /\ UNCHANGED <<deployment, writer>>
  BY SuiteAssumption DEF ScaleDown, At, ToolsInv, Shape, RunnerShape, WriterFits, This
<1>2. CASE TrafficTrouble /\ UNCHANGED <<deployment, writer>>
  BY <1>1, <1>2, TroubleFacts, QuietKeeps
     DEF ToolsInv, Shape, Reported, Before, During, After, RunnerTo
<1>3. CASE Scale(This, 0) /\ (Goto("drain") \/ TrafficTrouble)
  <2>1. /\ writer' = This /\ DeploymentShape' /\ deployment'.replicas = 0
        /\ deployment'.version = deployment.version + 1
    BY <1>1, <1>3, ScaleFacts DEF Shape
  <2>2. \/ Goes("drain")
        \/ RunnerTo(IF runner.blind THEN "ended" ELSE "recover", runner.blind, TRUE,
                    runner.confirmed, runner.version)
    BY <1>1, <1>3, GotoFacts, TroubleFacts DEF Shape
  <2> QED BY <1>1, <2>1, <2>2
       DEF ToolsInv, Shape, DeploymentShape, JournalShape, VersionsName,
           WriterFits, ScaleUpIsJournaled, Reported, At, This, SameObject, Stopped,
           Expected, Before, During, After, RunnerTo, Goes
<1> QED BY <1>1, <1>2, <1>3

LEMMA SeeDrainedKeeps ==
  ASSUME ToolsInv, SeeDrained
  PROVE  ToolsInv'
<1>1. /\ runner.pc = "drain" /\ Shape /\ This \in Round /\ UNCHANGED <<deployment, writer>>
      /\ \/ Stopped /\ Marked(This, "restored") /\ AfterTraffic(runner)
         \/ TrafficTrouble /\ UNCHANGED journal
  BY DEF SeeDrained, At, ToolsInv, Shape, RunnerShape, Draining, Stopped, This
<1>2. CASE TrafficTrouble /\ UNCHANGED journal
  BY <1>1, <1>2, TroubleFacts, QuietKeeps
     DEF ToolsInv, Shape, Reported, Before, During, After, RunnerTo
<1>3. CASE Stopped /\ Marked(This, "restored") /\ AfterTraffic(runner)
  <2>1. Goes(IF runner.blind THEN "ended" ELSE "recover")
    BY <1>1, <1>3, AfterTrafficFacts DEF Shape
  <2>2. /\ JournalShape' /\ \A j \in Round \ {This} : journal'[j] = journal[j]
        /\ journal'[This].version = journal[This].version
        /\ journal'[This].generation = journal[This].generation
        /\ journal'[This].uid = journal[This].uid
    BY <1>1, <1>3, MarkedFacts DEF Shape
  <2> QED BY <1>1, <1>3, <2>1, <2>2
       DEF ToolsInv, Shape, DeploymentShape, JournalShape, VersionsName,
           WriterFits, ScaleUpIsJournaled, Reported, At, This, SameObject, Stopped,
           Expected, Before, During, After, RunnerTo, Goes
<1> QED BY <1>1, <1>2, <1>3
-----------------------------------------------------------------------------
(* The API server, the operators, lab-control and the other client.        *)
LEMMA RoundsArePositive == ASSUME RunnerShape PROVE This \in Round /\ This \in Nat \ {0}
BY SuiteAssumption DEF RunnerShape, This

LEMMA ReconcileKeeps ==
  ASSUME ToolsInv, Reconcile, UNCHANGED runner
  PROVE  ToolsInv'
<1>1. /\ deployment' = [uid |-> deployment.uid, replicas |-> deployment.replicas,
                        generation |-> deployment.generation,
                        version |-> deployment.version + 1,
                        pods |-> deployment.replicas]
      /\ UNCHANGED <<writer, journal>>
  BY DEF Reconcile, ToolsInv, Shape, DeploymentShape
<1>2. /\ deployment'.version = deployment.version + 1
      /\ deployment'.replicas = deployment.replicas
      /\ deployment'.pods = deployment.replicas
      /\ DeploymentShape'
  BY <1>1 DEF ToolsInv, Shape, DeploymentShape
<1> QED BY <1>1, <1>2
     DEF ToolsInv, Shape, DeploymentShape, JournalShape, RunnerShape, VersionsName,
         WriterFits, ScaleUpIsJournaled, Reported, At, This, SameObject, Stopped, Expected,
         Before, During, After

LEMMA OperatorEditsKeep ==
  ASSUME ToolsInv, OperatorEdits, UNCHANGED runner
  PROVE  ToolsInv'
<1>0. Shape /\ UNCHANGED journal /\ This # 0 /\ This \in Nat
  BY RoundsArePositive DEF ToolsInv, Shape, OperatorEdits
<1>1. CASE \E n \in {0, 1, 2} \ {deployment.replicas} : Scale(0, n)
  <2>1. /\ writer' = 0 /\ DeploymentShape' /\ deployment'.version = deployment.version + 1
    BY <1>0, <1>1, ScaleFacts DEF Shape
  <2> QED BY <1>0, <2>1
     DEF ToolsInv, Shape, DeploymentShape, JournalShape, RunnerShape, VersionsName,
         WriterFits, ScaleUpIsJournaled, Reported, At, This, SameObject, Stopped, Expected,
         Before, During, After
<1>2. CASE deployment' = [deployment EXCEPT !.generation = @ + 1, !.version = @ + 1]
           /\ UNCHANGED writer
  <2>1. deployment' = [uid |-> deployment.uid, replicas |-> deployment.replicas,
                       generation |-> deployment.generation + 1,
                       version |-> deployment.version + 1, pods |-> deployment.pods]
    BY <1>0, <1>2 DEF Shape, DeploymentShape
  <2>2. /\ deployment'.version = deployment.version + 1
        /\ deployment'.replicas = deployment.replicas
        /\ deployment'.pods = deployment.pods
    BY <2>1
  <2>3. DeploymentShape'
    <3>1. deployment' = [uid |-> deployment'.uid, replicas |-> deployment'.replicas,
                         generation |-> deployment'.generation,
                         version |-> deployment'.version, pods |-> deployment'.pods]
      BY <2>1
    <3> QED BY <1>0, <1>2, <2>2, <3>1 DEF Shape, DeploymentShape
  <2> QED BY <1>0, <1>2, <2>2, <2>3
     DEF ToolsInv, Shape, DeploymentShape, JournalShape, RunnerShape, VersionsName,
         WriterFits, ScaleUpIsJournaled, Reported, At, This, SameObject, Stopped, Expected,
         Before, During, After
<1>3. CASE /\ deployment' = [uid |-> deployment.uid + 1, replicas |-> 0,
                             generation |-> 1, pods |-> 0,
                             version |-> deployment.version + 1]
           /\ writer' = 0
  <2>1. deployment'.version = deployment.version + 1 /\ DeploymentShape'
    BY <1>0, <1>3 DEF Shape, DeploymentShape
  <2> QED BY <1>0, <1>3, <2>1
     DEF ToolsInv, Shape, DeploymentShape, JournalShape, RunnerShape, VersionsName,
         WriterFits, ScaleUpIsJournaled, Reported, At, This, SameObject, Stopped, Expected,
         Before, During, After
<1> QED BY <1>1, <1>2, <1>3 DEF OperatorEdits

LEMMA AnswerKeeps ==
  ASSUME ToolsInv, StartAnswered
  PROVE  ToolsInv'
<1>1. UNCHANGED <<deployment, writer, journal>> /\ RunnerShape
      /\ (UNCHANGED runner \/ (At("posted") /\ (Goto("scale") \/ Goto("observe") \/ Raise("Exception"))))
  BY DEF StartAnswered, trafficVars, Acknowledged, ToolsInv, Shape
<1>2. CASE UNCHANGED runner
  BY <1>1, <1>2
     DEF ToolsInv, Shape, DeploymentShape, JournalShape, RunnerShape, VersionsName,
         WriterFits, ScaleUpIsJournaled, Reported, At, This, SameObject, Stopped, Expected
<1>3. CASE At("posted") /\ (Goto("scale") \/ Goto("observe") \/ Raise("Exception"))
  <2>1. Goes("scale") \/ Goes("observe") \/ Goes("status")
    BY <1>1, <1>3, GotoFacts, RaiseFacts
  <2> QED BY <1>1, <1>3, <2>1, QuietKeeps
       DEF ToolsInv, Reported, At, Before, During, After, Goes, RunnerTo
<1> QED BY <1>1, <1>2, <1>3

LEMMA UntouchedKeeps ==
  ASSUME ToolsInv, UNCHANGED <<trafficVars, runner>>
  PROVE  ToolsInv'
BY DEF ToolsInv, Shape, DeploymentShape, JournalShape, RunnerShape, VersionsName, trafficVars,
       WriterFits, ScaleUpIsJournaled, Reported, At, This, SameObject, Stopped, Expected

-----------------------------------------------------------------------------
LEMMA RunnerKeeps == ASSUME ToolsInv, RunnerStep PROVE ToolsInv'
BY QuietStepKeeps, EndRoundKeeps, PrepareTrafficKeeps, ScaleUpKeeps, SeeScaledKeeps,
   SeeReadyKeeps, RestoreTrafficKeeps, ScaleDownKeeps, SeeDrainedKeeps
   DEF RunnerStep

LEMMA ToolsStep == ToolsInv /\ [ToolsNext]_toolVars => ToolsInv'
<1> SUFFICES ASSUME ToolsInv, [ToolsNext]_toolVars PROVE ToolsInv'
  OBVIOUS
<1>1. CASE RunnerStep
  BY <1>1, RunnerKeeps
<1>2. CASE DemoEnvironment
  BY <1>2, ReconcileKeeps, OperatorEditsKeep, AnswerKeeps, UntouchedKeeps
     DEF DemoEnvironment, StartLate
<1>3. CASE UNCHANGED <<trafficVars, runner>>
  BY <1>3, UntouchedKeeps
<1> QED BY <1>1, <1>2, <1>3 DEF ToolsNext, toolVars, demoVars

LEMMA ToolsInvariance == ToolsSpec => []ToolsInv
BY ToolsInitially, ToolsStep, PTL DEF ToolsSpec

(* While the replicas are a round's own scale-up its journal says so, for  *)
(* any number of rounds, failed calls, signals and edits.                  *)
THEOREM ScaleUpJournaled == ToolsSpec => []ScaleUpIsJournaled
<1>1. ToolsInv => ScaleUpIsJournaled
  BY DEF ToolsInv
<1> QED BY <1>1, ToolsInvariance, PTL

(* A round that ends with its scale-up in force has put it on record.      *)
THEOREM LeftTrafficReported == ToolsSpec => []LeftTrafficIsReported
<1>1. ToolsInv => LeftTrafficIsReported
  BY DEF ToolsInv, Reported, LeftTrafficIsReported, At, After
<1> QED BY <1>1, ToolsInvariance, PTL

(* The scale-up and the scale-down of a round undo no edit made after the  *)
(* change they build on, the one prepared on or the one taken for the      *)
(* round's scale-up: a resource version stands for one object and one      *)
(* generation of it, so the guard of the call is enough.                   *)
THEOREM LaterEditsKept == ToolsSpec => LaterEditsAreKept
<1> DEFINE Kept ==
      /\ (At("scale") /\ runner' # runner /\ deployment' # deployment) =>
            /\ SameObject(This) /\ Stopped
            /\ deployment.generation = journal[This].generation
      /\ (At("down") /\ runner' # runner /\ deployment' # deployment) =>
            SameObject(This) /\ deployment.generation = Expected(This)
<1>1. ToolsInv /\ [ToolsNext]_toolVars => [Kept]_toolVars
  <2> SUFFICES ASSUME ToolsInv, ToolsNext, runner' # runner, deployment' # deployment
               PROVE  Kept
    OBVIOUS
  <2>1. ScaleUp \/ ScaleDown
    BY DEF ToolsNext, RunnerStep, DemoEnvironment, StartAnswered, StartLate, trafficVars,
           Preflight, Ready, Isolate, HealthyBaseline, RunExporter, PrepareTraffic,
           PostFault, NoAnswer, SeeScaled, SeeReady, Observe, ReadStatus,
           NothingToRestore, RestoreTraffic, SeeDrained, RecoverRun, Verify, EndRound,
           Interrupted
  <2>2. CASE ScaleUp
    <3>1. At("scale") /\ Guarded(0, journal[This].version) /\ This \in Round
      BY <2>2 DEF ScaleUp, ToolsInv, Shape, RunnerShape, This
    <3> QED BY <3>1 DEF Guarded, ToolsInv, VersionsName, At
  <2>3. CASE ScaleDown
    <3>1. At("down") /\ Guarded(1, runner.version)
      BY <2>3 DEF ScaleDown
    <3> QED BY <3>1 DEF Guarded, ToolsInv, VersionsName, At
  <2> QED BY <2>1, <2>2, <2>3
<1> QED BY <1>1, ToolsInvariance, PTL DEF ToolsSpec, LaterEditsAreKept

-----------------------------------------------------------------------------
(* The types.  What the records hold beside what ToolsInv says of them.    *)
Status == {"none", "prepared", "starting", "started", "restored"}
Owner == Round \cup {Legacy}

DeploymentTyped ==
  deployment \in [uid : Nat, replicas : 0..2, generation : Nat, version : Nat, pods : 0..2]

JournalTyped ==
  journal \in [Round -> [status : Status, uid : Nat, generation : Nat, version : Nat,
                         applied : Nat]]

LabTyped == active \in Owner \cup {None} /\ starts \subseteq Owner

CaseTyped == case \in {"settle", "baseline", "posted", "reconcile", "observe", "recover",
                       "settled", "failed"}

ErrorTyped == runner.error \in Errors \cup {"none"}

Typed == DeploymentTyped /\ JournalTyped /\ LabTyped /\ CaseTyped /\ ErrorTyped

LEMMA TypedInitially == ToolsInit => Typed
BY DEF ToolsInit, DemoInit, LabInit, TrafficInit, LegacyInit, NoJournal, Typed, DeploymentTyped,
       JournalTyped, LabTyped, CaseTyped, ErrorTyped, Status

(* What the actions do to lab-control.                                     *)
LEMMA LabStays ==
  ASSUME LabTyped, NEW o \in Owner,
         \/ PostStart(o) \/ StartSucceeds(o) \/ StartFails(o) \/ RecoverOwned(o)
         \/ RecoverPending(o) \/ RecoverRefused(o) \/ RunEnds \/ UNCHANGED labVars
  PROVE  LabTyped'
BY DEF PostStart, StartSucceeds, StartFails, RecoverOwned, RecoverPending, RecoverRefused,
       RunEnds, labVars, LabTyped

LEMMA ScaleTyped ==
  ASSUME DeploymentTyped, NEW k, NEW n \in 0..2, Scale(k, n)
  PROVE  DeploymentTyped'
<1>1. deployment' = [uid |-> deployment.uid, replicas |-> n,
                     generation |-> deployment.generation + 1,
                     version |-> deployment.version + 1, pods |-> deployment.pods]
  BY DEF DeploymentTyped, Scale
<1> QED BY <1>1 DEF DeploymentTyped

LEMMA MarkTyped ==
  ASSUME JournalTyped, NEW k \in Round, NEW s \in Status, Marked(k, s)
  PROVE  JournalTyped'
BY DEF JournalTyped, Marked

LEMMA RunnerTyped ==
  ASSUME Typed, RunnerShape, RunnerStep
  PROVE  ErrorTyped' /\ LabTyped' /\ DeploymentTyped' /\ JournalTyped'
<1>0. This \in Round /\ This \in Owner
  BY DEF RunnerShape, This, Owner
<1>1. ErrorTyped'
  <2> USE DEF Goto, Raise, RecoveryRaises, AfterTraffic, TrafficTrouble, RunnerShape, Errors,
              Typed, ErrorTyped
  <2>1. CASE Preflight \/ Ready \/ Isolate \/ HealthyBaseline \/ RunExporter
             \/ PrepareTraffic \/ PostFault \/ NoAnswer
    BY <2>1 DEF Preflight, Ready, Isolate, HealthyBaseline, RunExporter, PrepareTraffic,
                PostFault, NoAnswer
  <2>2. CASE ScaleUp \/ SeeScaled \/ SeeReady \/ Observe \/ ReadStatus \/ NothingToRestore
    BY <2>2 DEF ScaleUp, SeeScaled, SeeReady, Observe, ReadStatus, NothingToRestore
  <2>3. CASE RestoreTraffic \/ ScaleDown \/ SeeDrained
    BY <2>3 DEF RestoreTraffic, ScaleDown, SeeDrained
  <2>4. CASE RecoverRun \/ Verify \/ EndRound \/ Interrupted
    BY <2>4 DEF RecoverRun, Verify, EndRound, NextRound, Interrupted
  <2> QED BY <2>1, <2>2, <2>3, <2>4 DEF RunnerStep
<1>2. LabTyped'
  <2>1. PostStart(This) \/ RecoverOwned(This) \/ RecoverPending(This)
        \/ RecoverRefused(This) \/ UNCHANGED labVars
    BY DEF RunnerStep, Preflight, Ready, Isolate, HealthyBaseline, RunExporter,
           PrepareTraffic, PostFault, NoAnswer, ScaleUp, SeeScaled, SeeReady, Observe,
           ReadStatus, NothingToRestore, RestoreTraffic, ScaleDown, SeeDrained, RecoverRun,
           Verify, EndRound, Interrupted
  <2> QED BY <1>0, <2>1, LabStays DEF Typed
<1>3. DeploymentTyped'
  <2>1. UNCHANGED deployment \/ \E n \in {0, 1} : Scale(This, n)
    BY DEF RunnerStep, Preflight, Ready, Isolate, HealthyBaseline, RunExporter,
           PrepareTraffic, PostFault, NoAnswer, ScaleUp, SeeScaled, SeeReady, Observe,
           ReadStatus, NothingToRestore, RestoreTraffic, ScaleDown, SeeDrained, RecoverRun,
           Verify, EndRound, Interrupted, trafficVars
  <2> QED BY <2>1, ScaleTyped DEF Typed, DeploymentTyped
<1>4. JournalTyped'
  <2>1. \/ UNCHANGED journal \/ Prepared(This)
        \/ \E s \in {"starting", "started", "restored"} : Marked(This, s)
        \/ journal' = [journal EXCEPT ![This].applied = deployment.generation]
    BY DEF RunnerStep, Preflight, Ready, Isolate, HealthyBaseline, RunExporter,
           PrepareTraffic, PostFault, NoAnswer, ScaleUp, SeeScaled, SeeReady, Observe,
           ReadStatus, NothingToRestore, RestoreTraffic, ScaleDown, SeeDrained, RecoverRun,
           Verify, EndRound, Interrupted, trafficVars
  <2>2. CASE Prepared(This)
    BY <1>0, <2>2 DEF Prepared, Typed, JournalTyped, DeploymentTyped, Status
  <2>3. CASE journal' = [journal EXCEPT ![This].applied = deployment.generation]
    BY <1>0, <2>3 DEF Typed, JournalTyped, DeploymentTyped
  <2>4. ASSUME NEW s \in {"starting", "started", "restored"}, Marked(This, s)
        PROVE  JournalTyped'
    BY <1>0, <2>4, MarkTyped DEF Typed, Status
  <2> QED BY <2>1, <2>2, <2>3, <2>4 DEF Typed, JournalTyped
<1> QED BY <1>1, <1>2, <1>3, <1>4

LEMMA EnvironmentTyped ==
  ASSUME Typed, RunnerShape, DemoEnvironment
  PROVE  ErrorTyped' /\ LabTyped' /\ DeploymentTyped' /\ JournalTyped'
<1>0. This \in Round /\ This \in Owner
  BY DEF RunnerShape, This, Owner
<1>1. CASE (Reconcile \/ OperatorEdits) /\ UNCHANGED <<labVars, runner, faults>>
  <2>1. ErrorTyped' /\ LabTyped' /\ JournalTyped'
    BY <1>1 DEF Reconcile, OperatorEdits, labVars, Typed, ErrorTyped, LabTyped, JournalTyped
  <2>2. ASSUME Reconcile PROVE DeploymentTyped'
    <3>1. deployment' = [uid |-> deployment.uid, replicas |-> deployment.replicas,
                         generation |-> deployment.generation,
                         version |-> deployment.version + 1, pods |-> deployment.replicas]
      BY <2>2 DEF Reconcile, Typed, DeploymentTyped
    <3> QED BY <3>1 DEF Typed, DeploymentTyped
  <2>3. ASSUME \E n \in {0, 1, 2} : Scale(0, n) PROVE DeploymentTyped'
    BY <2>3, ScaleTyped DEF Typed
  <2>4. ASSUME deployment' = [deployment EXCEPT !.generation = @ + 1, !.version = @ + 1]
        PROVE  DeploymentTyped'
    <3>1. deployment' = [uid |-> deployment.uid, replicas |-> deployment.replicas,
                         generation |-> deployment.generation + 1,
                         version |-> deployment.version + 1, pods |-> deployment.pods]
      BY <2>4 DEF Typed, DeploymentTyped
    <3> QED BY <3>1 DEF Typed, DeploymentTyped
  <2>5. ASSUME deployment' = [uid |-> deployment.uid + 1, replicas |-> 0, generation |-> 1,
                              pods |-> 0, version |-> deployment.version + 1]
        PROVE  DeploymentTyped'
    BY <2>5 DEF Typed, DeploymentTyped
  <2> QED BY <1>1, <2>1, <2>2, <2>3, <2>4, <2>5 DEF OperatorEdits
<1>2. CASE StartAnswered
  <2>1. DeploymentTyped' /\ JournalTyped'
    BY <1>2 DEF StartAnswered, trafficVars, Typed, DeploymentTyped, JournalTyped
  <2>2. LabTyped'
    BY <1>0, <1>2, LabStays DEF StartAnswered, Typed
  <2>3. ErrorTyped'
    BY <1>2 DEF StartAnswered, Goto, Raise, RunnerShape, Errors, Typed, ErrorTyped
  <2> QED BY <2>1, <2>2, <2>3
<1>3. CASE StartLate
  <2>1. DeploymentTyped' /\ JournalTyped' /\ ErrorTyped'
    BY <1>3 DEF StartLate, trafficVars, Typed, DeploymentTyped, JournalTyped, ErrorTyped
  <2>2. LabTyped'
    BY <1>3, LabStays DEF StartLate, Typed, LabTyped
  <2> QED BY <2>1, <2>2
<1>4. CASE RunEnds /\ UNCHANGED <<trafficVars, runner, faults>>
  BY <1>0, <1>4, LabStays DEF trafficVars, Typed, DeploymentTyped, JournalTyped, ErrorTyped
<1> QED BY <1>1, <1>2, <1>3, <1>4 DEF DemoEnvironment

LEMMA TypedStep == ToolsInv /\ Typed /\ [ToolsNext]_toolVars => Typed'
<1> SUFFICES ASSUME ToolsInv, Typed, [ToolsNext]_toolVars PROVE Typed'
  OBVIOUS
<1>0. RunnerShape
  BY DEF ToolsInv, Shape
<1>1. CASE RunnerStep /\ UNCHANGED case
  BY <1>0, <1>1, RunnerTyped DEF Typed, CaseTyped
<1>2. CASE DemoEnvironment /\ UNCHANGED case
  BY <1>0, <1>2, EnvironmentTyped DEF Typed, CaseTyped
<1>3. CASE LegacyStep /\ UNCHANGED <<trafficVars, runner, faults>>
  <2>1. DeploymentTyped' /\ JournalTyped' /\ ErrorTyped'
    BY <1>3 DEF trafficVars, Typed, DeploymentTyped, JournalTyped, ErrorTyped
  <2>2. LabTyped'
    BY <1>3, LabStays DEF LegacyStep, Settle, Inject, Confirm, Deny, GiveUp, LandsLate,
       ReconcileStart, ObserveCase, RecoverCase, Typed, Owner
  <2>3. CaseTyped'
    BY <1>3 DEF LegacyStep, Settle, Inject, Confirm, Deny, GiveUp, LandsLate, ReconcileStart,
       ObserveCase, RecoverCase, Becomes, Typed, CaseTyped
  <2> QED BY <2>1, <2>2, <2>3 DEF Typed
<1>4. CASE UNCHANGED toolVars
  BY <1>4 DEF toolVars, demoVars, labVars, trafficVars, Typed, DeploymentTyped, JournalTyped,
              LabTyped, CaseTyped, ErrorTyped
<1> QED BY <1>1, <1>2, <1>3, <1>4 DEF ToolsNext

(* The types of lab-control's clients: whatever is edited, a Deployment    *)
(* has at most two replicas and pods, its writer is a round, and a round   *)
(* that is started is one of the suite.                                    *)
THEOREM ToolsTypeCorrect == ToolsSpec => []ToolsTypeOK
<1>1. ToolsInv /\ Typed => ToolsTypeOK
  BY DEF ToolsInv, Shape, RunnerShape, WriterFits, Typed, DeploymentTyped, JournalTyped,
         LabTyped, CaseTyped, ErrorTyped, Status, Owner, ToolsTypeOK
<1>2. ToolsSpec => []Typed
  BY TypedInitially, TypedStep, ToolsInvariance, PTL DEF ToolsSpec
<1> QED BY <1>1, <1>2, ToolsInvariance, PTL

-----------------------------------------------------------------------------
(* Runs that are over.  A round has no request before it posts, and none   *)
(* left once it is answered; a round that was not answered has an error.   *)
Unposted == {"preflight", "ready", "probe", "isolate", "baseline", "prepare", "post"}
Answered == {"scale", "scaled", "warmup", "observe"}
Closing == {"status", "restore", "down", "drain", "recover", "verify", "ended"}

SuiteOver ==
  /\ \A k \in Round : k > This \/ (k = This /\ runner.pc \in Unposted) => Over(k)
  /\ runner.pc \in Answered \/ (runner.pc \in Closing /\ runner.error = "none") =>
       This \notin starts
  /\ (At("ended") /\ runner.confirmed /\ runner.error = "none") => active # This

CaseOver ==
  /\ case \in {"settle", "baseline"} => Over(Legacy)
  /\ case \in {"observe", "recover", "settled"} => Legacy \notin starts
  /\ case = "settled" => active # Legacy
  /\ active = Legacy => Legacy \notin starts

(* What a client or the Lab may do: a request, a start that is carried out,*)
(* the end of a run.                                                       *)
Requests(o) == starts' = starts \cup {o} /\ UNCHANGED active
Lands(o) == o \in starts /\ starts' = starts \ {o} /\ active' \in {active, o}
Ends == UNCHANGED starts /\ active' \in {active, None}

LEMMA LabActions ==
  ASSUME NEW o
  PROVE  /\ PostStart(o) => Requests(o)
         /\ StartSucceeds(o) \/ StartFails(o) => Lands(o) /\ o \in starts
         /\ RecoverOwned(o) => Ends /\ active' = None
         /\ RecoverPending(o) \/ RecoverRefused(o) \/ RunEnds \/ UNCHANGED labVars => Ends
BY DEF PostStart, StartSucceeds, StartFails, RecoverOwned, RecoverPending, RecoverRefused,
       RunEnds, labVars, Requests, Lands, Ends

LEMMA CaseKeeps ==
  ASSUME CaseOver, UNCHANGED case,
         Ends \/ (\E o \in Round : Requests(o)) \/ (\E o \in starts : Lands(o))
  PROVE  CaseOver'
BY ToolsAssumption DEF CaseOver, Over, Ends, Requests, Lands

LEMMA SuiteKeeps ==
  ASSUME RunnerShape, SuiteOver, UNCHANGED runner,
         Ends \/ Requests(Legacy) \/ (\E o \in starts : Lands(o))
  PROVE  SuiteOver'
<1>0. This \in Round /\ This # Legacy /\ None \notin Round /\ Legacy \notin Round
  BY ToolsAssumption DEF RunnerShape, This
<1>1. \A k \in Round : Over(k) => Over(k)'
  BY <1>0 DEF Over, Ends, Requests, Lands
<1>2. This \notin starts => This \notin starts' /\ (active # This => active' # This)
  BY <1>0 DEF Ends, Requests, Lands
<1>3. At("ended") /\ runner.confirmed /\ runner.error = "none" =>
        This \notin starts /\ active # This
  BY DEF SuiteOver, At, Closing
<1>4. \A k \in Round : k > This' \/ (k = This' /\ runner'.pc \in Unposted) => Over(k)'
  BY <1>1 DEF SuiteOver, This
<1>5. runner'.pc \in Answered \/ (runner'.pc \in Closing /\ runner'.error = "none") =>
        This' \notin starts'
  BY <1>2 DEF SuiteOver, This
<1>6. At("ended")' /\ runner'.confirmed /\ runner'.error = "none" => active' # This'
  BY <1>2, <1>3 DEF At, This
<1> QED BY <1>4, <1>5, <1>6 DEF SuiteOver

(* A step of the suite within a round that sends no request and gets none  *)
(* carried out.                                                            *)
LEMMA RoundKeeps ==
  ASSUME RunnerShape, RunnerShape', SuiteOver, Ends, runner'.round = runner.round,
         runner'.pc \in Unposted => runner.pc \in Unposted,
         runner'.pc \in Answered => runner.pc \in Answered,
         (runner'.pc \in Closing /\ runner'.error = "none") =>
           \/ runner.pc \in Unposted \cup Answered
           \/ runner.pc \in Closing /\ runner.error = "none",
         (runner'.pc = "ended" /\ runner'.confirmed /\ runner'.error = "none") =>
           active' # This
  PROVE  SuiteOver'
BY ToolsAssumption
   DEF SuiteOver, RunnerShape, This, At, Over, Ends, Unposted, Answered, Closing

LEMMA SuiteStep ==
  ASSUME ToolsInv, SuiteOver, RunnerStep
  PROVE  SuiteOver'
<1>0. RunnerShape /\ Reported /\ This \in Round /\ This \in Nat
  BY RoundsArePositive DEF ToolsInv, Shape
<1>1. RunnerShape'
  BY RunnerKeeps DEF ToolsInv, Shape
<1> DEFINE Steps == /\ Ends /\ runner'.round = runner.round
                    /\ runner'.pc \in Unposted => runner.pc \in Unposted
                    /\ runner'.pc \in Answered => runner.pc \in Answered
                    /\ (runner'.pc \in Closing /\ runner'.error = "none") =>
                         \/ runner.pc \in Unposted \cup Answered
                         \/ runner.pc \in Closing /\ runner.error = "none"
                    /\ (runner'.pc = "ended" /\ runner'.confirmed /\ runner'.error = "none")
                         => active' # This
<1>a. Steps => SuiteOver'
  BY <1>0, <1>1, RoundKeeps
<1> USE DEF At, Goto, Raise, RecoveryRaises, AfterTraffic, TrafficTrouble, Unposted,
            Answered, Closing, Errors
<1>2. CASE Preflight \/ Ready \/ Isolate \/ HealthyBaseline
  <2>1. Steps
    BY <1>0, <1>2 DEF Preflight, Ready, Begins, Isolate, HealthyBaseline, RunnerShape,
                      labVars, Ends
  <2> QED BY <1>a, <2>1
<1>3. CASE RunExporter
  <2>1. active # This
    BY <1>0, <1>3 DEF RunExporter, SuiteOver, Over
  <2>2. Steps
    BY <1>0, <1>3, <2>1 DEF RunExporter, RunnerShape, labVars, Ends
  <2> QED BY <1>a, <2>2
<1>4. CASE PrepareTraffic \/ NoAnswer
  <2>1. Steps
    BY <1>0, <1>4 DEF PrepareTraffic, NoAnswer, RunnerShape, labVars, Ends
  <2> QED BY <1>a, <2>1
<1>5. CASE PostFault
  <2>1. Requests(This) /\ runner'.pc = "posted" /\ runner'.round = runner.round
    BY <1>0, <1>5, LabActions DEF PostFault, RunnerShape
  <2> QED BY <1>0, <2>1 DEF SuiteOver, Over, Requests, This
<1>6. CASE ScaleUp \/ SeeScaled \/ SeeReady \/ Observe
  <2>1. Steps
    BY <1>0, <1>6 DEF ScaleUp, SeeScaled, SeeReady, Observe, RunnerShape, labVars, Ends
  <2> QED BY <1>a, <2>1
<1>7. CASE ReadStatus \/ NothingToRestore \/ RestoreTraffic \/ ScaleDown \/ SeeDrained
  <2>1. Steps
    BY <1>0, <1>7 DEF ReadStatus, NothingToRestore, RestoreTraffic, ScaleDown, SeeDrained,
                      RunnerShape, Reported, Before, During, labVars, Ends
  <2> QED BY <1>a, <2>1
<1>8. CASE RecoverRun
  <2>1. Ends
    BY <1>8, LabActions DEF RecoverRun
  <2>2. Steps
    BY <1>0, <1>8, <2>1 DEF RecoverRun, RunnerShape
  <2> QED BY <1>a, <2>2
<1>9. CASE Verify
  <2>1. active = None => active # This
    BY <1>0, ToolsAssumption
  <2>2. Steps
    BY <1>0, <1>9, <2>1 DEF Verify, RunnerShape, Reported, Before, labVars, Ends
  <2> QED BY <1>a, <2>2
<1>10. CASE EndRound \/ Interrupted
  <2>1. CASE This + 1 \in Round /\ runner'.round = This + 1 /\ runner'.pc = "ready"
             /\ UNCHANGED labVars
    <3>1. \A k \in Round : k > This + 1 \/ k = This + 1 => k > This
      BY <1>0, SuiteAssumption
    <3> QED BY <1>0, <2>1, <3>1 DEF SuiteOver, Over, labVars, This
  <2>2. CASE Goto("done") \/ Goto("stopped")
    <3>1. Steps
      BY <1>0, <1>10, <2>2 DEF EndRound, Interrupted, RunnerShape, labVars, Ends
    <3> QED BY <1>a, <3>1
  <2> QED BY <1>0, <1>10, <2>1, <2>2 DEF EndRound, NextRound, Interrupted, RunnerShape
<1> QED BY <1>2, <1>3, <1>4, <1>5, <1>6, <1>7, <1>8, <1>9, <1>10 DEF RunnerStep

(* The answer to the suite's own request.                                  *)
LEMMA AnswerOver ==
  ASSUME ToolsInv, SuiteOver, StartAnswered
  PROVE  SuiteOver'
<1>1. RunnerShape /\ This \in Round /\ Lands(This) /\ This \in starts
  BY RoundsArePositive, LabActions DEF ToolsInv, Shape, StartAnswered
<1>2. CASE UNCHANGED runner
  BY <1>1, <1>2, SuiteKeeps
<1>3. CASE runner.pc = "posted" /\ (Goes("scale") \/ Goes("observe") \/ Goes("status"))
  BY <1>1, <1>3 DEF SuiteOver, Over, Lands, This, At, Goes, RunnerTo, Unposted, Answered
<1>4. \/ UNCHANGED runner
      \/ At("posted") /\ (Goto("scale") \/ Goto("observe") \/ Raise("Exception"))
  BY DEF StartAnswered, Acknowledged
<1> QED BY <1>1, <1>2, <1>3, <1>4, GotoFacts, RaiseFacts DEF At

LEMMA CaseStep ==
  ASSUME CaseOver, LegacyStep
  PROVE  CaseOver'
<1> USE ToolsAssumption DEF Becomes, CaseOver, Over
<1>1. CASE Settle \/ ReconcileStart \/ ObserveCase \/ GiveUp
  BY <1>1 DEF Settle, ReconcileStart, ObserveCase, GiveUp, labVars
<1>2. CASE Inject
  BY <1>2 DEF Inject, PostStart
<1>3. CASE Confirm \/ Deny \/ LandsLate
  <2>1. Lands(Legacy)
    BY <1>3, LabActions DEF Confirm, Deny, LandsLate
  <2> QED BY <1>3, <2>1 DEF Confirm, Deny, LandsLate, Lands
<1>4. CASE RecoverCase
  BY <1>4 DEF RecoverCase, RecoverOwned, RecoverPending, RecoverRefused, labVars
<1> QED BY <1>1, <1>2, <1>3, <1>4 DEF LegacyStep

(* FinishedRunsAreOver for any number of rounds, failed calls and signals, *)
(* whenever a request that was given up is carried out.                    *)
THEOREM FinishedAreOver == ToolsSpec => []FinishedRunsAreOver
<1> DEFINE Inv == SuiteOver /\ CaseOver
<1>1. ToolsInit => Inv
  BY ToolsAssumption DEF ToolsInit, DemoInit, LabInit, LegacyInit, SuiteOver, CaseOver, Over,
     At, Answered, Closing
<1>2. ToolsInv /\ Inv /\ [ToolsNext]_toolVars => Inv'
  <2> SUFFICES ASSUME ToolsInv, Inv, [ToolsNext]_toolVars PROVE Inv'
    OBVIOUS
  <2>0. RunnerShape /\ This \in Round
    BY RoundsArePositive DEF ToolsInv, Shape
  <2>1. CASE RunnerStep /\ UNCHANGED case
    <3>1. Ends \/ Requests(This)
      BY LabActions, <2>1 DEF RunnerStep, Preflight, Ready, Isolate, HealthyBaseline,
         RunExporter, PrepareTraffic, PostFault, NoAnswer, ScaleUp, SeeScaled, SeeReady,
         Observe, ReadStatus, NothingToRestore, RestoreTraffic, ScaleDown, SeeDrained,
         RecoverRun, Verify, EndRound, Interrupted
    <3> QED BY <2>0, <2>1, <3>1, SuiteStep, CaseKeeps
  <2>2. CASE DemoEnvironment /\ UNCHANGED case
    <3>1. CASE StartAnswered
      <4>1. Lands(This) /\ This \in starts
        BY <3>1, LabActions DEF StartAnswered
      <4> QED BY <2>0, <2>2, <3>1, <4>1, AnswerOver, CaseKeeps
    <3>2. CASE StartLate
      <4>1. (\E o \in starts : Lands(o)) /\ UNCHANGED runner
        BY <3>2, LabActions DEF StartLate
      <4> QED BY <2>0, <2>2, <4>1, SuiteKeeps, CaseKeeps
    <3>3. CASE UNCHANGED runner /\ (RunEnds \/ UNCHANGED labVars)
      <4>1. Ends
        BY <3>3, LabActions
      <4> QED BY <2>0, <2>2, <3>3, <4>1, SuiteKeeps, CaseKeeps
    <3> QED BY <2>2, <3>1, <3>2, <3>3 DEF DemoEnvironment
  <2>3. CASE LegacyStep /\ UNCHANGED <<trafficVars, runner, faults>>
    <3>1. Ends \/ Requests(Legacy) \/ (Lands(Legacy) /\ Legacy \in starts)
      BY <2>3, LabActions DEF LegacyStep, Settle, Inject, Confirm, Deny, GiveUp, LandsLate,
         ReconcileStart, ObserveCase, RecoverCase
    <3> QED BY <2>0, <2>3, <3>1, SuiteKeeps, CaseStep
  <2>4. CASE UNCHANGED toolVars
    <3>1. Ends /\ UNCHANGED runner /\ UNCHANGED case
      BY <2>4, LabActions DEF toolVars, demoVars
    <3> QED BY <2>0, <3>1, SuiteKeeps, CaseKeeps
  <2> QED BY <2>1, <2>2, <2>3, <2>4 DEF ToolsNext
<1>3. Inv => FinishedRunsAreOver
  BY DEF SuiteOver, CaseOver, FinishedRunsAreOver, Over, At, Closing
<1> QED BY <1>1, <1>2, <1>3, ToolsInvariance, PTL DEF ToolsSpec
=============================================================================
