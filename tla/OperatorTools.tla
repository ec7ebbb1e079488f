--------------------------- MODULE OperatorTools ---------------------------
(***************************************************************************)
(* The demo suite and the scenario runner beside each other, over one      *)
(* lab-control and one traffic generator.                                  *)
(***************************************************************************)
EXTENDS DemoSuite, ScenarioRunner

ASSUME ToolsAssumption == None # Legacy /\ {None, Legacy} \cap Round = {}

toolVars == <<demoVars, case>>

ToolsTypeOK ==
  /\ active \in Round \cup {Legacy, None}
  /\ starts \subseteq Round \cup {Legacy}
  /\ deployment \in [uid : Nat, replicas : 0..2, generation : Nat,
                     version : Nat, pods : 0..2]
  /\ writer \in {0} \cup Round
  /\ journal \in [Round -> [status : {"none", "prepared", "starting", "started",
                                      "restored"},
                            uid : Nat, generation : Nat, version : Nat,
                            applied : Nat]]
  /\ runner.round \in Round
  /\ runner.error \in Errors \cup {"none"}
  /\ case \in {"settle", "baseline", "posted", "reconcile", "observe", "recover",
               "settled", "failed"}

ToolsInit == DemoInit /\ LegacyInit

ToolsNext ==
  \/ RunnerStep /\ UNCHANGED case
  \/ DemoEnvironment /\ UNCHANGED case
  \/ LegacyStep /\ UNCHANGED <<trafficVars, runner, faults>>

ToolsSpec == ToolsInit /\ [][ToolsNext]_toolVars

-----------------------------------------------------------------------------
(* A run that its client reports as over is over, for good: it is neither  *)
(* active nor is its start still to be carried out, when a round ends with *)
(* its recovery confirmed and no error, and when a case has settled,       *)
(* although a start lands after its client gave up and the status that a   *)
(* recovery acts on is old (recover_owned, start_scenario).  A round whose *)
(* start got no answer is exempt by its error: its start may still land.   *)
Over(o) == active # o /\ o \notin starts

FinishedRunsAreOver ==
  /\ At("ended") /\ runner.confirmed /\ runner.error = "none" => Over(This)
  /\ case = "settled" => Over(Legacy)

(* While the replicas are what a round set last, its journal says what the *)
(* round did: the replica of its scale-up is recorded as such, and where it*)
(* says restored no pod is left.  An edit of the replicas ends this: they  *)
(* are then the operator's, whatever the journal says (writer = 0).        *)
ScaleUpIsJournaled ==
  writer # 0 =>
    /\ deployment.replicas = 1 => journal[writer].status \in {"starting", "started"}
    /\ journal[writer].status = "restored" => Stopped

(* A guarded call undoes no edit made after the change that it builds on:  *)
(* the scale-up applies to the Deployment as it was prepared, and the      *)
(* scale-down to the object at the generation that the round takes for its *)
(* scale-up (traffic_scale, restore_owned_traffic).  That generation is not*)
(* always the round's: an operator's own scale-up is taken for it when the *)
(* round's call was refused, or when the round first reads after the edit, *)
(* and is then undone.                                                     *)
LaterEditsAreKept ==
  [][/\ (At("scale") /\ runner' # runner /\ deployment' # deployment) =>
           /\ SameObject(This) /\ Stopped
           /\ deployment.generation = journal[This].generation
     /\ (At("down") /\ runner' # runner /\ deployment' # deployment) =>
           SameObject(This) /\ deployment.generation = Expected(This)
    ]_toolVars

(* A round that ends with its scale-up in force has said so: the recovery  *)
(* record of the traffic says failed, or another run was active and the    *)
(* recovery was refused.                                                   *)
LeftTrafficIsReported ==
  (At("ended") /\ writer = This /\ deployment.replicas = 1) =>
    runner.trouble \/ (~runner.confirmed /\ ~runner.blind)

=============================================================================
