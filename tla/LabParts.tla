------------------------------ MODULE LabParts ------------------------------
(***************************************************************************)
(* The tools around lab-control and the small services beside it.  They    *)
(* share no state, so a behaviour here is one of one of them: `part` says  *)
(* of which, and the others keep their initial state.                      *)
(***************************************************************************)
EXTENDS OperatorTools, AssessmentReview, SourceReview, LibraryRuntime, CnfcEdge,
        TrafficLoad

CONSTANT Part  \* the parts that are explored

VARIABLE part

partVars == <<toolVars, reviewVars, sourceVars, libraryVars, edgeVars, loadVars, part>>

PartsTypeOK ==
  /\ part \in Part
  /\ ToolsTypeOK /\ ReviewTypeOK
  /\ library.run \in LibraryRun \cup {NoRun}
  /\ inflight \in Nat

PartsInit ==
  /\ ToolsInit /\ ReviewInit /\ SourceInit /\ LibraryInit /\ EdgeInit /\ LoadInit
  /\ part \in Part

Others(vars) == UNCHANGED <<vars, part>>

PartsNext ==
  \/ /\ part = "tools" /\ ToolsNext
     /\ Others(<<reviewVars, sourceVars, libraryVars, edgeVars, loadVars>>)
  \/ /\ part = "assessment" /\ ReviewNext
     /\ Others(<<toolVars, sourceVars, libraryVars, edgeVars, loadVars>>)
  \/ /\ part = "history" /\ SourceNext
     /\ Others(<<toolVars, reviewVars, libraryVars, edgeVars, loadVars>>)
  \/ /\ part = "library" /\ LibraryNext
     /\ Others(<<toolVars, reviewVars, sourceVars, edgeVars, loadVars>>)
  \/ /\ part = "edge" /\ EdgeNext
     /\ Others(<<toolVars, reviewVars, sourceVars, libraryVars, loadVars>>)
  \/ /\ part = "load" /\ LoadNext
     /\ Others(<<toolVars, reviewVars, sourceVars, libraryVars, edgeVars>>)

PartsSpec == PartsInit /\ [][PartsNext]_partVars

-----------------------------------------------------------------------------
(* However often and wherever at once attach, reassess and history are run,*)
(* killed and run again, a directory stands for one paid upload, one paid  *)
(* reassessment and one paid review (mkdir before the POST).               *)
PaidOnce ==
  /\ \A d \in Directory, k \in Paid : posts[d][k] <= 1
  /\ asked <= 1

(* Once a run has been recovered, or its lease has ended it, the work that *)
(* was under way without the lock comes to one more failure of its library *)
(* case and one more probe of its route (tick, probe).                     *)
LateWorkIsBounded ==
  /\ \A r \in LibraryRun : late[r] <= 1
  /\ \A e \in Edge : stray[e] <= 1

(* The load that the generator keeps on the Orders API stays within the    *)
(* safe limit, and a slot comes back on every path a request can take      *)
(* (claim_slot, run_request, load_loop).                                   *)
SlotsAreReturned ==
  /\ inflight = Cardinality(In({"submitted", "calling", "releasing"}))
  /\ Cardinality(In({"calling"})) <= SafeInflight
=============================================================================
