------------------------------ MODULE CnfcEdge ------------------------------
(***************************************************************************)
(* app/cnfc_edge.py: the route of each edge replica, its lease and its     *)
(* probe thread, which reads the route under the lock and uses it after.   *)
(***************************************************************************)
EXTENDS Naturals

CONSTANTS Edge,            \* the replicas
          MaxRouteChanges  \* bound on the requests to /control/scenario

VARIABLES
  route,   \* url and expires_at of each replica: its lease
  prober,  \* its probe thread and the url it has read
  stray,   \* probes of the faulted route since the route is the baseline
  changes  \* requests so far

edgeVars == <<route, prober, stray, changes>>

Baseline == [url |-> "baseline", lease |-> "none"]

EdgeInit ==
  /\ route = [e \in Edge |-> Baseline]
  /\ prober = [e \in Edge |-> [pc |-> "idle", url |-> "baseline"]]
  /\ stray = [e \in Edge |-> 0]
  /\ changes = 0

SetRoute(e, mode) ==
  route' = [route EXCEPT ![e] =
              IF mode = "route-drift" THEN [url |-> "fault", lease |-> "running"]
              ELSE Baseline]

(* A request with an unknown mode or a bad duration changes nothing.       *)
SetMode(e) ==
  /\ changes < MaxRouteChanges
  /\ changes' = changes + 1
  /\ \E mode \in {"normal", "route-drift"} : SetRoute(e, mode)
  /\ stray' = [stray EXCEPT ![e] = 0]
  /\ UNCHANGED prober

RouteLeaseRunsOut(e) ==
  /\ route[e].lease = "running"
  /\ route' = [route EXCEPT ![e].lease = "due"]
  /\ UNCHANGED <<prober, stray, changes>>

Probe(e, pc, url) == prober' = [prober EXCEPT ![e] = [pc |-> pc, url |-> url]]

ReadRoute(e) ==
  /\ prober[e].pc = "idle"
  /\ IF route[e].lease = "due" THEN Probe(e, "expire", "baseline")
     ELSE Probe(e, "call", route[e].url)
  /\ UNCHANGED <<route, stray, changes>>

(* The lock is taken again: a mode set since the read is ended too.        *)
EndLease(e) ==
  /\ prober[e].pc = "expire"
  /\ SetRoute(e, "normal")
  /\ stray' = [stray EXCEPT ![e] = 0]
  /\ Probe(e, "call", "baseline")
  /\ UNCHANGED changes

(* The health check of the url that was read.                              *)
CallHealth(e) ==
  /\ prober[e].pc = "call"
  /\ stray' = [stray EXCEPT ![e] =
                 IF prober[e].url = "fault" /\ route[e].url = "baseline" THEN @ + 1 ELSE @]
  /\ Probe(e, "idle", "baseline")
  /\ UNCHANGED <<route, changes>>

EdgeNext ==
  \E e \in Edge :
    \/ SetMode(e) \/ RouteLeaseRunsOut(e) \/ ReadRoute(e) \/ EndLease(e) \/ CallHealth(e)
=============================================================================
