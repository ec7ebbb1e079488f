------------------------------- MODULE LabApi -------------------------------
(***************************************************************************)
(* lab-control as its clients see it through /api/scenarios/../start,      *)
(* /api/recover and /api/status: the owner of the run it is busy with and  *)
(* the start requests it has not yet carried out.  A start waits for the   *)
(* controller's lock, so it may be carried out after its client has given  *)
(* up.  Inside a run the controller is modelled by LabController.          *)
(***************************************************************************)
CONSTANT None

VARIABLES
  active,  \* the owner of the active or recovering run, or None
  starts   \* the owners whose start request has not been carried out yet

labVars == <<active, starts>>

LabInit == active = None /\ starts = {}

(* The client sends its one start request, with its owner as request_id.   *)
PostStart(o) == starts' = starts \cup {o} /\ UNCHANGED active

(* The run of o is claimed and its faults are injected.                    *)
StartSucceeds(o) ==
  /\ o \in starts
  /\ active = None
  /\ active' = o
  /\ starts' = starts \ {o}

(* Another run is active, a check fails, or an injection fails after the   *)
(* claim: then the run is recovered at once or stays recovering.           *)
StartFails(o) ==
  /\ o \in starts
  /\ starts' = starts \ {o}
  /\ active' = active \/ (active = None /\ active' = o)

(* recover with an expected run: done, left to be retried, or refused.     *)
RecoverOwned(o) == active \in {o, None} /\ active' = None /\ UNCHANGED starts

RecoverPending(o) == active = o /\ UNCHANGED labVars

RecoverRefused(o) == active \notin {o, None} /\ UNCHANGED labVars

(* The watchdog ends a run whose lease has run out, or an operator recovers*)
(* it from the console, which names no expected run.                       *)
RunEnds == active # None /\ active' = None /\ UNCHANGED starts

=============================================================================
