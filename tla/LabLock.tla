------------------------------- MODULE LabLock -------------------------------
(***************************************************************************)
(* What the annotations on the scenario ConfigMap promise: the Lab belongs  *)
(* to at most one intervention, controller run or external screenshot run   *)
(* alike, and one that has given the Lab back never owns it again.          *)
(***************************************************************************)
CONSTANTS Party, Nobody

VARIABLES holder, past

vars == <<holder, past>>

Init == holder = Nobody /\ past = {}

Acquire(p) ==
  /\ holder = Nobody /\ p \notin past
  /\ holder' = p /\ UNCHANGED past

Release ==
  /\ holder # Nobody
  /\ holder' = Nobody /\ past' = past \cup {holder}

Next == Release \/ \E p \in Party : Acquire(p)

Spec == Init /\ [][Next]_vars
=============================================================================
