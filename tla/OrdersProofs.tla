---------------------------- MODULE OrdersProofs ----------------------------
(***************************************************************************)
(* Proofs about the checkout of Orders, for any number of requests, names,  *)
(* mode changes and any capacity.                                           *)
(***************************************************************************)
EXTENDS Orders, FiniteSetTheorems, TLAPS

(* What a request's local state says about its entry.                       *)
Fresh(r) == req[r].answer = None /\ req[r].original = None

Keyed(r) == req[r].key \in RawKey /\ req[r].order \in Name

Unanswered(r) ==
  /\ req[r].pc = "new" =>
       Fresh(r) /\ entry[r] = "none" /\ req[r].key = None /\ req[r].order = None
  /\ req[r].pc \in {"accepted", "waiting", "woken"} =>
       Fresh(r) /\ entry[r] = "none" /\ Keyed(r)
  /\ req[r].pc \in Working =>
       Fresh(r) /\ entry[r] = "in_progress" /\ Keyed(r)

Answered(r) ==
  req[r].pc \in {"finishing", "done"} =>
    \/ /\ entry[r] = "none" /\ req[r].original = None
       /\ req[r].answer \in {"conflict", "in_progress", "busy", "invalid"}
    \/ /\ entry[r] = "none" /\ req[r].original \in Request
       /\ req[r].answer = "replayed"
    \/ /\ entry[r] \in {"completed", "stale"} /\ req[r].original = None
       /\ req[r].answer = "completed" /\ Keyed(r)
    \/ /\ entry[r] = IF req[r].pc = "done" THEN "dropped" ELSE "in_progress"
       /\ req[r].original = None
       /\ req[r].answer \in {"unavailable", "rejected", "raised"} /\ Keyed(r)

(* What the store holds belongs to the request that created it, and every   *)
(* request at work is in the store.                                         *)
Indexed ==
  /\ \A k \in RawKey : index[k] # None =>
       req[index[k]].key = k /\ entry[index[k]] \in {"in_progress", "completed", "stale"}
  /\ \A r \in Request : entry[r] = "in_progress" => index[req[r].key] = r

Waits ==
  \A r \in Request :
    req[r].pc = "waiting" =>
      index[req[r].key] # None /\ entry[index[req[r].key]] = "in_progress"
        /\ req[index[req[r].key]].order = req[r].order

Episode ==
  setting.mode = "idempotency-conflict" => setting.namespace \in 1 .. MaxModes

LocalInv == \A r \in Request : Unanswered(r) /\ Answered(r)

Inv == TypeOK /\ LocalInv /\ Indexed /\ Waits /\ Episode

-----------------------------------------------------------------------------
LEMMA InitInv == Init => Inv
<1> SUFFICES ASSUME Init PROVE Inv
    OBVIOUS
<1> USE OrdersAssumption
<1>1. TypeOK
  BY DEF Init, TypeOK, Mode, RawKey, Entry, Local, Pc, Answer, Counter
<1>2. LocalInv
  BY DEF Init, LocalInv, Unanswered, Answered, Fresh, Working
<1>3. Indexed /\ Waits /\ Episode
  BY DEF Init, Indexed, Waits, Episode
<1> QED
  BY <1>1, <1>2, <1>3 DEF Inv

-----------------------------------------------------------------------------
(* The local states a request goes to.                                      *)
LEMMA LocalStates ==
  ASSUME NEW l \in Local
  PROVE  /\ \A pc \in Pc : [l EXCEPT !.pc = pc] \in Local
         /\ [l EXCEPT !.late = TRUE] \in Local
         /\ \A pc \in Pc, a \in Answer : [l EXCEPT !.pc = pc, !.answer = a] \in Local
         /\ \A pc \in Pc, a \in Answer, s \in Request :
              [l EXCEPT !.pc = pc, !.answer = a, !.original = s] \in Local
         /\ \A pc \in Pc, o \in Name, k \in RawKey, n \in Nat :
              [l EXCEPT !.pc = pc, !.order = o, !.key = k, !.limit = n] \in Local
  BY DEF Local

LEMMA Typed ==
  ASSUME TypeOK, NEW r \in Request, NEW pc \in Pc
  PROVE  /\ Go(r, pc) => req' \in [Request -> Local]
         /\ \A a \in Answer : Finishing(r, a) => req' \in [Request -> Local]
         /\ [req EXCEPT ![r].late = TRUE] \in [Request -> Local]
         /\ req[r] \in Local /\ setting.limit \in Nat
<1>1. req \in [Request -> Local] /\ "finishing" \in Pc
  BY DEF TypeOK, Pc
<1>2. Go(r, pc) => req' \in [Request -> Local]
  BY <1>1 DEF Go, Local
<1>3. \A p \in Pc, a \in Answer :
        [req EXCEPT ![r].pc = p, ![r].answer = a] \in [Request -> Local]
  BY <1>1, ZenonT(30) DEF Local
<1>4. [req EXCEPT ![r].late = TRUE] \in [Request -> Local]
  BY <1>1 DEF Local
<1>5. req[r] \in Local /\ setting.limit \in Nat
  BY OrdersAssumption DEF TypeOK
<1>6. \A a \in Answer : Finishing(r, a) => req' \in [Request -> Local]
  <2> SUFFICES ASSUME NEW a \in Answer
               PROVE  [req EXCEPT ![r].pc = "finishing", ![r].answer = a]
                        \in [Request -> Local]
    BY DEF Finishing
  <2> QED
    BY <1>1, <1>3
<1> QED
  BY <1>2, <1>4, <1>5, <1>6

(* A step that touches neither the store nor the entries keeps what they    *)
(* say, if every request with an entry and every waiting one keeps its key. *)
SameOrder(r) == req'[r].key = req[r].key /\ req'[r].order = req[r].order

LEMMA StoreKept ==
  ASSUME Inv, UNCHANGED <<index, entry>>,
         \A r \in Request : entry[r] # "none" => SameOrder(r),
         \A r \in Request : req'[r].pc = "waiting" => req[r].pc = "waiting" /\ SameOrder(r)
  PROVE  Indexed' /\ Waits'
<1>1. \A k \in RawKey : index[k] # None => index[k] \in Request /\ entry[index[k]] # "none"
  BY DEF Inv, TypeOK, Indexed
<1>2. \A r \in Request : req[r].pc = "waiting" => req[r].key \in RawKey
  BY DEF Inv, LocalInv, Unanswered, Keyed
<1>3. Indexed'
  BY <1>1 DEF Inv, Indexed, SameOrder
<1>4. Waits'
  BY <1>1, <1>2 DEF Inv, Waits, SameOrder
<1> QED
  BY <1>3, <1>4

(* Actions that leave the store alone.                                      *)
LEMMA AcceptInv ==
  ASSUME Inv, NEW r \in Request, NEW o \in Name, NEW header \in Name \cup {None},
         Accept(r, o, header)
  PROVE  Inv'
<1> USE OrdersAssumption
<1>1. KeyOf(o, header) \in RawKey
  BY DEF Inv, Episode, TypeOK, KeyOf, RawKey
<1>2. req' \in [Request -> Local] /\ count' \in [Counter -> Nat]
  <2>1. [req[r] EXCEPT !.pc = "accepted", !.order = o, !.key = KeyOf(o, header),
                       !.limit = setting.limit] \in Local
    BY <1>1, Typed, LocalStates DEF Inv, Pc
  <2> QED
    BY <2>1 DEF Inv, TypeOK, Accept, Bump, Counter
<1>3. LocalInv'
  BY <1>1 DEF Inv, TypeOK, Local, Accept, LocalInv, Unanswered, Answered, Fresh, Keyed, Working
<1>4. Indexed' /\ Waits'
  <2>1. /\ \A s \in Request \ {r} : req'[s] = req[s]
        /\ req'[r].pc = "accepted" /\ entry[r] = "none"
    BY DEF Inv, TypeOK, Local, Accept, LocalInv, Unanswered
  <2> QED
    BY <2>1, StoreKept DEF Accept, SameOrder
<1> QED
  BY <1>2, <1>3, <1>4 DEF Inv, TypeOK, Episode, Accept, modeVars

LEMMA AcceptInvalidInv ==
  ASSUME Inv, NEW r \in Request, AcceptInvalid(r)
  PROVE  Inv'
<1>1. req' \in [Request -> Local]
  BY Typed DEF Inv, AcceptInvalid, Pc, Answer
<1>4. count' \in [Counter -> Nat]
  BY DEF Inv, TypeOK, AcceptInvalid, Bump, Counter
<1>2. LocalInv'
  BY DEF Inv, TypeOK, Local, AcceptInvalid, Finishing, LocalInv, Unanswered, Answered, Fresh,
         Keyed, Working
<1>3. Indexed' /\ Waits'
  <2>1. /\ \A s \in Request \ {r} : req'[s] = req[s]
        /\ req'[r].pc = "finishing" /\ entry[r] = "none"
    BY DEF Inv, TypeOK, Local, AcceptInvalid, Finishing, LocalInv, Unanswered
  <2> QED
    BY <2>1, StoreKept DEF AcceptInvalid, SameOrder
<1> QED
  BY <1>1, <1>2, <1>3, <1>4 DEF Inv, TypeOK, Episode, AcceptInvalid, modeVars

LEMMA TimePasses ==
  ASSUME Inv, NEW r \in Request, WaitEnds(r) \/ DeadlinePasses(r)
  PROVE  Inv'
<1>1. req' \in [Request -> Local]
  <2>1. CASE WaitEnds(r)
    BY <2>1, Typed DEF Inv, WaitEnds, Pc
  <2>2. CASE DeadlinePasses(r)
    BY <2>2, Typed DEF Inv, DeadlinePasses, Pc
  <2> QED
    BY <2>1, <2>2
<1>2. LocalInv'
  BY DEF Inv, TypeOK, Local, WaitEnds, DeadlinePasses, Go, LocalInv, Unanswered, Answered,
         Fresh, Keyed, Working
<1>3. Indexed' /\ Waits'
  <2>1. \A s \in Request : SameOrder(s) /\ (req'[s].pc = "waiting" => req[s].pc = "waiting")
    BY DEF Inv, TypeOK, Local, WaitEnds, DeadlinePasses, Go, SameOrder
  <2> QED
    BY <2>1, StoreKept DEF WaitEnds, DeadlinePasses
<1> QED
  BY <1>1, <1>2, <1>3 DEF Inv, TypeOK, Episode, WaitEnds, DeadlinePasses, modeVars

LEMMA BeginAttemptInv ==
  ASSUME Inv, NEW r \in Request, BeginAttempt(r)
  PROVE  Inv'
<1>1. TypeOK'
  BY DEF Inv, TypeOK, BeginAttempt, modeVars, Local, Pc, Answer, Counter
<1>2. LocalInv'
  BY DEF Inv, TypeOK, Local, BeginAttempt, LocalInv, Unanswered, Answered, Fresh, Keyed, Working
<1>3. Indexed' /\ Waits'
  <2>1. \A s \in Request : SameOrder(s) /\ (req'[s].pc = "waiting" => req[s].pc = "waiting")
    BY DEF Inv, TypeOK, Local, BeginAttempt, SameOrder
  <2> QED
    BY <2>1, StoreKept DEF BeginAttempt
<1> QED
  BY <1>1, <1>2, <1>3 DEF Inv, Episode, BeginAttempt, modeVars

LEMMA AttemptReturnsInv ==
  ASSUME Inv, NEW r \in Request, AttemptReturns(r)
  PROVE  Inv'
<1>1. \/ \E pc \in {"storing", "attempt"} : Go(r, pc)
      \/ \E a \in {"unavailable", "rejected", "raised"} : Finishing(r, a)
  BY DEF AttemptReturns, Reserved, Retryable, NotRetryable
<1>2. req[r].pc = "calling" /\ UNCHANGED <<modeVars, index, older, entry, count>>
  BY DEF AttemptReturns
<1>3. TypeOK'
  BY <1>1, <1>2 DEF Inv, TypeOK, Go, Finishing, modeVars, Local, Pc, Answer
<1>4. LocalInv'
  BY <1>1, <1>2 DEF Inv, TypeOK, Local, Go, Finishing, LocalInv, Unanswered, Answered, Fresh,
                    Keyed, Working
<1>5. Indexed' /\ Waits'
  <2>1. \A s \in Request : SameOrder(s) /\ (req'[s].pc = "waiting" => req[s].pc = "waiting")
    BY <1>1, <1>2 DEF Inv, TypeOK, Local, Go, Finishing, SameOrder
  <2> QED
    BY <1>2, <2>1, StoreKept
<1> QED
  BY <1>2, <1>3, <1>4, <1>5 DEF Inv, Episode, modeVars

LEMMA AgesInv ==
  ASSUME Inv, NEW r \in Request, Ages(r)
  PROVE  Inv'
<1>1. TypeOK'
  BY DEF Inv, TypeOK, Ages, modeVars, Entry
<1>2. LocalInv'
  BY DEF Inv, TypeOK, Ages, LocalInv, Unanswered, Answered, Fresh, Keyed, Working
<1>3. Indexed' /\ Waits'
  BY DEF Inv, TypeOK, Ages, Indexed, Waits
<1> QED
  BY <1>1, <1>2, <1>3 DEF Inv, Episode, Ages, modeVars

LEMMA ModesInv ==
  ASSUME Inv, ModeStep
  PROVE  Inv'
<1> USE OrdersAssumption
<1>1. UNCHANGED <<index, older, entry, req, count>>
  BY DEF ModeStep, SetMode, SetModeFails, LeaseRunsOut, LeaseLooks, LeaseResets, Apply
<1> DEFINE Setting == [mode: Mode, namespace: Nat, limit: AttemptLimits,
                       lease: {"none", "running", "due"}]
<1>2. setting' \in Setting /\ changes' \in Nat /\ expired' \in BOOLEAN
  <2>1. ASSUME NEW mode \in Modes, NEW limit \in AttemptLimits, SetMode(mode, limit)
        PROVE  setting' \in Setting /\ changes' \in Nat /\ expired' \in BOOLEAN
    BY <2>1 DEF Inv, TypeOK, Mode, SetMode, Apply, Namespace
  <2>5. ASSUME NEW mode \in Modes, NEW limit \in AttemptLimits, SetModeFails(mode, limit)
        PROVE  setting' \in Setting /\ changes' \in Nat /\ expired' \in BOOLEAN
    <3>1. changes' \in Nat /\ expired' \in BOOLEAN
      BY <2>5 DEF Inv, TypeOK, SetModeFails
    <3>2. Namespace(mode) \in Nat /\ mode \in Mode
      BY <3>1 DEF Namespace, Mode
    <3> QED
      BY <2>5, <3>1, <3>2 DEF Inv, TypeOK, SetModeFails
  <2>2. CASE LeaseRunsOut
    BY <2>2 DEF Inv, TypeOK, LeaseRunsOut
  <2>3. CASE LeaseLooks
    BY <2>3 DEF Inv, TypeOK, LeaseLooks
  <2>4. CASE LeaseResets
    BY <2>4 DEF Inv, TypeOK, Mode, LeaseResets, Apply, Namespace
  <2> QED
    BY <2>1, <2>2, <2>3, <2>4, <2>5 DEF ModeStep
<1>3. LocalInv' /\ Indexed' /\ Waits'
  BY <1>1 DEF Inv, LocalInv, Unanswered, Answered, Fresh, Keyed, Indexed, Waits
<1>4. Episode'
  <2>1. ASSUME NEW mode \in Modes, NEW limit \in AttemptLimits,
               SetMode(mode, limit) \/ SetModeFails(mode, limit)
        PROVE  Episode'
    <3> DEFINE name == Namespace(mode)
    <3>1. changes' \in 1 .. MaxModes
      BY <2>1 DEF Inv, TypeOK, SetMode, SetModeFails
    <3>2. \/ setting' = [mode |-> mode, namespace |-> name, limit |-> limit,
                         lease |-> IF mode = "normal" THEN "none" ELSE "running"]
          \/ setting' = [setting EXCEPT !.mode = mode, !.namespace = name, !.limit = limit]
      BY <2>1 DEF SetMode, SetModeFails, Apply
    <3>3. name = IF mode = "idempotency-conflict" THEN changes' ELSE 0
      BY DEF Namespace
    <3> HIDE DEF name
    <3>4. setting'.mode = mode /\ setting'.namespace = name
      <4>1. CASE setting' = [mode |-> mode, namespace |-> name, limit |-> limit,
                             lease |-> IF mode = "normal" THEN "none" ELSE "running"]
        BY <4>1
      <4>2. CASE setting' = [setting EXCEPT !.mode = mode, !.namespace = name,
                                            !.limit = limit]
        <5>1. /\ DOMAIN setting = {"mode", "namespace", "limit", "lease"}
              /\ setting = [x \in DOMAIN setting |-> setting[x]]
          BY DEF Inv, TypeOK
        <5> QED BY <4>2, <5>1
      <4> QED BY <3>2, <4>1, <4>2
    <3> QED
      BY <3>1, <3>3, <3>4 DEF Episode
  <2>2. CASE LeaseRunsOut \/ LeaseLooks \/ LeaseResets
    BY <2>2 DEF Inv, TypeOK, Episode, LeaseRunsOut, LeaseLooks, LeaseResets, Apply
  <2> QED
    BY <2>1, <2>2 DEF ModeStep
<1> QED
  BY <1>1, <1>2, <1>3, <1>4 DEF Inv, TypeOK

-----------------------------------------------------------------------------
(* The loop under the lock.  A round forgets completed entries only.        *)
Forgets(keys) ==
  keys \in SUBSET Present /\ \A k \in Present \ keys : entry[index[k]] # "in_progress"

LEMMA RoundForgets ==
  ASSUME Inv
  PROVE  /\ Forgets(Present) /\ Forgets(Unexpired)
         /\ \A keys, out : Forgets(keys) /\ Evicted(keys, out) => Forgets(keys \ out)
  BY DEF Forgets, Unexpired, Evicted, Completed

LEMMA KeptInv ==
  ASSUME Inv, NEW keys, Forgets(keys), index' = Stored(keys), UNCHANGED entry,
         \A r \in Request : entry[r] # "none" => SameOrder(r),
         \A r \in Request :
           req'[r].pc = "waiting" =>
             \/ req[r].pc = "waiting" /\ SameOrder(r)
             \/ /\ req'[r].key \in keys /\ entry[index[req'[r].key]] = "in_progress"
                /\ req[index[req'[r].key]].order = req'[r].order
  PROVE  Indexed' /\ Waits'
<1>1. \A k \in RawKey : index[k] # None => index[k] \in Request /\ entry[index[k]] # "none"
  BY DEF Inv, TypeOK, Indexed
<1>2. \A r \in Request : req[r].pc = "waiting" => req[r].key \in RawKey
  BY DEF Inv, LocalInv, Unanswered, Keyed
<1>3. \A r \in Request : entry[r] = "in_progress" => req[r].key \in RawKey /\ req[r].key \in Present
  <2>1. \A r \in Request : entry[r] = "in_progress" => req[r].key \in RawKey
    BY DEF Inv, TypeOK, Local, Pc, Entry, LocalInv, Unanswered, Answered, Working, Keyed
  <2> QED
    BY <2>1, OrdersAssumption DEF Inv, Indexed, Present
<1>4. \A k \in RawKey : index[k] # None /\ entry[index[k]] = "in_progress" => k \in keys
  BY DEF Forgets, Present
<1>5. Indexed'
  BY <1>1, <1>3, <1>4 DEF Inv, Indexed, SameOrder, Stored, Forgets
<1>6. Waits'
  BY <1>1, <1>2, <1>4 DEF Inv, Waits, SameOrder, Stored, Forgets, Present
<1> QED
  BY <1>5, <1>6

LEMMA StoreTyped ==
  ASSUME Inv, NEW keys, Forgets(keys)
  PROVE  /\ Stored(keys) \in [RawKey -> Request \cup {None}]
         /\ \A k \in RawKey : older \cap (keys \X keys) \subseteq RawKey \X RawKey
              /\ (older \cap (keys \X keys)) \cup (keys \X {k}) \subseteq RawKey \X RawKey
              /\ (older \cap ((keys \ {k}) \X (keys \ {k}))) \cup ((keys \ {k}) \X {k})
                   \subseteq RawKey \X RawKey
  BY DEF Inv, TypeOK, Forgets, Present, Stored

LEMMA OthersKept ==
  ASSUME LocalInv, NEW r \in Request,
         \A s \in Request \ {r} : req'[s] = req[s] /\ entry'[s] = entry[s],
         (Unanswered(r) /\ Answered(r))'
  PROVE  LocalInv'
  BY DEF LocalInv, Unanswered, Answered, Fresh, Keyed

(* A request that leaves the loop answered, without an entry of its own.    *)
LEMMA LeavesInv ==
  ASSUME Inv, NEW r \in Request, NEW keys, Forgets(keys),
         req[r].pc \in {"accepted", "woken"},
         NEW a \in {"busy", "conflict", "in_progress"}, Finishing(r, a),
         Keep(keys), UNCHANGED <<modeVars, entry>>,
         NEW c \in Counter, Bump(c) \/ UNCHANGED count
  PROVE  Inv'
<1>1. req' \in [Request -> Local]
  BY Typed, ZenonT(30) DEF Inv, Pc, Answer
<1>2. TypeOK'
  BY <1>1, StoreTyped DEF Inv, TypeOK, Keep, Bump, modeVars
<1>3. /\ \A s \in Request \ {r} : req'[s] = req[s]
      /\ req'[r] = [req[r] EXCEPT !.pc = "finishing", !.answer = a]
      /\ req[r] \in Local /\ entry[r] = "none"
  BY DEF Inv, TypeOK, Finishing, LocalInv, Unanswered
<1>4. LocalInv'
  <2>1. /\ req'[r].pc = "finishing" /\ req'[r].answer = a /\ entry'[r] = "none"
        /\ req'[r].original = None
    BY <1>3 DEF Inv, Local, LocalInv, Unanswered, Fresh
  <2>2. (Unanswered(r) /\ Answered(r))'
    BY <2>1 DEF Unanswered, Answered, Working
  <2> QED
    BY <1>3, <2>2, OthersKept DEF Inv
<1>5. Indexed' /\ Waits'
  <2>1. /\ \A s \in Request : entry[s] # "none" => SameOrder(s)
        /\ \A s \in Request : req'[s].pc = "waiting" => req[s].pc = "waiting" /\ SameOrder(s)
    BY <1>3, ZenonT(30) DEF SameOrder, Local
  <2> QED
    BY <2>1, KeptInv DEF Keep
<1> QED
  BY <1>2, <1>4, <1>5 DEF Inv, Episode, modeVars

LEMMA ReplayInv ==
  ASSUME Inv, NEW r \in Request, NEW keys, Forgets(keys),
         req[r].pc \in {"accepted", "woken"}, Replay(r, keys), UNCHANGED modeVars
  PROVE  Inv'
<1>1. /\ \A s \in Request \ {r} : req'[s] = req[s]
      /\ req'[r] = [req[r] EXCEPT !.pc = "finishing", !.answer = "replayed",
                                  !.original = Holder(r)]
      /\ req[r] \in Local /\ entry[r] = "none"
  BY DEF Inv, TypeOK, Replay, LocalInv, Unanswered
<1>2. Holder(r) \in Request /\ req[r].key \in RawKey
  BY DEF Inv, TypeOK, Replay, Completed, Holder, Forgets, Present
<1>3. req' \in [Request -> Local]
  <2>1. req'[r] \in Local
    <3>1. "finishing" \in Pc /\ "replayed" \in Answer
      BY DEF Pc, Answer
    <3> QED
      BY <1>1, <1>2, <3>1 DEF Local
  <2> QED
    BY <1>1, <2>1 DEF Inv, TypeOK, Replay
<1>4. TypeOK'
  BY <1>2, <1>3, StoreTyped DEF Inv, TypeOK, Replay, MoveToEnd, Bump, Counter, modeVars
<1>5. LocalInv'
  <2>1. /\ req'[r].pc = "finishing" /\ req'[r].answer = "replayed" /\ entry'[r] = "none"
        /\ req'[r].original \in Request
    <3>1. UNCHANGED entry
      BY DEF Replay
    <3> QED
      BY <1>1, <1>2, <3>1 DEF Local
  <2>2. (Unanswered(r) /\ Answered(r))'
    BY <2>1 DEF Unanswered, Answered, Working
  <2> QED
    BY <1>1, <2>2, OthersKept DEF Inv, Replay
<1>6. Indexed' /\ Waits'
  <2>1. /\ \A s \in Request : entry[s] # "none" => SameOrder(s)
        /\ \A s \in Request : req'[s].pc = "waiting" => req[s].pc = "waiting" /\ SameOrder(s)
    BY <1>1 DEF SameOrder, Local
  <2> QED
    BY <2>1, KeptInv DEF Replay, MoveToEnd
<1> QED
  BY <1>4, <1>5, <1>6 DEF Inv, Episode, modeVars

LEMMA WaitInv ==
  ASSUME Inv, NEW r \in Request, NEW keys, Forgets(keys),
         req[r].pc \in {"accepted", "woken"}, Wait(r, keys), UNCHANGED modeVars
  PROVE  Inv'
<1>1. /\ \A s \in Request \ {r} : req'[s] = req[s]
      /\ req'[r] = [req[r] EXCEPT !.pc = "waiting"]
      /\ req[r] \in Local /\ entry[r] = "none"
  BY DEF Inv, TypeOK, Wait, Go, LocalInv, Unanswered
<1>2. req' \in [Request -> Local]
  BY Typed DEF Inv, Pc, Wait
<1>3. TypeOK'
  BY <1>2, StoreTyped DEF Inv, TypeOK, Wait, Keep, modeVars
<1>4. LocalInv'
  BY <1>1 DEF Inv, Local, Wait, LocalInv, Unanswered, Answered, Fresh, Keyed, Working
<1>5. Indexed' /\ Waits'
  <2>1. /\ req[r].key \in keys /\ entry[index[req[r].key]] = "in_progress"
        /\ req[index[req[r].key]].order = req[r].order
    BY DEF Inv, Indexed, Wait, InProgress, Completed, Holder, Forgets, Present
  <2>2. /\ \A s \in Request : SameOrder(s)
        /\ \A s \in Request : req'[s].pc = "waiting" => req[s].pc = "waiting" \/ s = r
    BY <1>1 DEF SameOrder, Local
  <2> QED
    BY <2>1, <2>2, KeptInv DEF Wait, Keep, SameOrder
<1> QED
  BY <1>3, <1>4, <1>5 DEF Inv, Episode, modeVars

LEMMA TakeInv ==
  ASSUME Inv, NEW r \in Request, NEW keys, Forgets(keys),
         req[r].pc \in {"accepted", "woken"}, req[r].key \notin keys,
         Append(req[r].key, r, keys), entry' = [entry EXCEPT ![r] = "in_progress"],
         Go(r, "attempt"), UNCHANGED <<modeVars, count>>
  PROVE  Inv'
<1>1. /\ \A s \in Request \ {r} : req'[s] = req[s] /\ entry'[s] = entry[s]
      /\ req'[r] = [req[r] EXCEPT !.pc = "attempt"]
      /\ entry'[r] = "in_progress"
      /\ req[r] \in Local /\ entry[r] = "none"
  BY DEF Inv, TypeOK, Go, LocalInv, Unanswered
<1>2. Fresh(r) /\ Keyed(r)
  BY DEF Inv, LocalInv, Unanswered
<1>3. req' \in [Request -> Local]
  BY Typed DEF Inv, Pc
<1>4. entry' \in [Request -> Entry]
  BY DEF Inv, TypeOK, Entry
<1>5. TypeOK'
  BY <1>2, <1>3, <1>4, StoreTyped DEF Inv, TypeOK, Append, modeVars, Keyed
<1>6. LocalInv'
  <2>1. /\ req'[r].pc = "attempt" /\ req'[r].answer = None /\ req'[r].original = None
        /\ req'[r].key \in RawKey /\ req'[r].order \in Name
    BY <1>1, <1>2 DEF Local, Fresh, Keyed
  <2>2. (Unanswered(r) /\ Answered(r))'
    BY <1>1, <2>1 DEF Unanswered, Answered, Working, Fresh, Keyed
  <2> QED
    BY <1>1, <2>2, OthersKept DEF Inv
<1>7. \A s \in Request : SameOrder(s) /\ (req'[s].pc = "waiting" => req[s].pc = "waiting" /\ s # r)
  BY <1>1 DEF SameOrder, Local
<1>8. /\ index'[req[r].key] = r
      /\ \A k \in RawKey \ {req[r].key} : index'[k] = IF k \in keys THEN index[k] ELSE None
  BY <1>2 DEF Append, Stored, Keyed
<1>9. \A k \in RawKey : index[k] # None /\ entry[index[k]] = "in_progress" => k \in keys
  BY DEF Forgets, Present
<1>10. \A k \in RawKey : index[k] # None => index[k] \in Request /\ index[k] # r
  BY <1>1 DEF Inv, TypeOK, Indexed
<1>11. Indexed'
  <2>1. ASSUME NEW k \in RawKey, index'[k] # None
        PROVE  req'[index'[k]].key = k
               /\ entry'[index'[k]] \in {"in_progress", "completed", "stale"}
    BY <1>1, <1>7, <1>8, <1>10, <2>1 DEF Inv, Indexed, SameOrder
  <2>2. ASSUME NEW s \in Request, entry'[s] = "in_progress", s # r
        PROVE  index'[req'[s].key] = s
    <3>1. index[req[s].key] = s /\ req'[s].key = req[s].key /\ entry[s] = "in_progress"
      BY <1>1, <2>2 DEF Inv, Indexed
    <3>2. req[s].key \in RawKey
      BY <3>1 DEF Inv, TypeOK, Local, Pc, LocalInv, Unanswered, Answered, Working, Keyed
    <3> QED
      BY <1>8, <1>9, <3>1, <3>2, OrdersAssumption
  <2> QED
    BY <1>7, <1>8, <2>1, <2>2 DEF Indexed, SameOrder
<1>12. Waits'
  <2>1. SUFFICES ASSUME NEW s \in Request, req[s].pc = "waiting", s # r
                 PROVE  /\ index'[req[s].key] # None
                        /\ entry'[index'[req[s].key]] = "in_progress"
                        /\ req'[index'[req[s].key]].order = req[s].order
    BY <1>7 DEF Waits, SameOrder
  <2>2. /\ req[s].key \in RawKey /\ index[req[s].key] # None
        /\ entry[index[req[s].key]] = "in_progress"
        /\ req[index[req[s].key]].order = req[s].order
    BY <2>1 DEF Inv, Waits, LocalInv, Unanswered, Keyed
  <2> QED
    BY <1>1, <1>8, <1>9, <1>10, <2>2
<1> QED
  BY <1>5, <1>6, <1>11, <1>12 DEF Inv, Episode, modeVars

LEMMA ExamineInv ==
  ASSUME Inv, NEW r \in Request, NEW keys, Forgets(keys),
         req[r].pc \in {"accepted", "woken"}, Examine(r, keys), UNCHANGED modeVars
  PROVE  Inv'
<1>1. CASE Take(r, keys)
  <2>1. PICK out \in SUBSET keys : Evicted(keys, out) /\ Append(req[r].key, r, keys \ out)
    BY <1>1 DEF Take
  <2>2. Forgets(keys \ out)
    BY <2>1, RoundForgets
  <2> QED
    BY <1>1, <2>1, <2>2, TakeInv DEF Take
<1>2. CASE RefuseBusy(r, keys)
  <2>1. PICK out \in SUBSET keys : Evicted(keys, out) /\ Keep(keys \ out)
    BY <1>2 DEF RefuseBusy
  <2>2. Forgets(keys \ out)
    BY <2>1, RoundForgets
  <2> QED
    BY <1>2, <2>1, <2>2, LeavesInv DEF RefuseBusy, Counter
<1>3. CASE Conflict(r, keys)
  BY <1>3, LeavesInv DEF Conflict, Counter
<1>4. CASE Replay(r, keys)
  BY <1>4, ReplayInv
<1>5. CASE RefuseInProgress(r, keys)
  BY <1>5, LeavesInv DEF RefuseInProgress, Counter
<1>6. CASE Wait(r, keys)
  BY <1>6, WaitInv
<1> QED
  BY <1>1, <1>2, <1>3, <1>4, <1>5, <1>6 DEF Examine

-----------------------------------------------------------------------------
(* A request completes its entry, or its finally block takes it out: both   *)
(* wake whoever waits.                                                      *)
LEMMA Notified ==
  ASSUME NEW f \in [Request -> Local]
  PROVE  /\ NotifyAll(f) \in [Request -> Local]
         /\ \A s \in Request :
              /\ NotifyAll(f)[s].pc = IF f[s].pc = "waiting" THEN "woken" ELSE f[s].pc
              /\ NotifyAll(f)[s].key = f[s].key /\ NotifyAll(f)[s].order = f[s].order
              /\ NotifyAll(f)[s].answer = f[s].answer
              /\ NotifyAll(f)[s].original = f[s].original
  BY DEF NotifyAll, Local, Pc

LEMMA StoreInv ==
  ASSUME Inv, NEW r \in Request, Store(r)
  PROVE  Inv'
<1> DEFINE f == [req EXCEPT ![r].pc = "finishing", ![r].answer = "completed"]
<1>1. /\ f \in [Request -> Local]
      /\ \A s \in Request \ {r} : f[s] = req[s]
      /\ f[r] = [req[r] EXCEPT !.pc = "finishing", !.answer = "completed"]
      /\ req[r] \in Local
  <2>1. "finishing" \in Pc /\ "completed" \in Answer
    BY DEF Pc, Answer
  <2>2. req \in [Request -> Local]
    BY DEF Inv, TypeOK
  <2>3. f \in [Request -> Local]
    BY <2>1, <2>2, ZenonT(30) DEF Local
  <2> QED
    BY <2>2, <2>3
<1>2. /\ req' = NotifyAll(f) /\ entry' = [entry EXCEPT ![r] = "completed"]
      /\ UNCHANGED <<modeVars, index, older, count>>
  BY DEF Store
<1>3. req[r].pc = "storing" /\ entry[r] = "in_progress" /\ Fresh(r) /\ Keyed(r)
  BY DEF Inv, Store, LocalInv, Unanswered, Working
<1> HIDE DEF f
<1>4. \A s \in Request : SameOrder(s) /\ req'[s].pc # "waiting"
  <2>1. \A s \in Request : f[s].key = req[s].key /\ f[s].order = req[s].order
    BY <1>1, ZenonT(30) DEF Local
  <2> QED
    BY <1>1, <1>2, <2>1, Notified DEF SameOrder
<1>5. TypeOK'
  BY <1>1, <1>2, Notified DEF Inv, TypeOK, Entry, modeVars
<1>6. LocalInv'
  <2>1. ASSUME NEW s \in Request \ {r}
        PROVE  (Unanswered(s) /\ Answered(s))'
    <3>1. /\ req'[s].pc = IF req[s].pc = "waiting" THEN "woken" ELSE req[s].pc
          /\ req'[s].key = req[s].key /\ req'[s].order = req[s].order
          /\ req'[s].answer = req[s].answer /\ req'[s].original = req[s].original
          /\ entry'[s] = entry[s]
      BY <1>1, <1>2, Notified DEF Inv, TypeOK
    <3>2. Unanswered(s) /\ Answered(s)
      BY DEF Inv, LocalInv
    <3> QED
      BY <3>1, <3>2 DEF Unanswered, Answered, Fresh, Keyed, Working
  <2>2. (Unanswered(r) /\ Answered(r))'
    <3>1. /\ req'[r].pc = "finishing" /\ req'[r].answer = "completed"
          /\ req'[r].key = req[r].key /\ req'[r].order = req[r].order
          /\ req'[r].original = None /\ entry'[r] = "completed"
      <4>1. /\ f[r].pc = "finishing" /\ f[r].answer = "completed"
            /\ f[r].key = req[r].key /\ f[r].order = req[r].order
            /\ f[r].original = None
        BY <1>1, <1>3 DEF Local, Fresh
      <4>2. entry'[r] = "completed"
        BY <1>2 DEF Inv, TypeOK
      <4> QED
        BY <1>1, <1>2, <4>1, <4>2, Notified
    <3> QED
      BY <1>3, <3>1 DEF Unanswered, Answered, Keyed, Working
  <2> QED
    BY <2>1, <2>2 DEF LocalInv
<1>7. Indexed'
  BY <1>2, <1>3, <1>4 DEF Inv, TypeOK, Indexed, SameOrder
<1>8. Waits'
  BY <1>4 DEF Waits
<1> QED
  BY <1>2, <1>5, <1>6, <1>7, <1>8 DEF Inv, Episode, modeVars

LEMMA FinishInv ==
  ASSUME Inv, NEW r \in Request, Finish(r)
  PROVE  Inv'
<1> DEFINE ended == [req EXCEPT ![r].pc = "done"]
<1>1. /\ ended \in [Request -> Local]
      /\ \A s \in Request \ {r} : ended[s] = req[s]
      /\ ended[r] = [req[r] EXCEPT !.pc = "done"]
      /\ req[r] \in Local
  <2>1. "done" \in Pc
    BY DEF Pc
  <2>2. req \in [Request -> Local]
    BY DEF Inv, TypeOK
  <2>3. ended \in [Request -> Local]
    BY <2>1, <2>2 DEF Local
  <2> QED
    BY <2>2, <2>3
<1>2. req' = IF OwnsEntry(r) THEN NotifyAll(ended) ELSE ended
  BY DEF Finish
<1>3. req[r].pc = "finishing" /\ UNCHANGED modeVars
  BY DEF Finish
<1> HIDE DEF ended
<1>4. /\ \A s \in Request : SameOrder(s) /\ req'[s].answer = req[s].answer
                               /\ req'[s].original = req[s].original
      /\ \A s \in Request \ {r} :
           req'[s].pc = IF req[s].pc = "waiting" /\ OwnsEntry(r) THEN "woken" ELSE req[s].pc
      /\ req'[r].pc = "done" /\ req' \in [Request -> Local]
  BY <1>1, <1>2, <1>3, Notified DEF SameOrder, Local
<1>5. count' \in [Counter -> Nat]
  <2>1. /\ count["inflight"] \in Nat /\ count["answered"] \in Nat /\ count["errors"] \in Nat
        /\ count \in [Counter -> Nat]
    BY DEF Inv, TypeOK, Counter
  <2> DEFINE i == IF count["inflight"] > 0 THEN count["inflight"] - 1 ELSE 0
             e == IF IsError(req[r].answer) THEN count["errors"] + 1 ELSE count["errors"]
  <2>2. i \in Nat /\ count["answered"] + 1 \in Nat /\ e \in Nat
    BY <2>1
  <2>3. count' = [count EXCEPT !["inflight"] = i, !["answered"] = count["answered"] + 1,
                               !["errors"] = e]
    BY DEF Finish
  <2> HIDE DEF i, e
  <2> QED
    BY <2>1, <2>2, <2>3
<1>6. CASE Failed(r)
  <2>1. /\ Keep(Present \ {req[r].key}) /\ entry' = [entry EXCEPT ![r] = "dropped"]
        /\ OwnsEntry(r)
    BY <1>6 DEF Finish, Failed
  <2>2. /\ entry[r] = "in_progress" /\ req[r].original = None
        /\ req[r].answer \in {"unavailable", "rejected", "raised"} /\ Keyed(r)
        /\ index[req[r].key] = r
    BY <1>3, <1>6 DEF Inv, LocalInv, Answered, Failed, OwnsEntry, Indexed
  <2>3. TypeOK'
    BY <1>3, <1>4, <1>5, <2>1 DEF Inv, TypeOK, Keep, Stored, Present, Entry, modeVars
  <2>4. LocalInv'
    <3>1. ASSUME NEW s \in Request \ {r}
          PROVE  (Unanswered(s) /\ Answered(s))'
      <4>1. Unanswered(s) /\ Answered(s) /\ entry'[s] = entry[s]
        BY <2>1 DEF Inv, TypeOK, LocalInv
      <4> QED
        BY <1>4, <4>1 DEF Unanswered, Answered, Fresh, Keyed, Working, SameOrder
    <3>2. (Unanswered(r) /\ Answered(r))'
      <4>1. entry'[r] = "dropped"
        BY <2>1 DEF Inv, TypeOK
      <4> QED
        BY <1>4, <2>2, <4>1 DEF Unanswered, Answered, Fresh, Keyed, Working, SameOrder
    <3> QED
      BY <3>1, <3>2 DEF LocalInv
  <2>5. Indexed'
    <3>1. \A k \in RawKey : index'[k] = IF k = req[r].key THEN None ELSE index[k]
      BY <2>1 DEF Keep, Stored, Present
    <3>2. ASSUME NEW k \in RawKey, index'[k] # None
          PROVE  req'[index'[k]].key = k
                 /\ entry'[index'[k]] \in {"in_progress", "completed", "stale"}
      <4>1. index'[k] = index[k] /\ index[k] # None /\ k # req[r].key
        BY <3>1, <3>2
      <4>2. index[k] \in Request /\ req[index[k]].key = k /\ index[k] # r
        BY <4>1 DEF Inv, TypeOK, Indexed
      <4> QED
        BY <1>4, <2>1, <4>1, <4>2 DEF Inv, TypeOK, Indexed, SameOrder
    <3>3. ASSUME NEW s \in Request, entry'[s] = "in_progress"
          PROVE  index'[req'[s].key] = s
      <4>1. s # r /\ entry[s] = "in_progress"
        BY <2>1, <3>3 DEF Inv, TypeOK
      <4>2. index[req[s].key] = s /\ req[s].key \in RawKey
        BY <4>1 DEF Inv, TypeOK, Local, Pc, Indexed, LocalInv, Unanswered, Answered, Working, Keyed
      <4> QED
        BY <1>4, <2>2, <3>1, <4>1, <4>2 DEF SameOrder
    <3> QED
      BY <3>2, <3>3 DEF Indexed
  <2>6. Waits'
    BY <1>4, <2>1 DEF Waits
  <2> QED
    BY <1>3, <2>3, <2>4, <2>5, <2>6 DEF Inv, Episode, modeVars
<1>7. CASE ~Failed(r)
  <2>1. UNCHANGED <<index, older, entry>>
    BY <1>7 DEF Finish
  <2>2. TypeOK'
    BY <1>3, <1>4, <1>5, <2>1 DEF Inv, TypeOK, modeVars
  <2>3. LocalInv'
    <3>1. ASSUME NEW s \in Request \ {r}
          PROVE  (Unanswered(s) /\ Answered(s))'
      <4>1. Unanswered(s) /\ Answered(s)
        BY DEF Inv, LocalInv
      <4> QED
        BY <1>4, <2>1, <4>1 DEF Unanswered, Answered, Fresh, Keyed, Working, SameOrder
    <3>2. (Unanswered(r) /\ Answered(r))'
      <4>1. Answered(r)
        BY DEF Inv, LocalInv
      <4> QED
        BY <1>3, <1>4, <1>7, <2>1, <4>1
           DEF Unanswered, Answered, Failed, OwnsEntry, Keyed, Working, SameOrder
    <3> QED
      BY <3>1, <3>2 DEF LocalInv
  <2>4. Indexed' /\ Waits'
    BY <1>3, <1>4, <2>1, StoreKept DEF SameOrder
  <2> QED
    BY <1>3, <2>2, <2>3, <2>4 DEF Inv, Episode, modeVars
<1> QED
  BY <1>6, <1>7

-----------------------------------------------------------------------------
LEMMA NextInv == Inv /\ [Next]_vars => Inv'
<1> SUFFICES ASSUME Inv, [Next]_vars PROVE Inv'
    OBVIOUS
<1>1. ASSUME NEW r \in Request, NEW o \in Name, NEW header \in Name \cup {None},
             Accept(r, o, header)
      PROVE  Inv'
  BY <1>1, AcceptInv
<1>2. ASSUME NEW r \in Request,
             AcceptInvalid(r) \/ RequestStep(r) \/ DeadlinePasses(r) \/ Ages(r)
      PROVE  Inv'
  <2>1. CASE Enter(r)
    BY <2>1, RoundForgets, ExamineInv DEF Enter
  <2>2. CASE Reenter(r)
    BY <2>2, RoundForgets, ExamineInv DEF Reenter
  <2>3. CASE Store(r) \/ Finish(r)
    BY <2>3, StoreInv, FinishInv
  <2>4. CASE AcceptInvalid(r) \/ Ages(r) \/ BeginAttempt(r) \/ AttemptReturns(r)
    BY <2>4, AcceptInvalidInv, AgesInv, BeginAttemptInv, AttemptReturnsInv
  <2>5. CASE WaitEnds(r) \/ DeadlinePasses(r)
    BY <2>5, TimePasses
  <2> QED
    BY <1>2, <2>1, <2>2, <2>3, <2>4, <2>5 DEF RequestStep
<1>3. CASE ModeStep
  BY <1>3, ModesInv
<1>4. CASE UNCHANGED vars
  BY <1>4 DEF vars, modeVars, Inv, TypeOK, LocalInv, Unanswered, Answered, Fresh, Keyed,
              Indexed, Waits, Episode
<1> QED
  BY <1>1, <1>2, <1>3, <1>4 DEF Next

THEOREM Invariance == Spec => []Inv
  BY InitInv, NextInv, PTL DEF Spec

(* Every variable of a checkout has its type (app/orders.py).               *)
THEOREM TypeCorrect == Spec => []TypeOK
  BY Invariance, PTL DEF Inv

(* Nobody waits in vain, and no key stays taken by a request that is gone   *)
(* (notify_all and the finally block of checkout).                          *)
THEOREM NobodyWaitsInVain == Spec => []WaitsForWork
<1>1. Inv => WaitsForWork
  <2> SUFFICES ASSUME Inv PROVE WaitsForWork
    OBVIOUS
  <2>1. \A r \in Request : entry[r] = "in_progress" => req[r].pc \in Working \cup {"finishing"}
    BY DEF Inv, TypeOK, Local, Pc, LocalInv, Unanswered, Answered, Working
  <2> QED
    BY <2>1 DEF Inv, TypeOK, Waits, WaitsForWork, Holder, Present
<1> QED
  BY <1>1, Invariance, PTL

-----------------------------------------------------------------------------
(* The refinement.  Steps of the abstract store are steps of one request.   *)
LEMMA JobSame ==
  ASSUME NEW s \in Request, entry'[s] = entry[s], SameOrder(s),
         req'[s].answer = req[s].answer, req'[s].original = req[s].original,
         req'[s].pc = "new" <=> req[s].pc = "new",
         req'[s].pc \in Looking <=> req[s].pc \in Looking
  PROVE  Jobs'[s] = Jobs[s]
  BY DEF Jobs, Phase, SameOrder

LEMMA JobsStep ==
  ASSUME NEW r \in Request, \A s \in Request \ {r} : Jobs'[s] = Jobs[s]
  PROVE  /\ Jobs' = [Jobs EXCEPT ![r] = Jobs'[r]]
         /\ Jobs'[r] = Jobs[r] => UNCHANGED Jobs
         /\ \A p : Jobs'[r] = [Jobs[r] EXCEPT !.phase = p] =>
                    Jobs' = [Jobs EXCEPT ![r].phase = p]
<1>1. Jobs = [s \in Request |-> Jobs[s]] /\ Jobs' = [s \in Request |-> Jobs'[s]]
  BY DEF Jobs
<1> QED
  BY <1>1

(* Forgetting every key outside keys is what Keep does.                     *)
LEMMA Forgotten ==
  ASSUME Inv, NEW keys, Forgets(keys)
  PROVE  /\ Present \ keys \in SUBSET Checkout!Forgettable
         /\ Checkout!Without(Present \ keys) = Stored(keys)
<1>1. ASSUME NEW k \in Present \ keys PROVE Jobs[index[k]].phase = "completed"
  <2>1. /\ index[k] \in Request /\ entry[index[k]] \in {"completed", "stale"}
    BY DEF Inv, TypeOK, Indexed, Forgets, Present
  <2>2. req[index[k]].pc \in {"finishing", "done"}
    BY <2>1 DEF Inv, TypeOK, Local, Pc, LocalInv, Unanswered, Working
  <2> QED
    BY <2>1, <2>2 DEF Jobs, Phase, Looking
<1>2. Present \ keys \in SUBSET Checkout!Forgettable
  BY <1>1 DEF Checkout!Forgettable, Present
<1>3. Checkout!Without(Present \ keys) = Stored(keys)
  BY DEF Checkout!Without, Stored, Forgets, Present
<1> QED
  BY <1>2, <1>3

(* A step that changes neither the store nor the phase of anyone.           *)
LEMMA Quiet ==
  ASSUME UNCHANGED index, \A s \in Request : Jobs'[s] = Jobs[s]
  PROVE  UNCHANGED Checkout!vars
<1>1. Jobs = [s \in Request |-> Jobs[s]] /\ Jobs' = [s \in Request |-> Jobs'[s]]
  BY DEF Jobs
<1> QED
  BY <1>1 DEF Checkout!vars

LEMMA AcceptAsks ==
  ASSUME Inv, NEW r \in Request, NEW o \in Name, NEW header \in Name \cup {None},
         Accept(r, o, header)
  PROVE  Checkout!Next
<1>1. KeyOf(o, header) \in RawKey
  BY OrdersAssumption DEF Inv, Episode, TypeOK, KeyOf, RawKey
<1>2. /\ \A s \in Request \ {r} : req'[s] = req[s] /\ entry'[s] = entry[s]
      /\ req'[r].pc = "accepted" /\ req'[r].key = KeyOf(o, header) /\ req'[r].order = o
      /\ req'[r].original = None
      /\ req[r].pc = "new" /\ UNCHANGED index /\ entry[r] = "none" /\ entry'[r] = "none"
  BY DEF Inv, TypeOK, Local, Accept, LocalInv, Unanswered, Fresh
<1>3. \A s \in Request \ {r} : Jobs'[s] = Jobs[s]
  BY <1>2, JobSame DEF SameOrder
<1>4. /\ Jobs[r].phase = "new"
      /\ Jobs'[r] = [phase |-> "asked", key |-> KeyOf(o, header), order |-> o, from |-> None]
  BY <1>2 DEF Jobs, Phase, Looking
<1>5. Checkout!Ask(r, KeyOf(o, header), o)
  BY <1>2, <1>3, <1>4, JobsStep DEF Checkout!Ask
<1> QED
  BY <1>1, <1>5 DEF Checkout!Next

(* A request that is answered without an entry is refused.                  *)
LEMMA LeavesRefused ==
  ASSUME Inv, NEW r \in Request, NEW keys, Forgets(keys),
         req[r].pc \in Looking \cup {"new"},
         NEW a \in {"busy", "conflict", "in_progress", "invalid"}, Finishing(r, a),
         index' = Stored(keys), UNCHANGED entry
  PROVE  Checkout!Next
<1>1. /\ \A s \in Request \ {r} : req'[s] = req[s]
      /\ req'[r] = [req[r] EXCEPT !.pc = "finishing", !.answer = a]
      /\ req[r] \in Local /\ entry[r] = "none"
  BY DEF Inv, TypeOK, Finishing, LocalInv, Unanswered, Looking
<1>2. /\ req'[r].pc = "finishing" /\ req'[r].answer = a /\ SameOrder(r)
      /\ req'[r].original = req[r].original
  BY <1>1 DEF Local, SameOrder
<1>3. \A s \in Request \ {r} : Jobs'[s] = Jobs[s]
  BY <1>1, JobSame DEF SameOrder
<1>4. Jobs[r].phase \in {"new", "asked"} /\ Jobs'[r] = [Jobs[r] EXCEPT !.phase = "refused"]
  <2>1. Phase(r) \in {"new", "asked"} /\ Phase(r)' = "refused"
    BY <1>1, <1>2 DEF Phase, Looking
  <2> QED
    BY <1>2, <2>1 DEF Jobs, SameOrder
<1>5. Jobs' = [Jobs EXCEPT ![r].phase = "refused"]
  BY <1>3, <1>4, JobsStep
<1>6. Checkout!Refuse(r)
  BY <1>4, <1>5, Forgotten DEF Checkout!Refuse, Checkout!Becomes
<1> QED
  BY <1>6 DEF Checkout!Next

LEMMA ReplayServes ==
  ASSUME Inv, NEW r \in Request, NEW keys, Forgets(keys),
         req[r].pc \in Looking, Replay(r, keys)
  PROVE  Checkout!Next
<1> DEFINE s == Holder(r)
<1>1. /\ req[r].key \in RawKey /\ s \in Request /\ s # None
      /\ Stored(keys)[req[r].key] = s
      /\ entry[s] \in {"completed", "stale"} /\ req[s].order = req[r].order
      /\ UNCHANGED entry /\ index' = Stored(keys)
  BY OrdersAssumption
     DEF Inv, TypeOK, Replay, Completed, Holder, Forgets, Present, Stored, MoveToEnd
<1>2. /\ \A t \in Request \ {r} : req'[t] = req[t]
      /\ req'[r] = [req[r] EXCEPT !.pc = "finishing", !.answer = "replayed", !.original = s]
      /\ req[r] \in Local /\ entry[r] = "none"
  BY DEF Inv, TypeOK, Replay, LocalInv, Unanswered, Looking
<1>3. /\ req'[r].pc = "finishing" /\ req'[r].answer = "replayed" /\ SameOrder(r)
      /\ req'[r].original = s
  BY <1>2 DEF Local, SameOrder
<1>4. \A t \in Request \ {r} : Jobs'[t] = Jobs[t]
  BY <1>1, <1>2, JobSame DEF SameOrder
<1>5. /\ Jobs[r].phase = "asked" /\ Jobs[r].key = req[r].key
      /\ Jobs'[r] = [phase |-> "served", key |-> Jobs[r].key, order |-> Jobs[r].order,
                     from |-> s]
  <2>1. Phase(r) = "asked" /\ Phase(r)' = "served"
    BY <1>1, <1>2, <1>3 DEF Phase, Looking
  <2> HIDE DEF s
  <2>2. /\ Jobs[r] = [phase |-> "asked", key |-> req[r].key, order |-> req[r].order,
                      from |-> req[r].original]
        /\ Jobs'[r] = [phase |-> "served", key |-> req[r].key, order |-> req[r].order,
                       from |-> s]
    BY <1>3, <2>1 DEF Jobs, SameOrder
  <2> QED
    BY <2>2
<1>6. Jobs[s].phase = "completed" /\ Jobs[s].order = Jobs[r].order
  <2>1. req[s].pc \in {"finishing", "done"}
    BY <1>1 DEF Inv, TypeOK, Local, Pc, LocalInv, Unanswered, Working
  <2> QED
    BY <1>1, <2>1 DEF Jobs, Phase, Looking
<1>7. Jobs' = [Jobs EXCEPT ![r] = [phase |-> "served", key |-> Jobs[r].key,
                                  order |-> Jobs[r].order, from |-> s]]
  BY <1>4, <1>5, JobsStep
<1>8. Checkout!Serve(r)
  <2>1. /\ Present \ keys \in SUBSET Checkout!Forgettable
        /\ Checkout!Without(Present \ keys) = Stored(keys)
    BY Forgotten
  <2> HIDE DEF s
  <2> QED
    BY <1>1, <1>5, <1>6, <1>7, <2>1 DEF Checkout!Serve
<1> QED
  BY <1>8 DEF Checkout!Next

LEMMA TakeBegins ==
  ASSUME Inv, NEW r \in Request, NEW keys, Forgets(keys),
         req[r].pc \in Looking, req[r].key \notin keys,
         index' = [Stored(keys) EXCEPT ![req[r].key] = r],
         entry' = [entry EXCEPT ![r] = "in_progress"], Go(r, "attempt")
  PROVE  Checkout!Next
<1>1. /\ \A t \in Request \ {r} : req'[t] = req[t] /\ entry'[t] = entry[t]
      /\ req'[r] = [req[r] EXCEPT !.pc = "attempt"]
      /\ req[r] \in Local /\ req[r].key \in RawKey
      /\ entry[r] = "none" /\ entry'[r] = "in_progress"
  BY DEF Inv, TypeOK, Go, LocalInv, Unanswered, Looking, Keyed
<1>2. req'[r].pc = "attempt" /\ SameOrder(r) /\ req'[r].original = req[r].original
  BY <1>1 DEF Local, SameOrder
<1>3. \A t \in Request \ {r} : Jobs'[t] = Jobs[t]
  BY <1>1, JobSame DEF SameOrder
<1>4. /\ Jobs[r].phase = "asked" /\ Jobs[r].key = req[r].key
      /\ Jobs'[r] = [Jobs[r] EXCEPT !.phase = "working"]
  <2>1. Phase(r) = "asked" /\ Phase(r)' = "working"
    BY <1>1, <1>2 DEF Phase, Looking
  <2> QED
    BY <1>2, <2>1 DEF Jobs, SameOrder
<1>5. Jobs' = [Jobs EXCEPT ![r].phase = "working"]
  BY <1>3, <1>4, JobsStep
<1>6. Checkout!Begin(r)
  <2>1. /\ Present \ keys \in SUBSET Checkout!Forgettable
        /\ Checkout!Without(Present \ keys) = Stored(keys)
    BY Forgotten
  <2>2. Stored(keys)[req[r].key] = None
    BY <1>1 DEF Stored
  <2> QED
    BY <1>4, <1>5, <2>1, <2>2 DEF Checkout!Begin, Checkout!Becomes
<1> QED
  BY <1>6 DEF Checkout!Next

LEMMA ExamineRefines ==
  ASSUME Inv, NEW r \in Request, NEW keys, Forgets(keys),
         req[r].pc \in {"accepted", "woken"}, Examine(r, keys)
  PROVE  Checkout!Next \/ UNCHANGED Checkout!vars
<1>1. req[r].pc \in Looking
  BY DEF Looking
<1>2. CASE Take(r, keys)
  <2>1. PICK out \in SUBSET keys : Evicted(keys, out) /\ Append(req[r].key, r, keys \ out)
    BY <1>2 DEF Take
  <2>2. Forgets(keys \ out)
    BY <2>1, RoundForgets
  <2> QED
    BY <1>1, <1>2, <2>1, <2>2, TakeBegins DEF Take, Append
<1>3. CASE RefuseBusy(r, keys)
  <2>1. PICK out \in SUBSET keys : Evicted(keys, out) /\ Keep(keys \ out)
    BY <1>3 DEF RefuseBusy
  <2>2. Forgets(keys \ out)
    BY <2>1, RoundForgets
  <2> QED
    BY <1>1, <1>3, <2>1, <2>2, LeavesRefused DEF RefuseBusy, Keep
<1>4. CASE Conflict(r, keys)
  BY <1>1, <1>4, LeavesRefused DEF Conflict, Keep
<1>5. CASE Replay(r, keys)
  BY <1>1, <1>5, ReplayServes
<1>6. CASE RefuseInProgress(r, keys)
  BY <1>1, <1>6, LeavesRefused DEF RefuseInProgress, Keep
<1>7. CASE Wait(r, keys)
  <2>1. /\ \A s \in Request \ {r} : req'[s] = req[s]
        /\ req'[r] = [req[r] EXCEPT !.pc = "waiting"] /\ req[r] \in Local
        /\ UNCHANGED entry /\ index' = Stored(keys)
    BY <1>7 DEF Inv, TypeOK, Wait, Go, Keep
  <2>2. \A s \in Request : Jobs'[s] = Jobs[s]
    <3>1. /\ req'[r].pc = "waiting" /\ SameOrder(r) /\ req'[r].answer = req[r].answer
          /\ req'[r].original = req[r].original
      BY <2>1 DEF Local, SameOrder
    <3>2. Jobs'[r] = Jobs[r]
      BY <1>1, <2>1, <3>1, JobSame DEF Looking
    <3>3. \A s \in Request \ {r} : Jobs'[s] = Jobs[s]
      BY <2>1, JobSame DEF SameOrder
    <3> QED
      BY <3>2, <3>3
  <2>3. UNCHANGED Jobs
    BY <2>2, JobsStep
  <2>4. Checkout!Forget
    BY <2>1, <2>3, Forgotten DEF Checkout!Forget
  <2> QED
    BY <2>4 DEF Checkout!Next
<1> QED
  BY <1>2, <1>3, <1>4, <1>5, <1>6, <1>7 DEF Examine

LEMMA StoreSucceeds ==
  ASSUME Inv, NEW r \in Request, Store(r)
  PROVE  Checkout!Next
<1> DEFINE f == [req EXCEPT ![r].pc = "finishing", ![r].answer = "completed"]
<1>1. /\ f \in [Request -> Local]
      /\ \A s \in Request \ {r} : f[s] = req[s]
      /\ f[r] = [req[r] EXCEPT !.pc = "finishing", !.answer = "completed"]
      /\ req[r] \in Local
  <2>1. "finishing" \in Pc /\ "completed" \in Answer
    BY DEF Pc, Answer
  <2>2. req \in [Request -> Local]
    BY DEF Inv, TypeOK
  <2>3. f \in [Request -> Local]
    BY <2>1, <2>2, ZenonT(30) DEF Local
  <2> QED
    BY <2>2, <2>3
<1>2. req' = NotifyAll(f) /\ entry' = [entry EXCEPT ![r] = "completed"] /\ UNCHANGED index
  BY DEF Store
<1>3. /\ req[r].pc = "storing" /\ entry[r] = "in_progress" /\ Keyed(r)
      /\ index[req[r].key] = r
  BY DEF Inv, Store, LocalInv, Unanswered, Working, Indexed
<1> HIDE DEF f
<1>4. \A s \in Request \ {r} : Jobs'[s] = Jobs[s]
  <2> SUFFICES ASSUME NEW s \in Request \ {r} PROVE Jobs'[s] = Jobs[s]
    OBVIOUS
  <2>1. /\ req'[s].pc = IF req[s].pc = "waiting" THEN "woken" ELSE req[s].pc
        /\ SameOrder(s) /\ req'[s].answer = req[s].answer
        /\ req'[s].original = req[s].original /\ entry'[s] = entry[s]
    BY <1>1, <1>2, Notified DEF Inv, TypeOK, SameOrder
  <2>2. /\ req'[s].pc = "new" <=> req[s].pc = "new"
        /\ req'[s].pc \in Looking <=> req[s].pc \in Looking
    BY <2>1 DEF Looking
  <2> QED
    BY <2>1, <2>2, JobSame
<1>5. /\ Jobs[r].phase = "working" /\ Jobs[r].key = req[r].key
      /\ Jobs'[r] = [Jobs[r] EXCEPT !.phase = "completed"]
  <2>1. f[r].pc = "finishing" /\ f[r].key = req[r].key /\ f[r].order = req[r].order
        /\ f[r].original = req[r].original
    BY <1>1 DEF Local
  <2>2. /\ req'[r].pc = "finishing" /\ SameOrder(r) /\ req'[r].original = req[r].original
        /\ entry'[r] = "completed"
    BY <1>1, <1>2, <2>1, Notified, ZenonT(30) DEF Inv, TypeOK, SameOrder
  <2>3. Phase(r) = "working" /\ Phase(r)' = "completed"
    BY <1>3, <2>2 DEF Phase, Looking
  <2> QED
    BY <2>2, <2>3 DEF Jobs, SameOrder
<1>6. Checkout!Succeed(r)
  BY <1>2, <1>3, <1>4, <1>5, JobsStep DEF Checkout!Succeed, Checkout!Becomes
<1> QED
  BY <1>6 DEF Checkout!Next

LEMMA FinishFails ==
  ASSUME Inv, NEW r \in Request, Finish(r)
  PROVE  Checkout!Next \/ UNCHANGED Checkout!vars
<1> DEFINE ended == [req EXCEPT ![r].pc = "done"]
<1>1. /\ ended \in [Request -> Local]
      /\ \A s \in Request \ {r} : ended[s] = req[s]
      /\ ended[r] = [req[r] EXCEPT !.pc = "done"]
      /\ req[r] \in Local
  <2>1. "done" \in Pc
    BY DEF Pc
  <2>2. req \in [Request -> Local]
    BY DEF Inv, TypeOK
  <2>3. ended \in [Request -> Local]
    BY <2>1, <2>2 DEF Local
  <2> QED
    BY <2>2, <2>3
<1>2. /\ req' = IF OwnsEntry(r) THEN NotifyAll(ended) ELSE ended
      /\ req[r].pc = "finishing"
  BY DEF Finish
<1> HIDE DEF ended
<1>3. /\ \A s \in Request : SameOrder(s) /\ req'[s].answer = req[s].answer
                               /\ req'[s].original = req[s].original
      /\ \A s \in Request \ {r} :
           req'[s].pc = IF req[s].pc = "waiting" /\ OwnsEntry(r) THEN "woken" ELSE req[s].pc
      /\ req'[r].pc = "done"
  <2>1. /\ ended[r].key = req[r].key /\ ended[r].order = req[r].order
        /\ ended[r].answer = req[r].answer /\ ended[r].original = req[r].original
        /\ ended[r].pc = "done"
    BY <1>1 DEF Local
  <2>2. CASE OwnsEntry(r)
    <3>1. \A s \in Request :
             /\ req'[s].pc = IF ended[s].pc = "waiting" THEN "woken" ELSE ended[s].pc
             /\ req'[s].key = ended[s].key /\ req'[s].order = ended[s].order
             /\ req'[s].answer = ended[s].answer /\ req'[s].original = ended[s].original
      BY <1>1, <1>2, <2>2, Notified
    <3>2. \A s \in Request \ {r} : ended[s] = req[s]
      BY <1>1
    <3>3. req'[r].pc = "done" /\ SameOrder(r) /\ req'[r].answer = req[r].answer
          /\ req'[r].original = req[r].original
      BY <2>1, <3>1 DEF SameOrder
    <3>4. ASSUME NEW s \in Request \ {r}
          PROVE  /\ SameOrder(s) /\ req'[s].answer = req[s].answer
                 /\ req'[s].original = req[s].original
                 /\ req'[s].pc = IF req[s].pc = "waiting" THEN "woken" ELSE req[s].pc
      BY <3>1, <3>2, <3>4 DEF SameOrder
    <3> QED
      BY <2>2, <3>3, <3>4
  <2>3. CASE ~OwnsEntry(r)
    BY <1>1, <1>2, <2>1, <2>3 DEF SameOrder
  <2> QED
    BY <2>2, <2>3
<1>4. \A s \in Request \ {r} :
        entry'[s] = entry[s] => Jobs'[s] = Jobs[s]
  <2> SUFFICES ASSUME NEW s \in Request \ {r}, entry'[s] = entry[s]
               PROVE  Jobs'[s] = Jobs[s]
    OBVIOUS
  <2>1. /\ req'[s].pc = "new" <=> req[s].pc = "new"
        /\ req'[s].pc \in Looking <=> req[s].pc \in Looking
    BY <1>3 DEF Looking
  <2> QED
    BY <1>3, <2>1, JobSame
<1>5. CASE Failed(r)
  <2>1. /\ index' = Stored(Present \ {req[r].key}) /\ entry' = [entry EXCEPT ![r] = "dropped"]
    BY <1>5 DEF Finish, Keep
  <2>2. entry[r] = "in_progress" /\ Keyed(r) /\ index[req[r].key] = r
    BY <1>2, <1>5 DEF Inv, LocalInv, Answered, Failed, OwnsEntry, Indexed
  <2>3. /\ \A s \in Request \ {r} : Jobs'[s] = Jobs[s]
        /\ entry'[r] = "dropped"
    BY <1>4, <2>1 DEF Inv, TypeOK
  <2>4. /\ Jobs[r].phase = "working" /\ Jobs[r].key = req[r].key
        /\ Jobs'[r] = [Jobs[r] EXCEPT !.phase = "failed"]
    <3>1. Phase(r) = "working" /\ Phase(r)' = "failed"
      BY <1>2, <1>3, <2>2, <2>3 DEF Phase, Looking
    <3> QED
      BY <1>3, <3>1 DEF Jobs, SameOrder
  <2>5. index' = [index EXCEPT ![req[r].key] = None]
    BY <2>1, <2>2 DEF Inv, TypeOK, Stored, Present, Keyed
  <2>6. Checkout!Fail(r)
    BY <2>2, <2>3, <2>4, <2>5, JobsStep DEF Checkout!Fail, Checkout!Becomes
  <2> QED
    BY <2>6 DEF Checkout!Next
<1>6. CASE ~Failed(r)
  <2>1. UNCHANGED <<index, entry>>
    BY <1>6 DEF Finish
  <2>2. Jobs'[r] = Jobs[r]
    BY <1>2, <1>3, <2>1, JobSame DEF Looking
  <2>3. \A s \in Request : Jobs'[s] = Jobs[s]
    BY <1>4, <2>1, <2>2
  <2> QED
    BY <2>1, <2>3, Quiet
<1> QED
  BY <1>5, <1>6

LEMMA OthersQuiet ==
  ASSUME Inv, NEW r \in Request,
         WaitEnds(r) \/ DeadlinePasses(r) \/ BeginAttempt(r) \/ AttemptReturns(r) \/ Ages(r)
  PROVE  UNCHANGED Checkout!vars
<1>1. CASE WaitEnds(r) \/ DeadlinePasses(r) \/ BeginAttempt(r) \/ AttemptReturns(r)
  <2>1. UNCHANGED <<index, entry>>
    BY <1>1 DEF WaitEnds, DeadlinePasses, BeginAttempt, AttemptReturns
  <2>2. \A s \in Request :
          /\ SameOrder(s) /\ req'[s].original = req[s].original
          /\ (req'[s].pc = "new") <=> (req[s].pc = "new")
          /\ (req'[s].pc \in Looking) <=> (req[s].pc \in Looking)
          /\ \/ req'[s].answer = req[s].answer
             \/ /\ entry[s] = "in_progress" /\ req[s].pc = "calling"
                /\ req'[s].pc = "finishing"
    <3>1. CASE WaitEnds(r) \/ DeadlinePasses(r) \/ BeginAttempt(r)
      BY <3>1 DEF Inv, TypeOK, Local, WaitEnds, DeadlinePasses, BeginAttempt, Go, SameOrder, Looking
    <3>2. CASE AttemptReturns(r)
      <4>1. /\ \/ \E pc \in {"storing", "attempt"} : Go(r, pc)
               \/ \E a \in {"unavailable", "rejected", "raised"} : Finishing(r, a)
            /\ req[r].pc = "calling" /\ entry[r] = "in_progress"
        BY <3>2 DEF AttemptReturns, Reserved, Retryable, NotRetryable, Inv, LocalInv, Unanswered,
                    Working
      <4>2. req \in [Request -> Local]
        BY DEF Inv, TypeOK
      <4> QED
        BY <4>1, <4>2 DEF Local, Go, Finishing, SameOrder, Looking
    <3> QED
      BY <1>1, <3>1, <3>2
  <2>3. ASSUME NEW s \in Request PROVE Jobs'[s] = Jobs[s]
    <3>1. CASE req'[s].answer = req[s].answer
      BY <2>1, <2>2, <3>1, JobSame
    <3>2. CASE entry[s] = "in_progress" /\ req[s].pc = "calling" /\ req'[s].pc = "finishing"
      BY <2>1, <2>2, <3>2 DEF Jobs, Phase, Looking, SameOrder
    <3> QED
      BY <2>2, <3>1, <3>2
  <2> QED
    BY <2>1, <2>3, Quiet
<1>2. CASE Ages(r)
  <2>1. /\ UNCHANGED <<index, req>> /\ entry[r] = "completed" /\ entry'[r] = "stale"
        /\ \A s \in Request \ {r} : entry'[s] = entry[s]
    BY <1>2 DEF Inv, TypeOK, Ages
  <2>2. req[r].pc # "new" /\ req[r].pc \notin Looking
    BY <2>1 DEF Inv, LocalInv, Unanswered, Looking
  <2>3. \A s \in Request : Jobs'[s] = Jobs[s]
    BY <2>1, <2>2 DEF Jobs, Phase, Looking
  <2> QED
    BY <2>1, <2>3, Quiet
<1> QED
  BY <1>1, <1>2

LEMMA NextRefines == Inv /\ [Next]_vars => [Checkout!Next]_Checkout!vars
<1> SUFFICES ASSUME Inv, [Next]_vars PROVE Checkout!Next \/ UNCHANGED Checkout!vars
    OBVIOUS
<1>1. ASSUME NEW r \in Request, NEW o \in Name, NEW header \in Name \cup {None},
             Accept(r, o, header)
      PROVE  Checkout!Next
  BY <1>1, AcceptAsks
<1>2. ASSUME NEW r \in Request,
             AcceptInvalid(r) \/ RequestStep(r) \/ DeadlinePasses(r) \/ Ages(r)
      PROVE  Checkout!Next \/ UNCHANGED Checkout!vars
  <2>1. CASE Enter(r) \/ Reenter(r)
    BY <2>1, RoundForgets, ExamineRefines DEF Enter, Reenter
  <2>2. CASE Store(r) \/ Finish(r)
    BY <2>2, StoreSucceeds, FinishFails
  <2>3. CASE AcceptInvalid(r)
    <3>1. index = Stored(Present)
      BY DEF Inv, TypeOK, Stored, Present
    <3> QED
      BY <2>3, <3>1, RoundForgets, LeavesRefused DEF AcceptInvalid
  <2>4. CASE \/ WaitEnds(r) \/ DeadlinePasses(r) \/ BeginAttempt(r) \/ AttemptReturns(r)
             \/ Ages(r)
    BY <2>4, OthersQuiet
  <2> QED
    BY <1>2, <2>1, <2>2, <2>3, <2>4 DEF RequestStep
<1>3. CASE ModeStep \/ UNCHANGED vars
  <2>1. UNCHANGED <<index, entry, req>>
    BY <1>3 DEF ModeStep, SetMode, SetModeFails, LeaseRunsOut, LeaseLooks, LeaseResets, Apply,
                vars
  <2>2. \A s \in Request : Jobs'[s] = Jobs[s]
    BY <2>1, JobSame DEF SameOrder
  <2> QED
    BY <2>1, <2>2, Quiet
<1> QED
  BY <1>1, <1>2, <1>3 DEF Next

(* For any number of requests, keys and mode changes and any capacity the   *)
(* store keeps the promise of IdempotentCheckout (checkout,                 *)
(* _prune_idempotency, _make_idempotency_room).                             *)
THEOREM CheckoutImplemented == Spec => ImplementsCheckout
<1>1. Init => Checkout!Init
  <2> SUFFICES ASSUME Init PROVE Checkout!Init
    OBVIOUS
  <2>1. \A r \in Request :
          Jobs[r] \in [phase: {"new"}, key: {None}, order: {None}, from: {None}]
    BY DEF Init, Jobs, Phase, Looking
  <2>2. Jobs = [r \in Request |-> Jobs[r]]
    BY DEF Jobs
  <2> QED
    BY <2>1, <2>2 DEF Init, Checkout!Init
<1> QED
  BY <1>1, NextRefines, Invariance, PTL DEF Spec, ImplementsCheckout, Checkout!Spec

-----------------------------------------------------------------------------
(* The metrics.  What a step does to the sums is what it does to one        *)
(* request.                                                                 *)
UnderWay == {r \in Request : req[r].pc \in Pc \ {"new", "done"}}
Over == {r \in Request : req[r].pc \in {"done"}}
Tried(n) == {r \in Request : req[r].attempt >= n}

LEMMA MetricsUnfold ==
  MetricsAddUp <=>
    /\ count["inflight"] = Cardinality(UnderWay) /\ count["answered"] = Cardinality(Over)
    /\ count["attempts"] - count["retries"] = Cardinality(Tried(1))
    /\ Cardinality(Tried(2)) <= count["retries"]
BY DEF MetricsAddUp, UnderWay, Over, Tried

LEMMA MetricsUnfoldNext ==
  MetricsAddUp' <=>
    /\ count'["inflight"] = Cardinality(UnderWay') /\ count'["answered"] = Cardinality(Over')
    /\ count'["attempts"] - count'["retries"] = Cardinality(Tried(1)')
    /\ Cardinality(Tried(2)') <= count'["retries"]
BY DEF MetricsAddUp, UnderWay, Over, Tried

LEMMA CountedSets ==
  /\ IsFiniteSet(UnderWay) /\ Cardinality(UnderWay) \in Nat
  /\ IsFiniteSet(Over) /\ Cardinality(Over) \in Nat
  /\ \A n \in Nat : IsFiniteSet(Tried(n)) /\ Cardinality(Tried(n)) \in Nat
<1>1. /\ UnderWay \in SUBSET Request /\ Over \in SUBSET Request
      /\ \A n \in Nat : Tried(n) \in SUBSET Request
  BY DEF UnderWay, Over, Tried
<1> QED
  BY <1>1, OrdersAssumption, FS_Subset, FS_CardinalityType

(* The counters that the sums are about.                                    *)
SameCount(cs) == \A c \in cs : count'[c] = count[c]
Summed == {"inflight", "answered", "attempts", "retries"}

SameStage(s) ==
  /\ req'[s].pc \in Pc \ {"new", "done"} <=> req[s].pc \in Pc \ {"new", "done"}
  /\ req'[s].pc = "done" <=> req[s].pc = "done"

LEMMA MetricsKept ==
  ASSUME Inv, MetricsAddUp, SameCount(Summed),
         \A s \in Request : SameStage(s) /\ req'[s].attempt = req[s].attempt
  PROVE  MetricsAddUp'
<1>1. UnderWay' = UnderWay /\ Over' = Over
  BY DEF UnderWay, Over, SameStage
<1>2. Tried(1)' = Tried(1) /\ Tried(2)' = Tried(2)
  BY DEF Tried
<1>3. \A c \in Summed : count'[c] = count[c]
  BY DEF SameCount
<1> QED
  BY <1>1, <1>2, <1>3, MetricsUnfold, MetricsUnfoldNext DEF Summed

LEMMA AcceptedCounts ==
  ASSUME Inv, MetricsAddUp, NEW r \in Request, req[r].pc = "new",
         req'[r].pc \in {"accepted", "finishing"}, req'[r].attempt = req[r].attempt,
         \A s \in Request \ {r} : req'[s] = req[s],
         Bump("inflight")
  PROVE  MetricsAddUp'
<1>1. UnderWay' = UnderWay \cup {r} /\ r \notin UnderWay /\ Over' = Over
  BY DEF UnderWay, Over, Pc
<1>2. Cardinality(UnderWay \cup {r}) = Cardinality(UnderWay) + 1
  BY <1>1, CountedSets, FS_AddElement
<1>3. Tried(1)' = Tried(1) /\ Tried(2)' = Tried(2)
  BY DEF Tried
<1>4. count'["inflight"] = count["inflight"] + 1 /\ SameCount(Summed \ {"inflight"})
  BY DEF Bump, Inv, TypeOK, Counter, SameCount, Summed
<1> QED
  BY <1>1, <1>2, <1>3, <1>4, MetricsUnfold, MetricsUnfoldNext DEF SameCount, Summed

LEMMA FinishedCounts ==
  ASSUME Inv, MetricsAddUp, NEW r \in Request, Finish(r)
  PROVE  MetricsAddUp'
<1> DEFINE ended == [req EXCEPT ![r].pc = "done"]
<1>1. /\ req \in [Request -> Local] /\ req[r] \in Local /\ ended \in [Request -> Local]
      /\ ended[r] = [req[r] EXCEPT !.pc = "done"]
      /\ \A s \in Request \ {r} : ended[s] = req[s]
  <2>1. req \in [Request -> Local] /\ "done" \in Pc
    BY DEF Inv, TypeOK, Pc
  <2>2. ended \in [Request -> Local]
    BY <2>1 DEF Local
  <2> QED
    BY <2>1, <2>2
<1>2. ended[r].pc = "done" /\ ended[r].attempt = req[r].attempt /\ req[r].pc = "finishing"
  BY <1>1 DEF Finish, Local
<1>3. req' = NotifyAll(ended) \/ req' = ended
  BY DEF Finish
<1> HIDE DEF ended
<1>4. /\ req'[r].pc = "done"
      /\ \A s \in Request : req'[s].attempt = req[s].attempt
      /\ \A s \in Request \ {r} : SameStage(s)
  <2>1. \A s \in Request : /\ ended[s].attempt = req[s].attempt
                           /\ NotifyAll(ended)[s].attempt = ended[s].attempt
    BY <1>1, <1>2 DEF NotifyAll, Local
  <2>2. \A s \in Request : req'[s].pc = ended[s].pc
                           \/ (ended[s].pc = "waiting" /\ req'[s].pc = "woken")
    BY <1>1, <1>3, Notified
  <2>3. \A s \in Request : req'[s].attempt = req[s].attempt
    BY <1>3, <2>1
  <2> QED
    <3>1. req'[r].pc = "done"
      BY <1>2, <2>2
    <3>2. ASSUME NEW s \in Request \ {r} PROVE SameStage(s)
      <4>1. req'[s].pc = req[s].pc \/ (req[s].pc = "waiting" /\ req'[s].pc = "woken")
        BY <1>1, <2>2
      <4> QED
        BY <4>1 DEF SameStage, Pc
    <3> QED
      BY <2>3, <3>1, <3>2
<1>5. UnderWay' = UnderWay \ {r} /\ r \in UnderWay /\ Over' = Over \cup {r} /\ r \notin Over
  BY <1>2, <1>4 DEF UnderWay, Over, Pc, SameStage
<1>6. /\ Cardinality(UnderWay \ {r}) = Cardinality(UnderWay) - 1
      /\ Cardinality(Over \cup {r}) = Cardinality(Over) + 1
  BY <1>5, CountedSets, FS_AddElement, FS_RemoveElement
<1>7. Tried(1)' = Tried(1) /\ Tried(2)' = Tried(2)
  BY <1>4 DEF Tried
<1>8. /\ count'["inflight"] = IF count["inflight"] > 0 THEN count["inflight"] - 1 ELSE 0
      /\ count'["answered"] = count["answered"] + 1
      /\ count'["attempts"] = count["attempts"] /\ count'["retries"] = count["retries"]
  BY DEF Finish, Inv, TypeOK, Counter
<1>9. Cardinality(UnderWay \ {r}) \in Nat
  BY CountedSets, FS_RemoveElement, FS_CardinalityType
<1> QED
  BY <1>5, <1>6, <1>7, <1>8, <1>9, CountedSets, MetricsUnfold, MetricsUnfoldNext

LEMMA AttemptCounts ==
  ASSUME Inv, MetricsAddUp, NEW r \in Request, BeginAttempt(r)
  PROVE  MetricsAddUp'
<1> DEFINE n == req[r].attempt
<1>1. /\ req \in [Request -> Local] /\ req[r] \in Local /\ n \in Nat
      /\ req' = [req EXCEPT ![r].pc = "calling", ![r].attempt = n + 1]
      /\ req[r].pc = "attempt"
  BY DEF Inv, TypeOK, Local, BeginAttempt
<1>2. /\ req'[r].pc = "calling" /\ req'[r].attempt = n + 1
      /\ \A s \in Request \ {r} : req'[s] = req[s]
  BY <1>1 DEF Local
<1>3. UnderWay' = UnderWay /\ Over' = Over
  BY <1>1, <1>2 DEF UnderWay, Over, Pc
<1>4. /\ count'["inflight"] = count["inflight"] /\ count'["answered"] = count["answered"]
      /\ count'["attempts"] = count["attempts"] + 1
      /\ count'["retries"] = IF n > 0 THEN count["retries"] + 1 ELSE count["retries"]
  BY DEF BeginAttempt, Inv, TypeOK, Counter
<1> HIDE DEF n
<1>5. Cardinality(Tried(1)') = IF n > 0 THEN Cardinality(Tried(1)) ELSE Cardinality(Tried(1)) + 1
  <2>1. CASE n > 0
    <3>1. Tried(1)' = Tried(1)
      BY <1>1, <1>2, <2>1 DEF Tried, n
    <3> QED
      BY <2>1, <3>1
  <2>2. CASE ~(n > 0)
    <3>1. Tried(1)' = Tried(1) \cup {r} /\ r \notin Tried(1)
      BY <1>1, <1>2, <2>2 DEF Tried, n
    <3>2. Cardinality(Tried(1) \cup {r}) = Cardinality(Tried(1)) + 1
      BY <3>1, CountedSets, FS_AddElement
    <3> QED
      BY <2>2, <3>1, <3>2
  <2> QED
    BY <2>1, <2>2
<1>6. Cardinality(Tried(2)') <= IF n > 0 THEN Cardinality(Tried(2)) + 1 ELSE Cardinality(Tried(2))
  <2>1. CASE n = 1
    <3>1. Tried(2)' = Tried(2) \cup {r} /\ r \notin Tried(2)
      BY <1>1, <1>2, <2>1 DEF Tried, n
    <3>2. Cardinality(Tried(2) \cup {r}) = Cardinality(Tried(2)) + 1
      BY <3>1, CountedSets, FS_AddElement
    <3> QED
      BY <2>1, <3>1, <3>2, CountedSets
  <2>2. CASE n # 1
    <3>1. Tried(2)' = Tried(2)
      BY <1>1, <1>2, <2>2 DEF Tried, n
    <3> QED
      BY <3>1, CountedSets
  <2> QED
    BY <2>1, <2>2
<1> QED
  <2>1. /\ Cardinality(Tried(1)) \in Nat /\ Cardinality(Tried(2)) \in Nat
        /\ Cardinality(Tried(2)') \in Nat
        /\ count["attempts"] \in Nat /\ count["retries"] \in Nat
    <3>1. Tried(2)' \in SUBSET Request
      BY DEF Tried
    <3> QED
      BY <3>1, CountedSets, OrdersAssumption, FS_Subset, FS_CardinalityType
         DEF Inv, TypeOK, Counter
  <2> QED
    BY <1>3, <1>4, <1>5, <1>6, <2>1, MetricsUnfold, MetricsUnfoldNext

LEMMA MetricsStep == Inv /\ MetricsAddUp /\ [Next]_vars => MetricsAddUp'
<1> SUFFICES ASSUME Inv, MetricsAddUp, [Next]_vars PROVE MetricsAddUp'
  OBVIOUS
<1>0. req \in [Request -> Local] /\ count \in [Counter -> Nat]
  BY DEF Inv, TypeOK
<1>1. ASSUME NEW r \in Request, NEW o \in Name, NEW header \in Name \cup {None},
             Accept(r, o, header)
      PROVE  MetricsAddUp'
  <2>1. req[r].pc = "new" /\ Bump("inflight")
        /\ req' = [req EXCEPT ![r] = [@ EXCEPT !.pc = "accepted", !.order = o,
                                         !.key = KeyOf(o, header), !.limit = setting.limit]]
    BY <1>1 DEF Accept
  <2>2. req'[r].pc = "accepted" /\ req'[r].attempt = req[r].attempt
    BY <1>0, <2>1 DEF Local
  <2>3. \A s \in Request \ {r} : req'[s] = req[s]
    BY <1>0, <2>1
  <2> QED
    BY <2>1, <2>2, <2>3, AcceptedCounts
<1>2. ASSUME NEW r \in Request, AcceptInvalid(r) PROVE MetricsAddUp'
  BY <1>0, <1>2, AcceptedCounts DEF AcceptInvalid, Finishing, Local
<1>3. ASSUME NEW r \in Request, NEW keys, Examine(r, keys), req[r].pc \in {"accepted", "woken"}
      PROVE  MetricsAddUp'
  <2>1. SameCount(Summed)
    BY <1>0, <1>3 DEF Examine, Take, RefuseBusy, Conflict, Replay, RefuseInProgress, Wait, Bump,
                      SameCount, Summed, Counter
  <2>2. \A s \in Request \ {r} : req'[s] = req[s]
    BY <1>0, <1>3 DEF Examine, Take, RefuseBusy, Conflict, Replay, RefuseInProgress, Wait, Go,
                      Finishing
  <2>3. req'[r].pc \in {"attempt", "finishing", "waiting"} /\ req'[r].attempt = req[r].attempt
    <3>1. CASE Take(r, keys) \/ Wait(r, keys)
      <4>1. Go(r, "attempt") \/ Go(r, "waiting")
        BY <3>1 DEF Take, Wait
      <4> QED
        BY <1>0, <4>1 DEF Go, Local
    <3>2. CASE RefuseBusy(r, keys) \/ Conflict(r, keys) \/ RefuseInProgress(r, keys)
      <4>1. \E a \in Answer : Finishing(r, a)
        BY <3>2 DEF RefuseBusy, Conflict, RefuseInProgress, Answer
      <4> QED
        BY <1>0, <4>1 DEF Finishing, Local
    <3>3. CASE Replay(r, keys)
      BY <1>0, <3>3 DEF Replay, Local
    <3> QED
      BY <1>3, <3>1, <3>2, <3>3 DEF Examine
  <2> QED
    BY <1>3, <2>1, <2>2, <2>3, MetricsKept DEF SameStage, Pc
<1>4. ASSUME NEW r \in Request, WaitEnds(r) \/ DeadlinePasses(r) \/ AttemptReturns(r) \/ Ages(r)
      PROVE  MetricsAddUp'
  <2>1. SameCount(Summed)
    BY <1>4 DEF WaitEnds, DeadlinePasses, AttemptReturns, Ages, SameCount
  <2>2. \A s \in Request : SameStage(s) /\ req'[s].attempt = req[s].attempt
    <3>1. CASE WaitEnds(r)
      BY <1>0, <3>1 DEF WaitEnds, Go, SameStage, Local, Pc
    <3>2. CASE DeadlinePasses(r)
      BY <1>0, <3>2 DEF DeadlinePasses, SameStage, Local
    <3>3. CASE AttemptReturns(r)
      <4>1. \/ \E pc \in {"storing", "attempt"} : Go(r, pc)
            \/ \E a \in {"unavailable", "rejected", "raised"} : Finishing(r, a)
        BY <3>3 DEF AttemptReturns, Reserved, Retryable, NotRetryable
      <4> QED
        BY <1>0, <3>3, <4>1 DEF AttemptReturns, Go, Finishing, SameStage, Local, Pc
    <3>4. CASE Ages(r)
      BY <3>4 DEF Ages, SameStage
    <3> QED
      BY <1>4, <3>1, <3>2, <3>3, <3>4
  <2> QED
    BY <2>1, <2>2, MetricsKept
<1>5. ASSUME NEW r \in Request, Store(r) PROVE MetricsAddUp'
  <2> DEFINE f == [req EXCEPT ![r].pc = "finishing", ![r].answer = "completed"]
  <2>1. req[r].pc = "storing" /\ req' = NotifyAll(f) /\ SameCount(Summed)
    BY <1>5 DEF Store, SameCount
  <2>2. f \in [Request -> Local]
    <3>1. "finishing" \in Pc /\ "completed" \in Answer
      BY DEF Pc, Answer
    <3> QED
      BY <1>0, <3>1, ZenonT(30) DEF Local
  <2>3. f[r].pc = "finishing" /\ \A s \in Request : f[s].attempt = req[s].attempt
    BY <1>0 DEF Local
  <2>4. \A s \in Request \ {r} : f[s] = req[s]
    BY <1>0
  <2> HIDE DEF f
  <2>5. \A s \in Request : NotifyAll(f)[s].attempt = f[s].attempt
    BY <2>2 DEF NotifyAll, Local
  <2>6. \A s \in Request : SameStage(s)
    BY <2>1, <2>2, <2>3, <2>4, Notified DEF SameStage, Pc
  <2> QED
    BY <2>1, <2>3, <2>5, <2>6, MetricsKept
<1>6. CASE ModeStep \/ UNCHANGED vars
  <2>1. UNCHANGED <<req, count>>
    BY <1>6 DEF ModeStep, SetMode, SetModeFails, Apply, LeaseRunsOut, LeaseLooks, LeaseResets,
                vars
  <2> QED
    BY <2>1, MetricsKept DEF SameStage, SameCount
<1> QED
  BY <1>1, <1>2, <1>3, <1>4, <1>5, <1>6, FinishedCounts, AttemptCounts
     DEF Next, RequestStep, Enter, Reenter

(* The metrics agree with what the requests did: those under way and those  *)
(* answered, and one attempt that is no retry for each that called          *)
(* Inventory (checkout and its finally block).                              *)
THEOREM MetricsAgree == Spec => []MetricsAddUp
<1>1. Init => MetricsAddUp
  <2> SUFFICES ASSUME Init PROVE MetricsAddUp
    OBVIOUS
  <2>1. UnderWay = {} /\ Over = {} /\ Tried(1) = {} /\ Tried(2) = {}
    BY DEF Init, UnderWay, Over, Tried
  <2>2. \A c \in Summed : count[c] = 0
    BY DEF Init, Counter, Summed
  <2> QED
    BY <2>1, <2>2, FS_EmptySet, MetricsUnfold DEF Summed
<1> QED
  BY <1>1, MetricsStep, Invariance, PTL DEF Spec
-----------------------------------------------------------------------------
(* The capacity.  Keys of the store belong to different requests.           *)
AtWork == {s \in Request : entry[s] = "in_progress"}

LEMMA KeysAreRequests ==
  ASSUME Inv, NEW keys \in SUBSET Present, NEW S \in SUBSET Request,
         \A k \in keys : index[k] \in S
  PROVE  /\ IsFiniteSet(keys) /\ Cardinality(keys) \in Nat
         /\ IsFiniteSet(S) /\ Cardinality(S) \in Nat
         /\ Cardinality(keys) <= Cardinality(S)
<1> DEFINE f == [k \in keys |-> index[k]]
<1>1. f \in [keys -> S]
  OBVIOUS
<1>2. ASSUME NEW j \in keys, NEW k \in keys, f[j] = f[k] PROVE j = k
  BY <1>2 DEF Inv, Indexed, Present
<1>3. f \in Injection(keys, S)
  BY <1>1, <1>2 DEF Injection, IsInjective
<1>4. IsFiniteSet(S)
  BY FS_Subset, OrdersAssumption
<1> HIDE DEF f
<1> QED
  BY <1>3, <1>4, FS_Injection, FS_CardinalityType

LEMMA PresentFinite ==
  ASSUME Inv
  PROVE  IsFiniteSet(Present) /\ Cardinality(Present) \in Nat
<1>1. Present \in SUBSET Present /\ Request \in SUBSET Request
      /\ \A k \in Present : index[k] \in Request
  BY DEF Present, Inv, TypeOK
<1> QED
  BY <1>1, KeysAreRequests

Fits == Cardinality(Present) <= Capacity

LEMMA FewerFit ==
  ASSUME Inv, Fits, Present' \subseteq Present
  PROVE  Fits'
<1>1. Present' \in SUBSET Present /\ Capacity \in Nat
  BY OrdersAssumption
<1> QED
  BY <1>1, PresentFinite, FS_Subset, FS_CardinalityType DEF Fits

(* One round under the lock: what stays, and room for one more.             *)
LEMMA ExamineFits ==
  ASSUME Inv, Fits, NEW r \in Request, NEW keys \in SUBSET Present, Examine(r, keys),
         req[r].pc \in {"accepted", "woken"}
  PROVE  Fits'
<1>1. req[r].key \in RawKey /\ index \in [RawKey -> Request \cup {None}]
      /\ None \notin Request
  BY OrdersAssumption DEF Inv, TypeOK, LocalInv, Unanswered, Keyed
<1>2. CASE Take(r, keys)
  <2>1. PICK out \in SUBSET keys : HasRoom(keys \ out) /\ Append(req[r].key, r, keys \ out)
    BY <1>2 DEF Take
  <2>2. Present' \subseteq (keys \ out) \cup {req[r].key}
    BY <1>1, <2>1 DEF Append, Stored, Present
  <2>3. IsFiniteSet(keys \ out) /\ Cardinality(keys \ out) \in Nat
    <3>1. (keys \ out) \in SUBSET Present
      OBVIOUS
    <3> QED
      BY <3>1, PresentFinite, FS_Subset, FS_CardinalityType
  <2>4. /\ IsFiniteSet((keys \ out) \cup {req[r].key})
        /\ Cardinality((keys \ out) \cup {req[r].key}) <= Cardinality(keys \ out) + 1
    <3> DEFINE K == keys \ out
    <3>1. IsFiniteSet(K) /\ Cardinality(K) \in Nat
      BY <2>3
    <3> HIDE DEF K
    <3>2. /\ IsFiniteSet(K \cup {req[r].key})
          /\ Cardinality(K \cup {req[r].key}) \in {Cardinality(K), Cardinality(K) + 1}
      BY <3>1, FS_AddElement
    <3>3. Cardinality(K \cup {req[r].key}) <= Cardinality(K) + 1
      BY <3>1, <3>2
    <3> QED
      BY <3>2, <3>3 DEF K
  <2>5. Cardinality(Present') <= Cardinality((keys \ out) \cup {req[r].key})
    BY <2>2, <2>4, FS_Subset
  <2>6. /\ Cardinality((keys \ out) \cup {req[r].key}) \in Nat
        /\ Cardinality(Present') \in Nat
    BY <2>2, <2>4, FS_Subset, FS_CardinalityType
  <2> QED
    BY <2>1, <2>3, <2>4, <2>5, <2>6, OrdersAssumption DEF HasRoom, Fits
<1>3. CASE ~Take(r, keys)
  <2>1. PICK kept \in SUBSET keys : Keep(kept) \/ MoveToEnd(req[r].key, kept)
    BY <1>3 DEF Examine, RefuseBusy, Conflict, Replay, RefuseInProgress, Wait
  <2>2. Present' \subseteq Present
    BY <1>1, <2>1 DEF Keep, MoveToEnd, Stored, Present
  <2> QED
    BY <2>2, FewerFit
<1> QED
  BY <1>2, <1>3

(* A request is refused for capacity when nothing completed is left.        *)
LEMMA BusyIsFull ==
  ASSUME Inv, NEW r \in Request, NEW keys \in SUBSET Present, RefuseBusy(r, keys)
  PROVE  Cardinality(AtWork) >= Capacity
<1>1. PICK out \in SUBSET keys : Evicted(keys, out) /\ ~HasRoom(keys \ out)
  BY DEF RefuseBusy
<1>2. out = Completed(keys)
  BY <1>1 DEF Evicted
<1>3. (keys \ out) \in SUBSET Present /\ AtWork \in SUBSET Request
      /\ \A k \in keys \ out : index[k] \in AtWork
  BY <1>2 DEF Completed, AtWork, Present, Inv, TypeOK, Indexed
<1>4. /\ Cardinality(keys \ out) \in Nat /\ Cardinality(AtWork) \in Nat
      /\ Cardinality(keys \ out) <= Cardinality(AtWork)
  BY <1>3, KeysAreRequests
<1> QED
  BY <1>1, <1>4, OrdersAssumption DEF HasRoom

LEMMA FitsStep == Inv /\ Fits /\ [Next]_vars => Fits'
<1> SUFFICES ASSUME Inv, Fits, [Next]_vars PROVE Fits'
  OBVIOUS
<1>1. ASSUME NEW r \in Request, Enter(r) \/ Reenter(r) PROVE Fits'
  <2>1. Unexpired \in SUBSET Present /\ Present \in SUBSET Present
    BY DEF Unexpired
  <2> QED
    BY <1>1, <2>1, ExamineFits DEF Enter, Reenter
<1>2. ASSUME NEW r \in Request, Finish(r) PROVE Fits'
  <2>1. Present' \subseteq Present
    BY <1>2, OrdersAssumption DEF Finish, Keep, Stored, Present, Inv, TypeOK
  <2> QED
    BY <2>1, FewerFit
<1>3. CASE UNCHANGED index
  BY <1>3, FewerFit DEF Present
<1> QED
  BY <1>1, <1>2, <1>3
     DEF Next, RequestStep, Accept, AcceptInvalid, WaitEnds, DeadlinePasses, BeginAttempt,
         AttemptReturns, Store, Ages, ModeStep, SetMode, SetModeFails, Apply, LeaseRunsOut,
         LeaseLooks, LeaseResets, vars

(* Only RefuseBusy answers that the store is full.                          *)
LEMMA NewlyBusy ==
  ASSUME Inv, Next, NEW r \in Request, req'[r].answer = "busy", req[r].answer # "busy"
  PROVE  \E keys \in SUBSET Present : RefuseBusy(r, keys)
<1>0. req \in [Request -> Local]
  BY DEF Inv, TypeOK
<1>1. ASSUME NEW s \in Request, NEW keys \in SUBSET Present, Examine(s, keys)
      PROVE  RefuseBusy(r, keys)
  <2>1. ASSUME ~RefuseBusy(s, keys) PROVE FALSE
    <3>1. CASE Take(s, keys) \/ Wait(s, keys)
      <4>1. Go(s, "attempt") \/ Go(s, "waiting")
        BY <3>1 DEF Take, Wait
      <4> QED
        BY <1>0, <4>1 DEF Go, Local
    <3>2. CASE Conflict(s, keys) \/ RefuseInProgress(s, keys)
      <4>1. Finishing(s, "conflict") \/ Finishing(s, "in_progress")
        BY <3>2 DEF Conflict, RefuseInProgress
      <4> QED
        BY <1>0, <4>1 DEF Finishing, Local
    <3>3. CASE Replay(s, keys)
      BY <1>0, <3>3 DEF Replay, Local
    <3> QED
      BY <1>1, <2>1, <3>1, <3>2, <3>3 DEF Examine
  <2>2. RefuseBusy(s, keys)
    BY <2>1
  <2>3. s = r
    BY <1>0, <2>2 DEF RefuseBusy, Finishing
  <2> QED
    BY <2>2, <2>3
<1>2. ASSUME NEW s \in Request, NEW o \in Name, NEW header \in Name \cup {None},
             Accept(s, o, header)
      PROVE  FALSE
  BY <1>0, <1>2 DEF Accept, Local
<1>3. ASSUME NEW s \in Request,
             AcceptInvalid(s) \/ WaitEnds(s) \/ DeadlinePasses(s) \/ BeginAttempt(s) \/ Ages(s)
      PROVE  FALSE
  BY <1>0, <1>3 DEF AcceptInvalid, Finishing, WaitEnds, Go, DeadlinePasses, BeginAttempt, Ages,
                    Local
<1>4. ASSUME NEW s \in Request, AttemptReturns(s) PROVE FALSE
  <2>1. \/ \E pc \in {"storing", "attempt"} : Go(s, pc)
        \/ \E a \in {"unavailable", "rejected", "raised"} : Finishing(s, a)
    BY <1>4 DEF AttemptReturns, Reserved, Retryable, NotRetryable
  <2> QED
    BY <1>0, <2>1 DEF Go, Finishing, Local
<1>5. ASSUME NEW s \in Request, Store(s) \/ Finish(s) PROVE FALSE
  <2> DEFINE f == [req EXCEPT ![s].pc = "finishing", ![s].answer = "completed"]
             g == [req EXCEPT ![s].pc = "done"]
  <2>1. f \in [Request -> Local] /\ g \in [Request -> Local]
    <3>1. {"finishing", "done"} \subseteq Pc /\ "completed" \in Answer
      BY DEF Pc, Answer
    <3> QED
      BY <1>0, <3>1, ZenonT(30) DEF Local
  <2>2. g[r].answer = req[r].answer /\ f[r].answer \in {"completed", req[r].answer}
    BY <1>0 DEF Local
  <2>3. req' = NotifyAll(f) \/ req' = NotifyAll(g) \/ req' = g
    BY <1>5 DEF Store, Finish
  <2> HIDE DEF f, g
  <2> QED
    BY <2>1, <2>2, <2>3, Notified
<1>6. CASE ModeStep
  BY <1>6 DEF ModeStep, SetMode, SetModeFails, Apply, LeaseRunsOut, LeaseLooks, LeaseResets
<1>7. Unexpired \in SUBSET Present /\ Present \in SUBSET Present
  BY DEF Unexpired
<1> QED
  BY <1>1, <1>2, <1>3, <1>4, <1>5, <1>6, <1>7 DEF Next, RequestStep, Enter, Reenter

(* The store keeps its capacity, and refuses a request only when that many  *)
(* others are at work (_make_idempotency_room).                             *)
THEOREM CapacityUsed == Spec => CapacityIsUsed
<1> DEFINE Used ==
      /\ Cardinality(Present') <= Capacity
      /\ \A r \in Request :
           (req'[r].answer = "busy" /\ req[r].answer # "busy")
             => Cardinality({s \in Request : entry[s] = "in_progress"}) >= Capacity
<1>1. Init => Fits
  BY FS_EmptySet, OrdersAssumption, SMTT(20) DEF Init, Fits, Present
<1>2. Inv /\ Fits /\ [Next]_vars => [Used]_vars
  <2> SUFFICES ASSUME Inv, Fits, Next PROVE Used
    OBVIOUS
  <2>1. Cardinality(Present') <= Capacity
    BY FitsStep DEF Fits
  <2>2. ASSUME NEW r \in Request, req'[r].answer = "busy", req[r].answer # "busy"
        PROVE  Cardinality({s \in Request : entry[s] = "in_progress"}) >= Capacity
    BY <2>2, NewlyBusy, BusyIsFull DEF AtWork
  <2> QED
    BY <2>1, <2>2
<1> QED
  BY <1>1, <1>2, FitsStep, Invariance, PTL DEF Spec, CapacityIsUsed
=============================================================================
