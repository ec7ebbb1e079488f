------------------------- MODULE WorkerProcessProofs -------------------------
(***************************************************************************)
(* The safety of the worker, for every batch size, page bound and number    *)
(* of calls, jobs, failures and restarts.  First its operating modes: Inv   *)
(* is inductive; that threads and modes agree rests on a closing migration  *)
(* having no backlog, the bound on the pages on a retaining thread still    *)
(* having room, and that the episodes suffice on a count of the mode        *)
(* changes still owed.  Then its process: what holds of the modes holds     *)
(* beside the import queue, and a row of the queue is imported once.        *)
(***************************************************************************)
EXTENDS WorkerProcess, FiniteSetTheorems, TLAPS

(* A migration thread closes only when its batch is done.                   *)
ClosingIsDone ==
  \A e \in Episode :
    thread[e].pc = "closing" => thread[e].kind = "cpu-saturation" /\ backlog = 0

(* A thread that is about to retain a page has room for it.                 *)
RetainingHasRoom ==
  \A e \in Episode :
    thread[e].pc = "retaining" => thread[e].kind = "memory-leak" /\ pages < MaxPages

(* Mode changes that may still follow without another call of an operator.  *)
Owed == (IF call.by = "operator" THEN 2 ELSE 0)
        + (IF lease # "none" \/ heartbeat \in {"expired", "calling"} THEN 1 ELSE 0)

Counted ==
  /\ call # NoCall => call.by # "nobody"
  /\ call.by = "heartbeat" => heartbeat = "calling" /\ call.mode = "normal"
  /\ current + Owed <= 2 * calls

Inv ==
  /\ TypeOK /\ OneThreadPerMode /\ FaultIsConfined
  /\ ClosingIsDone /\ RetainingHasRoom /\ Counted

LEMMA InitHolds == Init => Inv
<1> SUFFICES ASSUME Init PROVE Inv
  OBVIOUS
<1> USE WorkerAssumption
<1>1. TypeOK
  BY DEF Init, TypeOK, Mode, Episode, Thread, FirstThread, Loop, NoThread, Call, NoCall
<1>2. OneThreadPerMode /\ ClosingIsDone /\ RetainingHasRoom
  BY DEF Init, OneThreadPerMode, ClosingIsDone, RetainingHasRoom, Alive, Episode, FirstThread,
         Loop, NoThread
<1>3. FaultIsConfined /\ Counted
  BY DEF Init, FaultIsConfined, Counted, Owed, NoCall
<1>4. QED
  BY <1>1, <1>2, <1>3 DEF Inv

-----------------------------------------------------------------------------
(* Actions of set_mode and of the heartbeat.                                *)
LEMMA CallKeeps ==
  ASSUME Inv, (\E m \in Mode : OperatorCalls(m)) \/ HeartbeatCalls
  PROVE Inv'
<1> USE WorkerAssumption DEF Inv
<1> PICK who \in {"operator", "heartbeat"}, m \in Mode : Stop(who, m)
  BY DEF OperatorCalls, HeartbeatCalls, Mode
<1>1. TypeOK'
  BY DEF OperatorCalls, HeartbeatCalls, Stop, data, TypeOK, Call, NoCall, Mode
<1>2. OneThreadPerMode' /\ FaultIsConfined' /\ ClosingIsDone' /\ RetainingHasRoom'
  BY DEF Stop, data, OneThreadPerMode, Alive, FaultIsConfined, ClosingIsDone,
         RetainingHasRoom
<1>3. Counted'
  <2> USE DEF Stop, data, TypeOK, Episode, Counted, Owed, NoCall
  <2>1. CASE HeartbeatCalls
    BY <2>1 DEF HeartbeatCalls
  <2>2. ASSUME NEW n \in Mode, OperatorCalls(n) PROVE Counted'
    <3>1. call'.by = "operator" /\ call' # NoCall /\ calls' = calls + 1
      BY <2>2 DEF OperatorCalls
    <3>2. Owed <= 1 /\ Owed' = Owed + 2 /\ Owed \in Nat
      BY <2>2, <3>1 DEF OperatorCalls
    <3>3. current' + Owed' <= 2 * calls'
      BY <2>2, <3>1, <3>2 DEF OperatorCalls
    <3>4. QED
      BY <3>1, <3>3
  <2>3. QED
    BY <2>1, <2>2
<1>4. QED
  BY <1>1, <1>2, <1>3

LEMMA ReplaceKeeps == ASSUME Inv, Replace PROVE Inv'
<1> USE WorkerAssumption DEF Inv
<1>1. call.by \in {"operator", "heartbeat"} /\ call.mode \in Mode
  BY DEF Replace, Joined, Counted, TypeOK, Call
<1>2. Counted'
  BY <1>1 DEF Replace, Joined, Reset, Counted, Owed, TypeOK, Episode, NoCall, Mode
<1>3. current + 1 \in Episode /\ current' = current + 1
  BY <1>2 DEF Replace, Counted, Owed, TypeOK, Episode
<1>4. TypeOK'
  BY <1>1, <1>3 DEF Replace, Reset, TypeOK, Thread, Loop, Call, NoCall, Mode
<1>5. ~Alive(current) /\ \A e \in Episode : ~Alive(e)
  BY DEF Replace, Joined, OneThreadPerMode
<1>6. thread' = [thread EXCEPT ![current + 1] = Loop(call.mode)] /\ mode' = call.mode
  BY DEF Replace, Reset
<1>7. OneThreadPerMode' /\ ClosingIsDone' /\ RetainingHasRoom'
  BY <1>3, <1>5, <1>6 DEF OneThreadPerMode, ClosingIsDone, RetainingHasRoom, Alive, TypeOK, Loop
<1>8. FaultIsConfined'
  BY <1>1 DEF Replace, Reset, FaultIsConfined, TypeOK, Mode
<1>9. QED
  BY <1>2, <1>4, <1>7, <1>8

LEMMA RefuseKeeps == ASSUME Inv, Refuse PROVE Inv'
<1> USE WorkerAssumption DEF Inv
<1>1. TypeOK'
  BY DEF Refuse, data, TypeOK, Call, NoCall, Mode
<1>2. OneThreadPerMode' /\ FaultIsConfined' /\ ClosingIsDone' /\ RetainingHasRoom'
  BY DEF Refuse, data, OneThreadPerMode, Alive, FaultIsConfined, ClosingIsDone,
         RetainingHasRoom
<1>3. Counted'
  BY DEF Refuse, data, TypeOK, Episode, Counted, Owed, NoCall, Call
<1>4. QED
  BY <1>1, <1>2, <1>3

LEMMA LeaseKeeps == ASSUME Inv, LeaseRunsOut \/ HeartbeatLooks PROVE Inv'
<1> USE WorkerAssumption DEF Inv
<1>1. TypeOK'
  BY DEF LeaseRunsOut, HeartbeatLooks, data, TypeOK
<1>2. OneThreadPerMode' /\ FaultIsConfined' /\ ClosingIsDone' /\ RetainingHasRoom'
  BY DEF LeaseRunsOut, HeartbeatLooks, data, OneThreadPerMode, Alive, FaultIsConfined,
         ClosingIsDone, RetainingHasRoom
<1>3. Counted'
  BY DEF LeaseRunsOut, HeartbeatLooks, data, TypeOK, Episode, Counted, Owed
<1>4. QED
  BY <1>1, <1>2, <1>3

-----------------------------------------------------------------------------
(* Actions of the mode threads: only the current one acts.                  *)
LEMMA ThreadKeeps == ASSUME Inv, NEW e \in Episode, ThreadStep(e) PROVE Inv'
<1> USE WorkerAssumption DEF Inv
<1>1. e = current /\ thread[e].kind = mode /\ thread[e] \in Thread
  BY DEF ThreadStep, Look, Export, CheckBuffer, Retain, Migrate, Complete, OneThreadPerMode,
         Alive, TypeOK
<1>2. UNCHANGED <<current, stopped, call, heartbeat, calls>>
  BY DEF ThreadStep, Look, Export, CheckBuffer, Retain, Migrate, Complete
<1>3. \A d \in Episode : d # e => thread'[d] = thread[d]
  BY DEF ThreadStep, Look, Export, CheckBuffer, Retain, Migrate, Complete, Moves, TypeOK
<1>4. \A d \in Episode : d # e => ~Alive(d)
  BY <1>1 DEF OneThreadPerMode
<1>5. CASE Look(e)
  <2>1. thread'[e] = [thread[e] EXCEPT !.pc = thread'[e].pc] /\ thread'[e] \in Thread
    BY <1>1, <1>5 DEF Look, Moves, TypeOK, Thread
  <2>2. TypeOK'
    BY <1>2, <1>5, <2>1 DEF Look, Moves, data, TypeOK, Thread
  <2>3. OneThreadPerMode'
    BY <1>1, <1>2, <1>3, <1>4, <1>5, <2>1 DEF Look, data, OneThreadPerMode, Alive, Thread
  <2>4. ClosingIsDone' /\ RetainingHasRoom'
    BY <1>1, <1>3, <1>5, <2>1
       DEF Look, Moves, data, ClosingIsDone, RetainingHasRoom, TypeOK, Thread
  <2>5. FaultIsConfined' /\ Counted'
    BY <1>2, <1>5 DEF Look, data, FaultIsConfined, Counted, Owed
  <2>6. QED
    BY <2>2, <2>3, <2>4, <2>5
<1>6. CASE Export(e) \/ CheckBuffer(e) \/ Retain(e) \/ Migrate(e)
  <2>1. thread'[e] = [thread[e] EXCEPT !.pc = thread'[e].pc]
        /\ thread'[e].pc \in {"look", "retaining", "dead"}
    BY <1>1, <1>6 DEF Export, CheckBuffer, Retain, Migrate, Moves, TypeOK, Thread
  <2>2. UNCHANGED <<mode, lease>>
    BY <1>6 DEF Export, CheckBuffer, Retain, Migrate, data
  <2>3. thread' \in [Episode -> Thread]
    BY <1>1, <1>6 DEF Export, CheckBuffer, Retain, Migrate, Moves, TypeOK, Thread
  <2>4. backlog' \in 0 .. Batch /\ pages' \in 0 .. MaxPages
    BY <1>6 DEF Export, CheckBuffer, Retain, Migrate, data, TypeOK, RetainingHasRoom
  <2>5. TypeOK'
    BY <1>2, <2>2, <2>3, <2>4 DEF TypeOK
  <2>6. OneThreadPerMode'
    BY <1>1, <1>2, <1>3, <1>4, <2>1, <2>2 DEF OneThreadPerMode, Alive, Thread
  <2>7. ClosingIsDone' /\ RetainingHasRoom'
    <3>1. thread'[e].pc = "retaining" => thread[e].kind = "memory-leak" /\ pages' < MaxPages
      BY <1>1, <1>6 DEF Export, CheckBuffer, Retain, Migrate, Moves, data, TypeOK, Thread
    <3> QED
      BY <1>1, <1>3, <1>4, <2>1, <3>1 DEF ClosingIsDone, RetainingHasRoom, Alive, Thread
  <2>8. FaultIsConfined'
    BY <1>1, <1>6, <2>2
       DEF Export, CheckBuffer, Retain, Migrate, data, FaultIsConfined, TypeOK, RetainingHasRoom
  <2>9. Counted'
    BY <1>2, <2>2 DEF Counted, Owed
  <2>10. QED
    BY <2>5, <2>6, <2>7, <2>8, <2>9
<1>7. CASE Complete(e)
  <2>1. thread'[e] = Loop("normal") /\ thread' \in [Episode -> Thread]
    BY <1>7 DEF Complete, Loop, TypeOK, Thread, Mode
  <2>2. mode' = "normal" /\ lease' = "none" /\ backlog' = backlog /\ pages' = pages
    BY <1>7 DEF Complete
  <2>3. mode = "cpu-saturation" /\ backlog = 0
    BY <1>1, <1>7 DEF Complete, ClosingIsDone
  <2>4. TypeOK'
    BY <1>2, <2>1, <2>2 DEF TypeOK, Mode
  <2>5. OneThreadPerMode' /\ ClosingIsDone' /\ RetainingHasRoom'
    BY <1>1, <1>2, <1>3, <1>4, <2>1, <2>2
       DEF OneThreadPerMode, ClosingIsDone, RetainingHasRoom, Alive, Loop
  <2>6. FaultIsConfined'
    BY <2>2, <2>3 DEF FaultIsConfined, TypeOK
  <2>7. Counted'
    BY <1>2, <2>2 DEF Counted, Owed, TypeOK, Episode
  <2>8. QED
    BY <2>4, <2>5, <2>6, <2>7
<1>8. QED
  BY <1>5, <1>6, <1>7 DEF ThreadStep

LEMMA RestartKeeps == ASSUME Inv, Restart PROVE Inv'
<1> USE WorkerAssumption DEF Inv
<1>1. TypeOK'
  BY DEF Restart, TypeOK, Mode, Episode, Thread, FirstThread, Loop, NoThread, Call, NoCall
<1>2. OneThreadPerMode' /\ ClosingIsDone' /\ RetainingHasRoom'
  BY DEF Restart, OneThreadPerMode, ClosingIsDone, RetainingHasRoom, Alive, Episode,
         FirstThread, Loop, NoThread
<1>3. FaultIsConfined' /\ Counted'
  BY DEF Restart, FaultIsConfined, Counted, Owed, NoCall, TypeOK
<1>4. QED
  BY <1>1, <1>2, <1>3

LEMMA StepKeeps == Inv /\ [Next]_vars => Inv'
<1> SUFFICES ASSUME Inv, [Next]_vars PROVE Inv'
  OBVIOUS
<1>1. CASE UNCHANGED vars
  BY <1>1 DEF vars, Inv, TypeOK, OneThreadPerMode, Alive, FaultIsConfined, ClosingIsDone,
              RetainingHasRoom, Counted, Owed
<1>2. CASE Next
  BY <1>2, CallKeeps, ReplaceKeeps, RefuseKeeps, LeaseKeeps, ThreadKeeps, RestartKeeps
     DEF Next, ModeStep
<1>3. QED
  BY <1>1, <1>2

-----------------------------------------------------------------------------
THEOREM Invariance == Spec => []Inv
BY InitHolds, StepKeeps, PTL DEF Spec

(* The type invariant: in particular the backlog and the retained pages     *)
(* stay within their limits, and the bounded episodes are enough.           *)
THEOREM TypeCorrect == Spec => []TypeOK
BY Invariance, PTL DEF Inv

(* No two mode threads live at once and the one that does works for the     *)
(* mode that status reports, although joins fail and leases run out.        *)
THEOREM OneThread == Spec => []OneThreadPerMode
BY Invariance, PTL DEF Inv

(* The memory and the backlog of a fault mode, and its lease, go with it.   *)
THEOREM FaultConfined == Spec => []FaultIsConfined
BY Invariance, PTL DEF Inv

-----------------------------------------------------------------------------
(* The import queue.                                                        *)

(* A delivery's row is in the queue: nobody else deletes a locked row, and  *)
(* the worker lets go of it with the commit.                                *)
QueueInv ==
  /\ QueueTypeOK
  /\ ImportedOnce
  /\ delivery # NoJob => delivery \in Queued
  /\ IsFiniteSet(imported)

-----------------------------------------------------------------------------
(* RemoveAt leaves out one element and keeps the order of the others.       *)
LEMMA RemovedAt ==
  ASSUME NEW S, NEW s \in Seq(S), NEW i \in 1 .. Len(s)
  PROVE  /\ RemoveAt(s, i) \in Seq(S)
         /\ Len(RemoveAt(s, i)) = Len(s) - 1
         /\ \A k \in 1 .. Len(s) - 1 :
              RemoveAt(s, i)[k] = s[IF k < i THEN k ELSE k + 1]
<1> DEFINE before == SubSeq(s, 1, i - 1)
           after == SubSeq(s, i + 1, Len(s))
<1>1. /\ before \in Seq(S) /\ Len(before) = i - 1
      /\ \A k \in 1 .. i - 1 : before[k] = s[k]
  OBVIOUS
<1>2. /\ after \in Seq(S) /\ Len(after) = Len(s) - i
      /\ \A k \in 1 .. Len(s) - i : after[k] = s[i + k]
  OBVIOUS
<1>3. RemoveAt(s, i) = before \o after
  BY DEF RemoveAt
<1> HIDE DEF before, after
<1>4. RemoveAt(s, i) \in Seq(S) /\ Len(RemoveAt(s, i)) = Len(s) - 1
  BY <1>1, <1>2, <1>3
<1>5. ASSUME NEW k \in 1 .. Len(s) - 1
      PROVE  RemoveAt(s, i)[k] = s[IF k < i THEN k ELSE k + 1]
  <2>1. CASE k < i
    BY <1>1, <1>2, <1>3, <2>1
  <2>2. CASE k >= i
    <3>1. RemoveAt(s, i)[k] = after[k - (i - 1)] /\ k - (i - 1) \in 1 .. Len(s) - i
      BY <1>1, <1>2, <1>3, <2>2
    <3>2. after[k - (i - 1)] = s[i + (k - (i - 1))]
      BY <1>2, <3>1
    <3>3. i + (k - (i - 1)) = k + 1
      OBVIOUS
    <3> QED BY <2>2, <3>1, <3>2, <3>3
  <2> QED BY <2>1, <2>2
<1> QED BY <1>4, <1>5

(* The row of j and no other goes.                                          *)
LEMMA RowDeleted ==
  ASSUME QueueInv, NEW j \in Job, Deletes(j)
  PROVE  /\ queue' \in Seq(Job)
         /\ \A m, n \in DOMAIN queue' : queue'[m] = queue'[n] => m = n
         /\ Queued' = Queued \ {j}
<1>0. queue \in Seq(Job) /\ \A m, n \in 1 .. Len(queue) : queue[m] = queue[n] => m = n
  BY DEF QueueInv, QueueTypeOK, ImportedOnce
<1>1. PICK i \in 1 .. Len(queue) : queue[i] = j /\ queue' = RemoveAt(queue, i)
  BY <1>0 DEF Deletes
<1>2. /\ queue' \in Seq(Job) /\ Len(queue') = Len(queue) - 1
      /\ \A k \in 1 .. Len(queue) - 1 : queue'[k] = queue[IF k < i THEN k ELSE k + 1]
  <2>1. /\ RemoveAt(queue, i) \in Seq(Job)
        /\ Len(RemoveAt(queue, i)) = Len(queue) - 1
        /\ \A k \in 1 .. Len(queue) - 1 :
             RemoveAt(queue, i)[k] = queue[IF k < i THEN k ELSE k + 1]
    BY <1>0, RemovedAt
  <2> QED BY <1>1, <2>1
<1>3. \A k \in 1 .. Len(queue) - 1 :
        (k < i => queue'[k] = queue[k]) /\ (k >= i => queue'[k] = queue[k + 1])
  BY <1>2
<1>4. \A m, n \in DOMAIN queue' : queue'[m] = queue'[n] => m = n
  <2>1. DOMAIN queue' = 1 .. Len(queue) - 1
    BY <1>2
  <2> SUFFICES ASSUME NEW m \in 1 .. Len(queue) - 1, NEW n \in 1 .. Len(queue) - 1,
                      queue'[m] = queue'[n]
               PROVE  m = n
    BY <2>1
  <2>2. PICK a \in {m, m + 1} : queue'[m] = queue[a] /\ (a = m <=> m < i)
    BY <1>3
  <2>3. PICK b \in {n, n + 1} : queue'[n] = queue[b] /\ (b = n <=> n < i)
    BY <1>3
  <2>4. a = b
    <3>1. a \in 1 .. Len(queue) /\ b \in 1 .. Len(queue)
      BY <1>0
    <3> QED BY <1>0, <2>2, <2>3, <3>1
  <2> QED BY <2>2, <2>3, <2>4
<1>5. ASSUME NEW x \in Queued' PROVE x \in Queued \ {j}
  <2>1. PICK k \in 1 .. Len(queue) - 1 : queue'[k] = x
    BY <1>2 DEF Queued, ToSet
  <2>2. PICK a \in 1 .. Len(queue) : queue[a] = x /\ a # i
    <3>1. k \in 1 .. Len(queue) /\ k + 1 \in 1 .. Len(queue)
      BY <1>0, <2>1
    <3>2. CASE k < i
      BY <1>3, <2>1, <3>1, <3>2
    <3>3. CASE k >= i
      <4>1. queue[k + 1] = x /\ k + 1 # i
        BY <1>3, <2>1, <3>3
      <4> QED BY <3>1, <4>1
    <3> QED BY <3>2, <3>3
  <2> QED BY <1>0, <1>1, <2>2 DEF Queued, ToSet
<1>6. ASSUME NEW x \in Queued, x # j PROVE x \in Queued'
  <2>1. PICK k \in 1 .. Len(queue) : queue[k] = x
    BY <1>0, <1>6 DEF Queued, ToSet
  <2>2. PICK a \in 1 .. Len(queue) - 1 : queue'[a] = x
    <3>1. CASE k < i
      BY <1>0, <1>3, <2>1, <3>1
    <3>2. CASE k > i
      <4>1. k - 1 \in 1 .. Len(queue) - 1 /\ k - 1 >= i /\ (k - 1) + 1 = k
        BY <1>0, <3>2
      <4> QED BY <1>3, <2>1, <4>1
    <3> QED BY <1>1, <1>6, <2>1, <3>1, <3>2
  <2> QED BY <1>2, <2>2 DEF Queued, ToSet
<1> QED BY <1>2, <1>4, <1>5, <1>6

-----------------------------------------------------------------------------
LEMMA QueueInitially == QueueInit => QueueInv
BY FS_EmptySet, ImportQueueAssumption
   DEF QueueInit, QueueInv, QueueTypeOK, ImportedOnce, Queued, ToSet

LEMMA CommitKeeps ==
  ASSUME QueueInv, Commit, jobs' \in {jobs, jobs + 1}, faults' \in 0 .. MaxFaults
  PROVE  QueueInv'
<1>1. delivery \in Job /\ Deletes(delivery) /\ delivery' = NoJob
      /\ imported' = imported \cup {delivery} /\ removed' = removed
  BY DEF Commit
<1>2. delivery \in Queued /\ delivery \notin imported \cup removed
  BY <1>1, ImportQueueAssumption DEF QueueInv, ImportedOnce
<1>3. IsFiniteSet(imported') /\ Cardinality(imported') = Cardinality(imported) + 1
      /\ Cardinality(imported) \in Nat
  BY <1>1, <1>2, FS_AddElement, FS_CardinalityType DEF QueueInv
<1>4. QueueTypeOK'
  BY <1>1, RowDeleted DEF QueueInv, QueueTypeOK
<1>5. ImportedOnce'
  BY <1>1, <1>2, <1>3, RowDeleted DEF QueueInv, QueueTypeOK, ImportedOnce
<1> QED BY <1>1, <1>3, <1>4, <1>5 DEF QueueInv

LEMMA QueueKeeps ==
  ASSUME QueueInv, QueueStep \/ RestartConsumer
  PROVE  QueueInv'
<1> USE ImportQueueAssumption DEF Fault
<1>1. CASE RestartConsumer
  BY <1>1, FS_CardinalityType DEF RestartConsumer, QueueInv, QueueTypeOK, ImportedOnce, Queued
<1>2. ASSUME NEW j \in Job, Insert(j) PROVE QueueInv'
  <2>1. /\ queue' \in Seq(Job) /\ Len(queue') = Len(queue) + 1
        /\ \A i \in 1 .. Len(queue) : queue'[i] = queue[i]
        /\ queue'[Len(queue) + 1] = j
    BY <1>2 DEF Insert, QueueInv, QueueTypeOK
  <2>2. Queued' = Queued \cup {j}
    <3>1. Queued' \subseteq Queued \cup {j}
      BY <2>1 DEF Queued, ToSet, QueueInv, QueueTypeOK
    <3>2. Queued \subseteq Queued' /\ j \in Queued'
      BY <2>1 DEF Queued, ToSet, QueueInv, QueueTypeOK
    <3> QED BY <3>1, <3>2
  <2>3. \A m, n \in DOMAIN queue' : queue'[m] = queue'[n] => m = n
    BY <1>2, <2>1 DEF Insert, Queued, ToSet, QueueInv, QueueTypeOK, ImportedOnce
  <2> QED BY <1>2, <2>1, <2>2, <2>3 DEF Insert, QueueInv, QueueTypeOK, ImportedOnce
<1>3. CASE Receive
  <2>1. delivery' \in Queued
    BY <1>3 DEF Receive, Queued, ToSet, QueueInv, QueueTypeOK
  <2>2. delivery' \in Job
    BY <1>3 DEF Receive, QueueInv, QueueTypeOK
  <2> QED BY <1>3, <2>1, <2>2 DEF Receive, QueueInv, QueueTypeOK, ImportedOnce, Queued
<1>4. CASE Acknowledge
  BY <1>4, CommitKeeps DEF Acknowledge, QueueInv, QueueTypeOK
<1>5. CASE AnswerLost
  BY <1>5, CommitKeeps DEF AnswerLost, QueueInv, QueueTypeOK
<1>6. CASE Reject
  BY <1>6 DEF Reject, QueueInv, QueueTypeOK, ImportedOnce, Queued
<1>7. CASE Fail
  BY <1>7 DEF Fail, QueueInv, QueueTypeOK, ImportedOnce, Queued
<1>8. ASSUME NEW j \in Job, Delete(j) PROVE QueueInv'
  BY <1>8, RowDeleted DEF Delete, QueueInv, QueueTypeOK, ImportedOnce
<1> QED BY <1>1, <1>2, <1>3, <1>4, <1>5, <1>6, <1>7, <1>8 DEF QueueStep, Deliver

LEMMA UnchangedKeeps == QueueInv /\ UNCHANGED queueVars => QueueInv'
BY DEF QueueInv, QueueTypeOK, ImportedOnce, Queued, queueVars

LEMMA ProcessKeeps == Inv /\ QueueInv /\ [ProcessNext]_allVars => Inv' /\ QueueInv'
<1>1. ASSUME Inv, QueueInv, [ProcessNext]_allVars PROVE [Next]_vars
  BY <1>1 DEF ProcessNext, ProcessRestarts, Next, allVars
<1>2. ASSUME QueueInv, [ProcessNext]_allVars
      PROVE  QueueStep \/ RestartConsumer \/ UNCHANGED queueVars
  BY <1>2 DEF ProcessNext, ProcessRestarts, allVars
<1> QED BY <1>1, <1>2, StepKeeps, QueueKeeps, UnchangedKeeps

LEMMA ProcessInvariance == ProcessSpec => [](Inv /\ QueueInv)
<1>1. ProcessInit => Inv /\ QueueInv
  BY InitHolds, QueueInitially DEF ProcessInit
<1> QED BY <1>1, ProcessKeeps, PTL DEF ProcessSpec

-----------------------------------------------------------------------------
(* The types of the worker and of the queue.                                *)
THEOREM ProcessTypeCorrect == ProcessSpec => []ProcessTypeOK
<1>1. Inv /\ QueueInv => ProcessTypeOK
  BY DEF Inv, QueueInv, ProcessTypeOK
<1> QED BY <1>1, ProcessInvariance, PTL

(* A row is in the queue, imported or deleted by its run's recovery, and    *)
(* only one of these, whatever fails between the statements of a delivery.  *)
THEOREM JobsAreImportedOnce == ProcessSpec => []ImportedOnce
<1>1. QueueInv => ImportedOnce
  BY DEF QueueInv
<1> QED BY <1>1, ProcessInvariance, PTL

(* No step of the worker, of MySQL's failures or of a recovery takes a row  *)
(* out of the queue without its records or its deletion being on record.    *)
THEOREM RowsAreNotLost == ProcessSpec => NothingIsLost
<1>1. ASSUME QueueInv, [ProcessNext]_allVars
      PROVE  [\A j \in Queued : j \in Queued' \cup imported' \cup removed']_queueVars
  <2> SUFFICES ASSUME NEW j \in Queued, QueueStep \/ RestartConsumer
               PROVE  j \in Queued' \cup imported' \cup removed'
    BY <1>1 DEF ProcessNext, ProcessRestarts, allVars
  <2>1. CASE Commit
    <3>1. delivery \in Job
      BY <2>1 DEF Commit
    <3> QED BY <1>1, <2>1, <3>1, RowDeleted DEF Commit
  <2>2. ASSUME NEW k \in Job, Delete(k) PROVE j \in Queued' \cup imported' \cup removed'
    BY <1>1, <2>2, RowDeleted DEF Delete
  <2>3. ASSUME NEW k \in Job, Insert(k) PROVE j \in Queued'
    <3>1. /\ \A i \in 1 .. Len(queue) : queue'[i] = queue[i]
          /\ Len(queue') = Len(queue) + 1 /\ queue' \in Seq(Job)
      BY <1>1, <2>3 DEF Insert, QueueInv, QueueTypeOK
    <3> QED BY <1>1, <3>1 DEF Queued, ToSet, QueueInv, QueueTypeOK
  <2>4. CASE UNCHANGED queue
    BY <2>4 DEF Queued
  <2> QED BY <2>1, <2>2, <2>3, <2>4 DEF QueueStep, Deliver, RestartConsumer, Receive,
                                       Acknowledge, AnswerLost, Reject, Fail
<1> QED BY <1>1, ProcessInvariance, PTL DEF NothingIsLost, ProcessSpec

-----------------------------------------------------------------------------
(* The process behaves as the worker alone does: the import loop changes    *)
(* nothing of the modes, and a restart of the process restarts them.        *)
THEOREM ProcessImplementsWorker == ProcessSpec => Spec
<1>1. ProcessInit => Init
  BY DEF ProcessInit
<1>2. [ProcessNext]_allVars => [Next]_vars
  BY DEF ProcessNext, ProcessRestarts, Next, allVars
<1> QED BY <1>1, <1>2, PTL DEF ProcessSpec, Spec

(* So the process keeps what its modes promise: one live thread, of the     *)
(* reported mode; and no page, backlog or lease outside its mode.           *)
THEOREM ProcessModesAreSafe == ProcessSpec => []OneThreadPerMode /\ []FaultIsConfined
BY ProcessImplementsWorker, OneThread, FaultConfined
=============================================================================
