------------------------------- MODULE Worker -------------------------------
(***************************************************************************)
(* The operating modes of the worker (app/worker.py): set_mode, called by   *)
(* an operator or by the heartbeat thread when a lease has run out, and the *)
(* thread that does a mode's work.  A mode's work is slow: a page to encode *)
(* or a credential to hash can outlast the two seconds that set_mode waits. *)
(***************************************************************************)
EXTENDS Integers

CONSTANTS
  Batch,      \* CPU_MIGRATION_BATCH_SIZE
  MaxPages,   \* MAX_BUFFERED_EXPORT_PAGES
  MaxCalls    \* bound: calls of set_mode by operators

ASSUME WorkerAssumption ==
  Batch \in Nat \ {0} /\ MaxPages \in Nat \ {0} /\ MaxCalls \in Nat

Mode == {"normal", "cpu-saturation", "memory-leak"}

(* Mode threads started one after the other: one by initialize, one by each *)
(* successful set_mode.  An operator's call is followed by at most one of   *)
(* the heartbeat thread's.                                                  *)
Episode == 0 .. 2 * MaxCalls

VARIABLES
  mode,      \* mode
  backlog,   \* migration_backlog
  pages,     \* _memory: pages retained
  lease,     \* _expires_at: none, running or due
  current,   \* the episode of _mode_thread and _mode_stop
  thread,    \* the mode threads
  stopped,   \* the episodes whose stop event is set
  call,      \* the set_mode that holds _mode_lock
  heartbeat, \* the heartbeat thread
  calls      \* calls of set_mode by operators so far

vars == <<mode, backlog, pages, lease, current, thread, stopped, call, heartbeat, calls>>

(* What the lock _lock protects.                                            *)
data == <<mode, backlog, pages, lease>>

Thread == [kind: Mode, pc: {"none", "look", "work", "retaining", "closing", "dead"}]
NoThread == [kind |-> "normal", pc |-> "none"]
Loop(kind) == [kind |-> kind, pc |-> "look"]

Call == [by: {"nobody", "operator", "heartbeat"}, mode: Mode]
NoCall == [by |-> "nobody", mode |-> "normal"]

TypeOK ==
  /\ mode \in Mode /\ backlog \in 0 .. Batch /\ pages \in 0 .. MaxPages
  /\ lease \in {"none", "running", "due"}
  /\ current \in Episode
  /\ thread \in [Episode -> Thread] /\ stopped \subseteq Episode
  /\ call \in Call /\ calls \in 0 .. MaxCalls
  /\ heartbeat \in {"look", "expired", "calling", "dead"}

FirstThread == [e \in Episode |-> IF e = 0 THEN Loop("normal") ELSE NoThread]

Init ==
  /\ mode = "normal" /\ backlog = 0 /\ pages = 0 /\ lease = "none"
  /\ current = 0 /\ stopped = {} /\ thread = FirstThread
  /\ call = NoCall /\ heartbeat = "look" /\ calls = 0

Alive(e) == thread[e].pc \notin {"none", "dead"}

Moves(e, pc) == thread' = [thread EXCEPT ![e].pc = pc]

-----------------------------------------------------------------------------
(* set_mode.  It takes the lock, sets the stop event of the mode thread and *)
(* joins it.                                                                *)
Stop(who, m) ==
  /\ call = NoCall /\ call' = [by |-> who, mode |-> m]
  /\ stopped' = stopped \cup {current}
  /\ UNCHANGED <<data, current, thread>>

OperatorCalls(m) ==
  /\ calls < MaxCalls /\ calls' = calls + 1
  /\ Stop("operator", m)
  /\ UNCHANGED heartbeat

(* Mutated Joined: the join is not checked.                                 *)
JoinedOrNot == call # NoCall

Joined == call # NoCall /\ ~Alive(current)

(* Mutated Reset: what the mode before retained stays; only the migration   *)
(* gets a lease.                                                            *)
ResetLater(m) ==
  /\ mode' = m
  /\ UNCHANGED pages
  /\ backlog' = IF m = "cpu-saturation" THEN Batch ELSE 0
  /\ lease' = IF m = "normal" THEN "none" ELSE "running"

ResetUnleased(m) ==
  /\ mode' = m
  /\ pages' = 0
  /\ backlog' = IF m = "cpu-saturation" THEN Batch ELSE 0
  /\ lease' = IF m = "cpu-saturation" THEN "running" ELSE "none"

Reset(m) ==
  /\ mode' = m
  /\ pages' = 0
  /\ backlog' = IF m = "cpu-saturation" THEN Batch ELSE 0
  /\ lease' = IF m = "normal" THEN "none" ELSE "running"

(* The thread has stopped: the mode is replaced and its thread started.     *)
Replace ==
  /\ Joined
  /\ Reset(call.mode)
  /\ current' = current + 1
  /\ thread' = [thread EXCEPT ![current + 1] = Loop(call.mode)]
  /\ heartbeat' = IF call.by = "heartbeat" THEN "look" ELSE heartbeat
  /\ call' = NoCall
  /\ UNCHANGED <<stopped, calls>>

(* The thread has not stopped within two seconds: set_mode raises a         *)
(* ValueError, which the HTTP handler answers with 400 and the heartbeat    *)
(* thread does not catch.                                                   *)
Refuse ==
  /\ call # NoCall /\ Alive(current)
  /\ heartbeat' = IF call.by = "heartbeat" THEN "dead" ELSE heartbeat
  /\ call' = NoCall
  /\ UNCHANGED <<data, current, thread, stopped, calls>>

-----------------------------------------------------------------------------
(* The heartbeat thread reads the lease under _lock and calls set_mode.     *)
LeaseRunsOut ==
  /\ lease = "running" /\ lease' = "due"
  /\ UNCHANGED <<mode, backlog, pages, current, thread, stopped, call, heartbeat, calls>>

HeartbeatLooks ==
  /\ heartbeat = "look" /\ lease = "due" /\ heartbeat' = "expired"
  /\ UNCHANGED <<data, current, thread, stopped, call, calls>>

HeartbeatCalls ==
  /\ heartbeat = "expired" /\ heartbeat' = "calling"
  /\ Stop("heartbeat", "normal")
  /\ UNCHANGED calls

-----------------------------------------------------------------------------
(* The mode threads.  Every loop looks at its stop event first.             *)
Look(e) ==
  /\ thread[e].pc = "look"
  /\ Moves(e, IF e \in stopped THEN "dead"
              ELSE IF thread[e].kind = "cpu-saturation" /\ backlog = 0 THEN "closing"
              ELSE "work")
  /\ UNCHANGED <<data, current, stopped, call, heartbeat, calls>>

(* A page of the normal export is streamed and released.                    *)
Export(e) ==
  /\ thread[e] = [kind |-> "normal", pc |-> "work"]
  /\ Moves(e, "look")
  /\ UNCHANGED <<data, current, stopped, call, heartbeat, calls>>

(* Mutated CheckBuffer: the buffer has no bound.                            *)
CheckBufferUnbounded(e) ==
  /\ thread[e] = [kind |-> "memory-leak", pc |-> "work"]
  /\ Moves(e, IF e \in stopped THEN "dead" ELSE "retaining")
  /\ UNCHANGED <<data, current, stopped, call, heartbeat, calls>>

(* A page is only retained if the mode is not over and the buffer is not    *)
(* full.  The thread holds _lock from this check until it has retained the  *)
(* page, but set_mode sets the stop event under _mode_lock: it may come in  *)
(* between.  Others that wait for _lock only read what it protects, or wait *)
(* for this thread to end.                                                  *)
CheckBuffer(e) ==
  /\ thread[e] = [kind |-> "memory-leak", pc |-> "work"]
  /\ Moves(e, IF e \in stopped \/ pages >= MaxPages THEN "dead" ELSE "retaining")
  /\ UNCHANGED <<data, current, stopped, call, heartbeat, calls>>

Retain(e) ==
  /\ thread[e].pc = "retaining"
  /\ Moves(e, "look") /\ pages' = pages + 1
  /\ UNCHANGED <<mode, backlog, lease, current, stopped, call, heartbeat, calls>>

(* A credential is migrated, unless the mode is over before it begins.      *)
Migrate(e) ==
  /\ thread[e] = [kind |-> "cpu-saturation", pc |-> "work"]
  /\ \/ Moves(e, "look") /\ backlog' = IF backlog > 0 THEN backlog - 1 ELSE 0
     \/ e \in stopped /\ Moves(e, "dead") /\ UNCHANGED backlog
  /\ UNCHANGED <<mode, pages, lease, current, stopped, call, heartbeat, calls>>

(* Mutated Complete: the export goes on under a stop event of its own.      *)
CompleteAfresh(e) ==
  /\ thread[e].pc = "closing"
  /\ mode' = "normal" /\ lease' = "none"
  /\ thread' = [thread EXCEPT ![e] = Loop("normal")]
  /\ stopped' = stopped \ {e}
  /\ UNCHANGED <<backlog, pages, current, call, heartbeat, calls>>

(* The batch is done: the mode ends by itself and the thread goes on with   *)
(* the normal export, under the stop event it has.                          *)
Complete(e) ==
  /\ thread[e].pc = "closing"
  /\ mode' = "normal" /\ lease' = "none"
  /\ thread' = [thread EXCEPT ![e] = Loop("normal")]
  /\ UNCHANGED <<backlog, pages, current, stopped, call, heartbeat, calls>>

ThreadStep(e) ==
  Look(e) \/ Export(e) \/ CheckBuffer(e) \/ Retain(e) \/ Migrate(e) \/ Complete(e)

(* The process is killed, by its memory limit or otherwise, and restarted.  *)
Restart ==
  /\ mode' = "normal" /\ backlog' = 0 /\ pages' = 0 /\ lease' = "none"
  /\ current' = 0 /\ stopped' = {} /\ thread' = FirstThread
  /\ call' = NoCall /\ heartbeat' = "look"
  /\ UNCHANGED calls

-----------------------------------------------------------------------------
ModeStep ==
  \/ \E m \in Mode : OperatorCalls(m)
  \/ Replace \/ Refuse
  \/ LeaseRunsOut \/ HeartbeatLooks \/ HeartbeatCalls
  \/ \E e \in Episode : ThreadStep(e)

Next == ModeStep \/ Restart

Spec == Init /\ [][Next]_vars

-----------------------------------------------------------------------------
(* Only one mode thread lives, and unless it has been told to stop it does  *)
(* the work of the mode that status reports (set_mode, _start_mode_work).   *)
OneThreadPerMode ==
  /\ \A e \in Episode : Alive(e) => e = current
  /\ Alive(current) => thread[current].kind = mode

(* What a fault mode takes is given back with it, and every fault mode has  *)
(* a lease (set_mode, _credential_migration_loop).                          *)
FaultIsConfined ==
  /\ pages > 0 => mode = "memory-leak"
  /\ backlog > 0 => mode = "cpu-saturation"
  /\ lease = "none" <=> mode = "normal"
=============================================================================
