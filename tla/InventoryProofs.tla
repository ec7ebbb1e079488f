--------------------------- MODULE InventoryProofs ---------------------------
(***************************************************************************)
(* Reservations, collision rows and the sessions of the modes, for any      *)
(* requests, orders, stock and number of mode changes and faults.  Inv is   *)
(* inductive: collision tokens to come are nobody's, a mode change knows    *)
(* the token of the mode it ends, and a request that has written knows its  *)
(* row.                                                                     *)
(***************************************************************************)
EXTENDS Inventory, FiniteSetTheorems, TLAPS

(* The types of what the invariant speaks of.                               *)
Shapes ==
  /\ fault \in [mode: Mode, episode: Episode, token: Token \cup {None}, owner: Order \cup {None}]
  /\ change \in Change /\ lease \in [runs: BOOLEAN, read: BOOLEAN]
  /\ enabled \in BOOLEAN /\ pooled \in BOOLEAN
  /\ task \in [Episode -> Task]
  /\ req \in [Request -> Local]
  /\ rows \in [Token -> Order \cup {None}] /\ removed \subseteq Token
  /\ changes \in 0 .. MaxChanges

(* Mode changes that may still come into force without another operator's.  *)
Unapplied == {"releasing", "reading", "clearing", "forgetting", "cleaning", "applying"}

Owed ==
  (IF change.pc \in Unapplied /\ change.by = "operator" THEN 2 ELSE 0)
  + (IF lease.runs \/ (lease.read /\ ~(change.by = "lease" /\ change.pc = "enabling"))
       THEN 1 ELSE 0)

Counted == fault.episode + Owed <= 2 * changes

(* Collision tokens of episodes to come are nobody's yet.                   *)
InForce(e) == <<"collision", e>>

TokensFresh ==
  /\ fault.token \in {None, InForce(fault.episode)}
  /\ fault.token # None => fault.token \notin removed
  /\ \A e \in Episode : e > fault.episode =>
       /\ rows[InForce(e)] = None /\ InForce(e) \notin removed
       /\ \A r \in Request : req[r].token # InForce(e)

(* A mode change knows the token of the mode it ends.                       *)
Taking == {"clearing", "forgetting", "cleaning"}

ChangeSound ==
  /\ change.pc # "none" => ~enabled
  /\ change.pc # "none" /\ change.by = "lease" => lease.read /\ change.mode = "normal"
  /\ change.pc \in Taking /\ change.token # None => change.token = InForce(fault.episode)
  /\ change.pc = "cleaning" => change.token # None /\ change.owner # None
  /\ change.pc \in {"forgetting", "cleaning", "applying"} => fault.token = None
  /\ change.pc = "enabling" => fault.mode = change.mode

(* One request at a time records itself as the owner, and it has a row; a   *)
(* mode change that has read an owner meets no request that does.           *)
RecorderSound ==
  /\ \A r \in Request : req[r].pc = "assigning" => fault.owner = None /\ HoldsRow(req[r].order)
  /\ \A r, s \in Request : req[r].pc = "assigning" /\ req[s].pc = "assigning" => r = s
  /\ change.pc \in {"clearing", "forgetting"} /\ change.owner # None =>
       Unlocked /\ fault.owner = change.owner
  /\ change.pc = "cleaning" => Unlocked /\ fault.owner = None

(* What a request knows of its token, and that its row is there once it has *)
(* been written.                                                            *)
Knows(q) ==
  /\ q.pc \in {"new", "queued", "admitted"} => q.token = None
  /\ q.pc \in {"queued", "admitted"} => q.order \in Order
  /\ q.pc \in {"connecting", "connected", "duplicate", "returning", "recording",
              "assigning"} => q.token # None
  /\ q.token # None => q.order \in Order
  /\ q.token # None => q.token \in {"collision"} \X Episode \/ q.token = <<"order", q.order>>

HasRow(q) ==
  q.pc \in {"recording", "assigning"} \/ (q.pc = "returning" /\ q.answer = "none")
  \/ q.answer = "reserved" =>
    q.token # None /\ (rows[q.token] = q.order \/ q.token \in removed)

RequestSound == \A r \in Request : Knows(req[r]) /\ HasRow(req[r])

OrderRows == \A o \in Order : rows[<<"order", o>>] \in {o, None}

(* A task that has not been told to stop is the one of the mode in force.   *)
TaskSound ==
  /\ \A e \in Episode : task[e].pc # "none" /\ e \notin stopped =>
       /\ e = fault.episode /\ change.pc = "none"
       /\ task[e].kind = "storm" => fault.mode = "connection-saturation"
  /\ change.pc \notin {"none", "releasing"} => held = 0

Inv ==
  /\ Shapes /\ Counted /\ TokensFresh /\ ChangeSound /\ RequestSound /\ OrderRows /\ TaskSound
  /\ ModeKeepsItsSessions /\ RecorderSound /\ OwnerHoldsRow

LEMMA InitHolds == Init => Inv
<1> SUFFICES ASSUME Init PROVE Inv
  OBVIOUS
<1> USE InventoryAssumption DEF Init
<1>1. Shapes
  <2>1. change \in Change /\ Fresh \in Local
    BY DEF NoChange, Change, Mode, Fresh, Local
  <2>2. 0 \in Episode /\ 0 \in 0 .. MaxChanges
    BY DEF Episode
  <2>3. TaskOf("normal") \in Task /\ [kind |-> "reconcile", pc |-> "none"] \in Task
    BY DEF TaskOf, Task
  <2>4. task \in [Episode -> Task] /\ req \in [Request -> Local]
    BY <2>1, <2>3
  <2>5. QED
    BY <2>1, <2>2, <2>4 DEF Shapes, Mode
<1>2. Counted /\ ChangeSound /\ OrderRows
  BY DEF Counted, Owed, Unapplied, NoChange, ChangeSound, OrderRows, Token
<1>3. TokensFresh
  BY DEF TokensFresh, InForce, Episode, Token, Fresh
<1>4. RequestSound
  BY DEF RequestSound, Knows, HasRow, Fresh
<1>5. TaskSound
  BY DEF TaskSound, TaskOf, NoChange
<1>6. ModeKeepsItsSessions /\ RecorderSound /\ OwnerHoldsRow
  BY DEF ModeKeepsItsSessions, RecorderSound, Unlocked, OwnerHoldsRow, NoChange, Fresh
<1>7. QED
  BY <1>1, <1>2, <1>3, <1>4, <1>5, <1>6 DEF Inv

-----------------------------------------------------------------------------
(* A request that goes on without a change in MySQL or in the mode.         *)
LEMMA MoveKeeps ==
  ASSUME Inv, NEW r \in Request, NEW q \in Local, req' = [req EXCEPT ![r] = q],
         Knows(q), HasRow(q), q.pc # "assigning",
         \A e \in Episode : e > fault.episode => q.token # InForce(e),
         pooled' \in BOOLEAN, pooled' => enabled,
         UNCHANGED <<fault, change, lease, stopped, changes, enabled, held, task, rows, removed>>
  PROVE Inv'
<1> USE DEF Inv
<1>1. Shapes'
  BY DEF Shapes
<1>2. req'[r] = q /\ \A s \in Request : s # r => req'[s] = req[s]
  BY DEF Shapes
<1>3. Counted' /\ ChangeSound' /\ OrderRows'
  BY DEF Counted, Owed, ChangeSound, InForce, OrderRows
<1>4. TokensFresh'
  BY <1>2 DEF TokensFresh, InForce
<1>5. RequestSound'
  BY <1>2 DEF RequestSound, Knows, HasRow
<1>6. TaskSound' /\ ModeKeepsItsSessions' /\ OwnerHoldsRow'
  BY DEF TaskSound, ModeKeepsItsSessions, OwnerHoldsRow, HoldsRow
<1>7. RecorderSound'
  BY <1>2 DEF RecorderSound, HoldsRow, Unlocked
<1>8. QED
  BY <1>1, <1>3, <1>4, <1>5, <1>6, <1>7

LEMMA BeginKeeps ==
  ASSUME Inv, NEW r \in Request,
         (\E o \in Order : Begin(r, o)) \/ RejectKey(r) \/ Admit(r) \/ Busy(r) \/ TakeToken(r)
         \/ Finish(r)
  PROVE Inv'
<1> DEFINE q == req'[r]
<1> USE DEF Inv
<1>1. req \in [Request -> Local] /\ req[r] \in Local /\ Knows(req[r]) /\ HasRow(req[r])
      /\ fault.mode \in Mode /\ fault.token \in Token \cup {None} /\ fault.episode \in Episode
  BY DEF Shapes, RequestSound
<1>2. UNCHANGED <<fault, change, lease, stopped, changes, enabled, pooled, held, task, rows,
                  removed>>
  BY DEF Begin, RejectKey, Admit, Busy, TakeToken, Finish, Step, modes, pool, mysql
<1>3. \A e \in Episode : e > fault.episode => req[r].token # InForce(e)
  BY DEF TokensFresh
<1>4. Refused \in Local /\ Knows(Refused) /\ HasRow(Refused) /\ Refused.pc # "assigning"
      /\ \A e \in Episode : Refused.token # InForce(e)
  <2>1. Fresh \in Local /\ Fresh.token = None
    BY DEF Fresh, Local, Mode
  <2>2. Refused \in Local /\ Refused.pc = "done" /\ Refused.answer = "refused"
        /\ Refused.token = None
    BY <2>1 DEF Refused, Local
  <2>3. \A e \in Episode : InForce(e) \in Token
    BY DEF InForce, Token
  <2>4. QED
    BY <2>2, <2>3, InventoryAssumption DEF Knows, HasRow
<1>5. req' = [req EXCEPT ![r] = q]
  BY <1>1 DEF Begin, RejectKey, Admit, Busy, TakeToken, Finish, Step
<1>6. q \in Local /\ Knows(q) /\ HasRow(q) /\ q.pc # "assigning"
      /\ \A e \in Episode : e > fault.episode => q.token # InForce(e)
  <2>1. CASE \E o \in Order : Begin(r, o)
    <3> PICK o \in Order : Begin(r, o)
      BY <2>1
    <3>1. q = [req[r] EXCEPT !.pc = "queued", !.order = o, !.mode = fault.mode]
      BY <1>1 DEF Begin
    <3>2. q \in Local /\ q.token = None /\ q.order = o /\ q.pc = "queued"
          /\ q.answer = req[r].answer /\ req[r].answer # "reserved"
      BY <1>1, <3>1 DEF Begin, Local, Knows, HasRow
    <3>3. Knows(q) /\ HasRow(q)
      BY <3>2 DEF Knows, HasRow
    <3>4. QED
      BY <3>2, <3>3, InventoryAssumption DEF InForce, Token
  <2>2. CASE RejectKey(r) \/ Busy(r)
    <3>1. q = Refused
      BY <1>1, <2>2 DEF RejectKey, Busy
    <3>2. QED
      BY <1>4, <3>1
  <2>3. CASE Admit(r)
    <3>1. q = [req[r] EXCEPT !.pc = "admitted"] /\ req[r].pc = "queued"
      BY <1>1, <2>3 DEF Admit, Step
    <3>2. q \in Local /\ q.pc = "admitted" /\ q.token = req[r].token /\ q.order = req[r].order
          /\ q.answer = req[r].answer
      BY <1>1, <3>1 DEF Local
    <3>3. QED
      BY <1>1, <1>3, <3>1, <3>2 DEF Knows, HasRow
  <2>4. CASE TakeToken(r)
    <3> DEFINE t == TokenOf(r)
    <3>1. q = [req[r] EXCEPT !.pc = "connecting", !.token = t] /\ req[r].pc = "admitted"
      BY <1>1, <2>4 DEF TakeToken
    <3>2. req[r].order \in Order /\ req[r].answer # "reserved"
      BY <1>1, <3>1 DEF Knows, HasRow
    <3>3. t = <<"order", req[r].order>> \/ t = InForce(fault.episode)
      BY <1>1 DEF TokenOf, TokensFresh
    <3>4. t \in Token /\ t # None
      BY <1>1, <3>2, <3>3, InventoryAssumption DEF Token, InForce
    <3>5. \A e \in Episode : e > fault.episode => t # InForce(e)
      BY <1>1, <3>3 DEF InForce, Episode
    <3>6. t \in {"collision"} \X Episode \/ t = <<"order", req[r].order>>
      BY <1>1, <3>3 DEF InForce
    <3> HIDE DEF t
    <3>7. q \in Local /\ q.pc = "connecting" /\ q.token = t /\ q.order = req[r].order
          /\ q.answer = req[r].answer
      BY <1>1, <3>1, <3>4 DEF Local
    <3> HIDE DEF q
    <3>8. QED
      BY <3>2, <3>4, <3>5, <3>6, <3>7 DEF Knows, HasRow
  <2>5. CASE Finish(r)
    <3>1. q = Refused \/ (q = [req[r] EXCEPT !.pc = "done", !.mode = "normal"]
                          /\ req[r].answer = "reserved")
      BY <1>1, <2>5 DEF Finish
    <3>2. CASE q = Refused
      BY <1>4, <3>2
    <3>3. CASE q = [req[r] EXCEPT !.pc = "done", !.mode = "normal"] /\ req[r].answer = "reserved"
      <4>1. q \in Local /\ q.pc = "done" /\ q.token = req[r].token /\ q.order = req[r].order
            /\ q.answer = req[r].answer
        BY <1>1, <3>3 DEF Local, Mode
      <4>2. QED
        BY <1>1, <1>3, <3>3, <4>1 DEF Knows, HasRow
    <3>4. QED
      BY <3>1, <3>2, <3>3
  <2>6. QED
    BY <2>1, <2>2, <2>3, <2>4, <2>5
<1>7. pooled' \in BOOLEAN /\ (pooled' => enabled)
  BY <1>2 DEF Shapes, ModeKeepsItsSessions
<1> HIDE DEF q
<1>8. QED
  BY <1>2, <1>5, <1>6, <1>7, MoveKeeps

(* The session of a request comes and goes.                                 *)
LEMMA SessionKeeps ==
  ASSUME Inv, NEW r \in Request, Connect(r) \/ ReturnSession(r) \/ LookUp(r)
  PROVE Inv'
<1> USE DEF Inv
<1>1. req \in [Request -> Local] /\ req[r] \in Local /\ Knows(req[r]) /\ HasRow(req[r])
      /\ pooled \in BOOLEAN /\ enabled \in BOOLEAN
  BY DEF Shapes, RequestSound
<1>2. UNCHANGED <<fault, change, lease, stopped, changes, enabled, held, task, rows, removed>>
  BY DEF Connect, ReturnSession, LookUp, modes, pool, mysql
<1>3. \A e \in Episode : e > fault.episode => req[r].token # InForce(e)
  BY DEF TokensFresh
<1> DEFINE Ended(a) == [req[r] EXCEPT !.pc = "finishing", !.session = "none", !.answer = a]
           Got(kind) == [req[r] EXCEPT !.pc = "connected", !.session = kind]
           Gave(pc) == [req[r] EXCEPT !.session = "none", !.pc = pc]
<1>4. \E new \in Local :
        /\ req' = [req EXCEPT ![r] = new]
        /\ new.token = req[r].token /\ new.order = req[r].order
        /\ \/ /\ new.pc = "connected" /\ req[r].pc = "connecting" /\ new.answer = req[r].answer
           \/ new.pc = "finishing" /\ new.answer = "refused"
           \/ /\ new.pc = "finishing" /\ new.answer = "reserved" /\ IsOwner(r)
              /\ req[r].pc = "duplicate"
           \/ /\ new.pc = "finishing" /\ new.answer = req[r].answer
           \/ /\ new.pc = "recording" /\ new.answer = req[r].answer
              /\ req[r].pc = "returning" /\ req[r].answer = "none"
  <2>1. \A a \in {"reserved", "refused"} :
          /\ Ended(a) \in Local /\ Ended(a).token = req[r].token
          /\ Ended(a).order = req[r].order /\ Ended(a).pc = "finishing" /\ Ended(a).answer = a
    BY <1>1 DEF Local
  <2>2. \A kind \in {"own", "reusable"} :
          /\ Got(kind) \in Local /\ Got(kind).token = req[r].token
          /\ Got(kind).order = req[r].order /\ Got(kind).pc = "connected"
          /\ Got(kind).answer = req[r].answer
    BY <1>1 DEF Local
  <2>3. \A pc \in {"recording", "finishing"} :
          /\ Gave(pc) \in Local /\ Gave(pc).token = req[r].token
          /\ Gave(pc).order = req[r].order /\ Gave(pc).pc = pc
          /\ Gave(pc).answer = req[r].answer
    BY <1>1 DEF Local
  <2>4. CASE Connect(r)
    <3>1. req[r].pc = "connecting"
          /\ \/ \E kind \in {"own", "reusable"} : req' = [req EXCEPT ![r] = Got(kind)]
             \/ req' = [req EXCEPT ![r] = Ended("refused")]
      BY <2>4 DEF Connect, TakePooled, ReplacePooled, OpenSession, ConnectFails, Connected, Ends
    <3> HIDE DEF Got, Ended
    <3>2. QED
      BY <2>1, <2>2, <3>1
  <2>5. CASE ReturnSession(r)
    <3>1. req[r].pc = "returning"
          /\ \/ req[r].answer = "none" /\ req' = [req EXCEPT ![r] = Gave("recording")]
             \/ req' = [req EXCEPT ![r] = Gave("finishing")]
      BY <2>5 DEF ReturnSession
    <3> HIDE DEF Gave
    <3>2. QED
      BY <2>3, <3>1
  <2>6. CASE LookUp(r)
    <3>1. req[r].pc = "duplicate"
          /\ \/ IsOwner(r) /\ req' = [req EXCEPT ![r] = Ended("reserved")]
             \/ req' = [req EXCEPT ![r] = Ended("refused")]
      BY <2>6 DEF LookUp, Ends
    <3> HIDE DEF Ended
    <3>2. QED
      BY <2>1, <3>1
  <2>7. QED
    BY <2>4, <2>5, <2>6
<1>5. PICK q \in Local : <1>4!(q)
  BY <1>4
<1>6. pooled' \in BOOLEAN /\ (pooled' => enabled)
  <2>1. \/ pooled' = pooled
        \/ pooled' = FALSE
        \/ pooled' = (pooled \/ Keeps(r))
        \/ pooled' = (pooled /\ ~Reuse(r))
    BY DEF Connect, TakePooled, ReplacePooled, OpenSession, ConnectFails, ReturnSession, LookUp,
           pool
  <2>2. (pooled => enabled) /\ (Keeps(r) => enabled)
    BY DEF ModeKeepsItsSessions, Keeps
  <2>3. pooled' \in BOOLEAN
    BY <1>1, <2>1, Zenon
  <2>4. pooled' => enabled
    BY <2>1, <2>2, Zenon
  <2>5. QED
    BY <2>3, <2>4
<1>7. Knows(q)
  BY <1>1, <1>5 DEF Knows
<1>8. HasRow(q)
  BY <1>1, <1>5 DEF HasRow, Knows, IsOwner
<1>9. \A e \in Episode : e > fault.episode => q.token # InForce(e)
  BY <1>3, <1>5
<1>10. QED
  BY <1>2, <1>5, <1>6, <1>7, <1>8, <1>9, MoveKeeps

(* A row is written for a token that is nobody's: no other request and no   *)
(* owner on record rests on it.                                             *)
LEMMA WriteKeeps ==
  ASSUME Inv, NEW r \in Request, NEW q \in Local, req' = [req EXCEPT ![r] = q], Written(r),
         req[r].token # None, q.token = req[r].token, q.order = req[r].order,
         q.pc \in {"returning", "finishing"},
         q.answer = "reserved" => req[r].answer = "reserved",
         UNCHANGED <<fault, change, lease, stopped, changes, enabled, pooled, held, task>>
  PROVE Inv'
<1> DEFINE t == req[r].token
           o == req[r].order
<1> USE DEF Inv
<1>1. req \in [Request -> Local] /\ rows \in [Token -> Order \cup {None}]
      /\ \A s \in Request : Knows(req[s]) /\ HasRow(req[s])
  BY DEF Shapes, RequestSound
<1>2. t \in Token /\ o \in Order /\ (t \in {"collision"} \X Episode \/ t = <<"order", o>>)
  BY <1>1 DEF Knows, Local
<1>3. rows[t] = None /\ rows' = [rows EXCEPT ![t] = o] /\ removed' = removed
  BY DEF Written, Free
<1>4. rows'[t] = o /\ \A u \in Token : u # t => rows'[u] = rows[u]
  BY <1>1, <1>2, <1>3
<1>5. req'[r] = q /\ \A s \in Request : s # r => req'[s] = req[s]
  BY <1>1
<1>6. None \notin Order /\ None \notin Token
  BY InventoryAssumption
<1>7. Shapes'
  BY <1>1, <1>2, <1>3 DEF Shapes
<1>8. \A e \in Episode : e > fault.episode => t # InForce(e)
  BY DEF TokensFresh
<1> HIDE DEF t, o
<1>9. Counted' /\ TaskSound' /\ ModeKeepsItsSessions'
  BY DEF Counted, Owed, TaskSound, ModeKeepsItsSessions
<1>10. OrderRows'
  <2> SUFFICES ASSUME NEW p \in Order PROVE rows'[<<"order", p>>] \in {p, None}
    BY DEF OrderRows
  <2>1. <<"order", p>> \in Token /\ rows[<<"order", p>>] \in {p, None}
    BY DEF Token, OrderRows
  <2>2. t = <<"order", p>> => o = p
    BY <1>2
  <2>3. QED
    BY <1>4, <2>1, <2>2
<1>11. TokensFresh'
  <2>1. \A e \in Episode : e > fault.episode =>
          rows'[InForce(e)] = None /\ InForce(e) \notin removed'
    BY <1>3, <1>4, <1>8 DEF TokensFresh, InForce, Token
  <2>2. \A e \in Episode : e > fault.episode =>
          \A s \in Request : req'[s].token # InForce(e)
    BY <1>5, <1>8 DEF TokensFresh, t
  <2>3. fault.token \in {None, InForce(fault.episode)}
        /\ (fault.token # None => fault.token \notin removed)
    BY DEF TokensFresh
  <2>4. QED
    BY <1>3, <2>1, <2>2, <2>3 DEF TokensFresh, InForce
<1>12. ChangeSound'
  BY DEF ChangeSound, InForce
<1>13. RecorderSound' /\ OwnerHoldsRow'
  <2>1. ASSUME NEW p \in Order, HoldsRow(p) PROVE HoldsRow(p)'
    <3>1. PICK e \in 0 .. fault.episode : rows[InForce(e)] = p
      BY <2>1 DEF HoldsRow, InForce
    <3>a. e \in Episode
      BY InventoryAssumption DEF Shapes, Episode
    <3>b. rows[InForce(e)] # None
      BY <1>6, <3>1
    <3>2. InForce(e) \in Token /\ InForce(e) # t
      BY <1>3, <3>a, <3>b DEF InForce, Token
    <3>3. rows'[InForce(e)] = p
      BY <1>4, <3>1, <3>2
    <3> QED
      BY <3>3 DEF HoldsRow, InForce
  <2>2. \A s \in Request : req[s].pc = "assigning" => req[s].order \in Order
    BY <1>1 DEF Knows
  <2>3. fault.owner \in Order \cup {None} /\ change.owner \in Order \cup {None}
    BY DEF Shapes, Change
  <2>4. RecorderSound'
    BY <1>5, <2>1, <2>2 DEF RecorderSound, Unlocked
  <2>5. OwnerHoldsRow'
    BY <2>1, <2>3 DEF OwnerHoldsRow, ChangeSound
  <2> QED
    BY <2>4, <2>5
<1>14. RequestSound'
  <2> SUFFICES ASSUME NEW s \in Request PROVE Knows(req'[s]) /\ HasRow(req[s])'
    BY DEF RequestSound, Knows, HasRow
  <2>1. CASE s = r
    <3>1. req'[s] = q /\ q.token = t /\ q.order = o
      BY <1>5, <2>1 DEF t, o
    <3>2. Knows(q)
      BY <1>2, <1>6, <3>1 DEF Knows
    <3>3. HasRow(req[s])'
      BY <1>2, <1>4, <1>6, <3>1 DEF HasRow
    <3>4. QED
      BY <3>1, <3>2, <3>3
  <2>2. CASE s # r
    <3>1. req'[s] = req[s] /\ Knows(req[s]) /\ HasRow(req[s]) /\ req[s] \in Local
      BY <1>1, <1>5, <2>2
    <3>2. req[s].token # None => req[s].token \in Token /\ req[s].order \in Order
      BY <3>1 DEF Knows, Local
    <3>3. HasRow(req[s])'
      BY <1>3, <1>4, <1>6, <3>1, <3>2 DEF HasRow
    <3>4. QED
      BY <3>1, <3>3
  <2>3. QED
    BY <2>1, <2>2
<1>15. QED
  BY <1>7, <1>9, <1>10, <1>11, <1>12, <1>13, <1>14

LEMMA TransactKeeps ==
  ASSUME Inv, NEW r \in Request, Transact(r)
  PROVE Inv'
<1> USE DEF Inv
<1>1. req \in [Request -> Local] /\ req[r] \in Local /\ Knows(req[r]) /\ HasRow(req[r])
      /\ pooled \in BOOLEAN /\ (pooled => enabled)
  BY DEF Shapes, RequestSound, ModeKeepsItsSessions
<1>2. UNCHANGED <<fault, change, lease, stopped, changes, enabled, pooled, held, task>>
      /\ req[r].pc = "connected"
  BY DEF Transact, modes, pool
<1>3. \A e \in Episode : e > fault.episode => req[r].token # InForce(e)
  BY DEF TokensFresh
<1>4. req[r].token # None
  BY <1>1, <1>2 DEF Knows
<1> DEFINE Ended == [req[r] EXCEPT !.pc = "finishing", !.session = "none", !.answer = "refused"]
           Returning == [req[r] EXCEPT !.pc = "returning"]
           Rejected == [req[r] EXCEPT !.pc = "returning", !.answer = "refused"]
           Doubled == [req[r] EXCEPT !.pc = "duplicate", !.session = "none"]
<1>5. \A q \in {Ended, Returning, Rejected, Doubled} :
        q \in Local /\ q.token = req[r].token /\ q.order = req[r].order
  <2>1. Ended \in Local /\ Ended.token = req[r].token /\ Ended.order = req[r].order
    BY <1>1 DEF Local
  <2>2. Returning \in Local /\ Returning.token = req[r].token /\ Returning.order = req[r].order
    BY <1>1 DEF Local
  <2>3. Rejected \in Local /\ Rejected.token = req[r].token /\ Rejected.order = req[r].order
    BY <1>1 DEF Local
  <2>4. Doubled \in Local /\ Doubled.token = req[r].token /\ Doubled.order = req[r].order
    BY <1>1 DEF Local
  <2> HIDE DEF Ended, Returning, Rejected, Doubled
  <2>5. QED
    BY <2>1, <2>2, <2>3, <2>4
<1>6. Ended.pc = "finishing" /\ Ended.answer = "refused" /\ Rejected.pc = "returning"
      /\ Rejected.answer = "refused" /\ Returning.pc = "returning"
      /\ Returning.answer = req[r].answer /\ Doubled.pc = "duplicate"
      /\ Doubled.answer = req[r].answer
  BY <1>1 DEF Local
<1>7. \/ Written(r) /\ (req' = [req EXCEPT ![r] = Returning] \/ req' = [req EXCEPT ![r] = Ended])
      \/ /\ UNCHANGED <<rows, removed>>
         /\ \/ req' = [req EXCEPT ![r] = Doubled]
            \/ req' = [req EXCEPT ![r] = Rejected]
            \/ req' = [req EXCEPT ![r] = Ended]
  <2>1. CASE Committed(r)
    BY <2>1 DEF Committed, Step
  <2>2. CASE CommitUnanswered(r)
    BY <2>2 DEF CommitUnanswered, Ends
  <2>3. CASE Duplicate(r)
    BY <2>3 DEF Duplicate, mysql
  <2>4. CASE OutOfStock(r)
    BY <2>4 DEF OutOfStock, mysql
  <2>5. CASE StatementFails(r)
    BY <2>5 DEF StatementFails, Ends, mysql
  <2>6. QED
    BY <2>1, <2>2, <2>3, <2>4, <2>5 DEF Transact
<1> HIDE DEF Ended, Returning, Rejected, Doubled
<1>8. CASE Written(r) /\ req' = [req EXCEPT ![r] = Returning]
  BY <1>2, <1>4, <1>5, <1>6, <1>8, WriteKeeps
<1>9. CASE Written(r) /\ req' = [req EXCEPT ![r] = Ended]
  BY <1>2, <1>4, <1>5, <1>6, <1>9, WriteKeeps
<1>10. ASSUME UNCHANGED <<rows, removed>>, NEW q \in {Doubled, Rejected, Ended},
              req' = [req EXCEPT ![r] = q]
       PROVE Inv'
  <2>1. Knows(q)
    BY <1>1, <1>4, <1>5, <1>6 DEF Knows
  <2>2. HasRow(q)
    BY <1>1, <1>4, <1>5, <1>6 DEF HasRow
  <2>3. \A e \in Episode : e > fault.episode => q.token # InForce(e)
    BY <1>3, <1>5
  <2>4. QED
    <3>1. q.pc # "assigning"
      BY <1>6, <1>10
    <3>2. q \in Local
      BY <1>5, <1>10
    <3>3. pooled' \in BOOLEAN /\ (pooled' => enabled)
      BY <1>2 DEF Shapes, ModeKeepsItsSessions
    <3>4. QED
      BY <1>2, <1>10, <2>1, <2>2, <2>3, <3>1, <3>2, <3>3, MoveKeeps
<1>11. QED
  BY <1>7, <1>8, <1>9, <1>10

(* A request that finds its token in force, without an owner, has a row.    *)
LEMMA RecordKeeps ==
  ASSUME Inv, NEW r \in Request, Record(r)
  PROVE Inv'
<1> DEFINE done == [req[r] EXCEPT !.pc = "finishing", !.session = "none", !.answer = "reserved"]
           next == [req[r] EXCEPT !.pc = "assigning"]
<1> USE DEF Inv
<1>1. req \in [Request -> Local] /\ req[r] \in Local /\ Knows(req[r]) /\ HasRow(req[r])
  BY DEF Shapes, RequestSound
<1>2. UNCHANGED <<fault, change, lease, stopped, changes, enabled, pooled, held, task, rows,
                  removed>>
      /\ req[r].pc = "recording" /\ Unlocked
  BY DEF Record, modes, pool, mysql
<1>3. req[r].token # None /\ req[r].order \in Order
      /\ (rows[req[r].token] = req[r].order \/ req[r].token \in removed)
  BY <1>1, <1>2 DEF Knows, HasRow
<1>4. \A e \in Episode : e > fault.episode => req[r].token # InForce(e)
  BY DEF TokensFresh
<1>5. CASE req' = [req EXCEPT ![r] = done]
  <2>1. done \in Local /\ done.token = req[r].token /\ done.order = req[r].order
        /\ done.pc = "finishing" /\ done.answer = "reserved"
    BY <1>1 DEF Local
  <2>2. pooled' \in BOOLEAN /\ (pooled' => enabled)
    BY <1>2 DEF Shapes, ModeKeepsItsSessions
  <2> HIDE DEF done
  <2>3. Knows(done) /\ HasRow(done)
    BY <1>1, <1>3, <2>1 DEF Knows, HasRow
  <2> QED
    BY <1>2, <1>4, <1>5, <2>1, <2>2, <2>3, MoveKeeps
<1>6. CASE Recorded(r) /\ req' = [req EXCEPT ![r] = next]
  <2>1. next \in Local /\ next.token = req[r].token /\ next.order = req[r].order
        /\ next.pc = "assigning" /\ next.answer = req[r].answer
    BY <1>1 DEF Local
  <2> HIDE DEF next
  <2>2. req'[r] = next /\ \A s \in Request : s # r => req'[s] = req[s]
    BY <1>1, <1>6
  <2>3. fault.owner = None /\ fault.token = InForce(fault.episode)
        /\ rows[InForce(fault.episode)] = req[r].order
    BY <1>3, <1>6 DEF Recorded, TokensFresh
  <2>4. fault.episode \in 0 .. fault.episode
    BY InventoryAssumption DEF Shapes, Episode
  <2>5. HoldsRow(req[r].order)
    BY <2>3, <2>4 DEF HoldsRow, InForce
  <2>6. change.pc \notin {"forgetting", "cleaning", "applying"}
    BY <1>3, <1>6 DEF Recorded, ChangeSound
  <2>7. change.pc = "clearing" => change.owner = None
    BY <2>3 DEF RecorderSound
  <2>8. RecorderSound'
    BY <1>2, <2>1, <2>2, <2>3, <2>5, <2>6, <2>7 DEF RecorderSound, Unlocked, HoldsRow
  <2>9. Shapes'
    BY <1>1, <1>2, <1>6, <2>1 DEF Shapes
  <2>10. Counted' /\ ChangeSound' /\ OrderRows' /\ TaskSound' /\ ModeKeepsItsSessions'
         /\ OwnerHoldsRow'
    BY <1>2 DEF Counted, Owed, ChangeSound, InForce, OrderRows, TaskSound, ModeKeepsItsSessions,
                OwnerHoldsRow, HoldsRow
  <2>11. TokensFresh'
    BY <1>2, <2>1, <2>2 DEF TokensFresh, InForce
  <2>12. RequestSound'
    BY <1>1, <1>2, <1>3, <2>1, <2>2 DEF RequestSound, Knows, HasRow
  <2> QED
    BY <2>8, <2>9, <2>10, <2>11, <2>12
<1>7. QED
  BY <1>5, <1>6 DEF Record, Ends, Step

LEMMA RecordOwnerKeeps ==
  ASSUME Inv, NEW r \in Request, RecordOwner(r)
  PROVE Inv'
<1> DEFINE q == [req[r] EXCEPT !.pc = "finishing", !.session = "none", !.answer = "reserved"]
           f == [fault EXCEPT !.owner = req[r].order]
<1> USE DEF Inv
<1>1. req \in [Request -> Local] /\ req[r] \in Local /\ Knows(req[r]) /\ HasRow(req[r])
      /\ fault \in [mode: Mode, episode: Episode, token: Token \cup {None},
                    owner: Order \cup {None}]
  BY DEF Shapes, RequestSound
<1>2. UNCHANGED <<change, lease, stopped, changes, enabled, pooled, held, task, rows, removed>>
      /\ req[r].pc = "assigning" /\ req' = [req EXCEPT ![r] = q] /\ fault' = f
  BY DEF RecordOwner, Ends, pool, mysql
<1>3. req[r].token # None /\ req[r].order \in Order
      /\ (rows[req[r].token] = req[r].order \/ req[r].token \in removed)
  BY <1>1, <1>2 DEF Knows, HasRow
<1>4. q \in Local /\ q.token = req[r].token /\ q.order = req[r].order
      /\ q.pc = "finishing" /\ q.answer = "reserved"
  BY <1>1 DEF Local
<1>5. f.mode = fault.mode /\ f.episode = fault.episode /\ f.token = fault.token
      /\ f.owner = req[r].order
  BY <1>1
<1>6. f \in [mode: Mode, episode: Episode, token: Token \cup {None}, owner: Order \cup {None}]
  BY <1>1, <1>3
<1>7. req'[r] = q /\ \A s \in Request : s # r => req'[s] = req[s]
  BY <1>1, <1>2
<1> HIDE DEF q, f
<1>8. Shapes'
  BY <1>1, <1>2, <1>4, <1>6 DEF Shapes
<1>9. Counted' /\ OrderRows' /\ TaskSound' /\ ModeKeepsItsSessions' /\ ChangeSound'
  BY <1>2, <1>5 DEF Counted, Owed, OrderRows, TaskSound, ModeKeepsItsSessions, ChangeSound,
                    InForce
<1>10. TokensFresh'
  BY <1>2, <1>4, <1>5, <1>7 DEF TokensFresh, InForce
<1>11. HoldsRow(req[r].order) /\ ~Unlocked /\ (change.pc \in Taking => change.pc # "cleaning")
  BY <1>2 DEF RecorderSound, Unlocked
<1>12. OwnerHoldsRow'
  BY <1>2, <1>5, <1>11 DEF OwnerHoldsRow, HoldsRow, Taking
<1>13. RecorderSound'
  BY <1>2, <1>4, <1>5, <1>7, <1>11 DEF RecorderSound, Unlocked, Taking
<1>14. RequestSound'
  BY <1>1, <1>2, <1>3, <1>4, <1>7 DEF RequestSound, Knows, HasRow
<1>15. QED
  BY <1>8, <1>9, <1>10, <1>12, <1>13, <1>14

-----------------------------------------------------------------------------
(* The steps of set_failure_mode.                                           *)
LEMMA ReleaseKeeps ==
  ASSUME Inv, (\E mode \in Modes : OperatorChanges(mode)) \/ LeaseChanges
  PROVE Inv'
<1> USE DEF Inv
<1> PICK by \in {"operator", "lease"}, mode \in Mode :
      Release(by, mode) /\ (by = "operator" => \E m \in Modes : OperatorChanges(m))
                        /\ (by = "lease" => LeaseChanges /\ mode = "normal")
  BY ModesAssumption DEF OperatorChanges, LeaseChanges, Mode
<1>1. UNCHANGED <<fault, lease, held, task, req, rows, removed>>
      /\ enabled' = FALSE /\ pooled' = FALSE /\ stopped' = stopped \cup {fault.episode}
      /\ change.pc = "none"
      /\ change' = [NoChange EXCEPT !.pc = "releasing", !.by = by, !.mode = mode]
  BY DEF OperatorChanges, LeaseChanges, Release, mysql
<1>2. NoChange \in Change
  BY DEF NoChange, Change, Mode
<1>3. change' \in Change /\ change'.pc = "releasing" /\ change'.by = by /\ change'.mode = mode
  BY <1>1, <1>2 DEF Change
<1>4. changes' \in 0 .. MaxChanges /\ changes \in 0 .. MaxChanges
  BY InventoryAssumption DEF OperatorChanges, LeaseChanges, Shapes
<1>5. Shapes'
  BY <1>1, <1>3, <1>4 DEF Shapes
<1>6. Counted'
  <2>1. fault.episode \in Nat /\ Owed \in Nat /\ fault.episode + Owed <= 2 * changes
    BY InventoryAssumption DEF Shapes, Episode, Counted, Owed
  <2>2. CASE by = "operator"
    <3>1. Owed' = Owed + 2 /\ changes' = changes + 1
      BY <1>1, <1>3, <2>2 DEF Owed, Unapplied, OperatorChanges
    <3>2. QED
      BY <1>1, <1>4, <2>1, <3>1 DEF Counted
  <2>3. CASE by = "lease"
    <3>1. Owed' = Owed /\ changes' = changes
      BY <1>1, <1>3, <2>3 DEF Owed, Unapplied, LeaseChanges
    <3>2. QED
      BY <1>1, <2>1, <3>1 DEF Counted
  <2>4. QED
    BY <2>2, <2>3
<1>7. TokensFresh' /\ RequestSound' /\ OrderRows'
  BY <1>1 DEF TokensFresh, InForce, RequestSound, Knows, HasRow, OrderRows
<1>8. ChangeSound'
  BY <1>1, <1>3 DEF ChangeSound, LeaseChanges, Taking
<1>9. TaskSound'
  BY <1>1, <1>3 DEF TaskSound
<1>10. ModeKeepsItsSessions' /\ RecorderSound' /\ OwnerHoldsRow'
  BY <1>1, <1>3 DEF ModeKeepsItsSessions, RecorderSound, Unlocked, OwnerHoldsRow, HoldsRow
<1>11. QED
  BY <1>5, <1>6, <1>7, <1>8, <1>9, <1>10

LEMMA LooksKeeps == ASSUME Inv, LeaseLooks PROVE Inv'
<1> USE DEF Inv
<1>1. UNCHANGED <<fault, change, stopped, changes, enabled, pooled, held, task, req, rows, removed>>
      /\ lease.runs /\ ~lease.read /\ lease' = [lease EXCEPT !.read = TRUE]
  BY DEF LeaseLooks, pool, mysql
<1>2. lease' \in [runs: BOOLEAN, read: BOOLEAN] /\ lease'.runs /\ lease'.read
  BY <1>1 DEF Shapes
<1>3. Shapes'
  BY <1>1, <1>2 DEF Shapes
<1>4. change.by # "lease" \/ change.pc = "none"
  BY <1>1 DEF ChangeSound
<1>5. Counted'
  BY <1>1, <1>2 DEF Counted, Owed
<1>6. TokensFresh' /\ RequestSound' /\ OrderRows' /\ TaskSound'
  BY <1>1 DEF TokensFresh, InForce, RequestSound, Knows, HasRow, OrderRows, TaskSound
<1>7. ChangeSound' /\ ModeKeepsItsSessions' /\ RecorderSound' /\ OwnerHoldsRow'
  BY <1>1, <1>4 DEF ChangeSound, InForce, ModeKeepsItsSessions, RecorderSound, Unlocked,
                    OwnerHoldsRow, HoldsRow
<1>8. QED
  BY <1>3, <1>5, <1>6, <1>7

LEMMA ReadKeeps == ASSUME Inv, ReleaseHeld \/ ReadToken PROVE Inv'
<1> USE DEF Inv
<1>1. UNCHANGED <<fault, lease, stopped, changes, enabled, pooled, task, req, rows, removed>>
      /\ held' \in {held, 0} /\ change \in Change
      /\ (change.pc = "releasing" => held' = 0) /\ change.pc \in {"releasing", "reading"}
  BY DEF ReleaseHeld, ReadToken, Changing, pool, mysql, Shapes
<1>2. fault.token \in Token \cup {None} /\ fault.owner \in Order \cup {None}
  BY DEF Shapes
<1>3. change' \in Change /\ change'.by = change.by /\ change'.mode = change.mode
      /\ change'.pc \in {"reading", "clearing"}
      /\ (change'.pc = "clearing" => change'.token = fault.token /\ change'.owner = fault.owner)
  BY <1>1, <1>2 DEF ReleaseHeld, ReadToken, Changing, Change
<1>4. Shapes'
  BY <1>1, <1>3 DEF Shapes
<1>5. Counted'
  BY <1>1, <1>3 DEF Counted, Owed, Unapplied
<1>6. TokensFresh' /\ RequestSound' /\ OrderRows'
  BY <1>1 DEF TokensFresh, InForce, RequestSound, Knows, HasRow, OrderRows
<1>7. ChangeSound'
  BY <1>1, <1>3 DEF ChangeSound, InForce, Taking, TokensFresh
<1>8. TaskSound' /\ ModeKeepsItsSessions' /\ OwnerHoldsRow'
  BY <1>1, <1>3 DEF TaskSound, ModeKeepsItsSessions, OwnerHoldsRow, HoldsRow
<1>9. RecorderSound'
  BY <1>1, <1>3 DEF RecorderSound, Unlocked, HoldsRow
<1>10. QED
  BY <1>4, <1>5, <1>6, <1>7, <1>8, <1>9

LEMMA ClearKeeps == ASSUME Inv, ClearToken \/ ClearOwner PROVE Inv'
<1> USE DEF Inv
<1>1. UNCHANGED <<lease, stopped, changes, enabled, pooled, held, task, req, rows, removed>>
      /\ change \in Change /\ change.pc \in {"clearing", "forgetting"}
  BY DEF ClearToken, ClearOwner, Changing, pool, mysql, Shapes
<1>2. fault' \in [mode: Mode, episode: Episode, token: Token \cup {None},
                 owner: Order \cup {None}]
      /\ fault'.mode = fault.mode /\ fault'.episode = fault.episode
      /\ fault'.token = None
      /\ (change.pc = "clearing" => fault'.owner = fault.owner)
      /\ (change.pc = "forgetting" => fault'.owner = None)
  BY DEF ClearToken, ClearOwner, Changing, Shapes, ChangeSound
<1>3. change' \in Change /\ change'.by = change.by /\ change'.mode = change.mode
      /\ change'.token = change.token /\ change'.owner = change.owner
      /\ (change.pc = "clearing" => change'.pc = "forgetting")
      /\ (change.pc = "forgetting" => change'.pc \in {"cleaning", "applying"})
      /\ (change'.pc = "cleaning" => change.token # None /\ change.owner # None)
  BY <1>1 DEF ClearToken, ClearOwner, Changing, Change
<1>4. Shapes'
  BY <1>1, <1>2, <1>3 DEF Shapes
<1>5. Counted'
  BY <1>1, <1>2, <1>3 DEF Counted, Owed, Unapplied
<1>6. TokensFresh' /\ RequestSound' /\ OrderRows'
  BY <1>1, <1>2 DEF TokensFresh, InForce, RequestSound, Knows, HasRow, OrderRows
<1>7. ChangeSound'
  BY <1>1, <1>2, <1>3 DEF ChangeSound, Taking, InForce
<1>8. RecorderSound'
  BY <1>1, <1>2, <1>3 DEF RecorderSound, Unlocked, HoldsRow
<1>9. OwnerHoldsRow'
  <2>1. \A o : HoldsRow(o)' <=> HoldsRow(o)
    BY <1>1, <1>2 DEF HoldsRow
  <2>2. change'.pc = "cleaning" => fault.owner = change.owner
    BY <1>1, <1>3 DEF RecorderSound
  <2> QED
    BY <1>1, <1>2, <1>3, <2>1, <2>2 DEF OwnerHoldsRow
<1>10. TaskSound' /\ ModeKeepsItsSessions'
  BY <1>1, <1>2, <1>3 DEF TaskSound, ModeKeepsItsSessions
<1>11. QED
  BY <1>4, <1>5, <1>6, <1>7, <1>8, <1>9, <1>10

(* The row of the mode that ends goes: what was told of it is remembered in *)
(* removed.                                                                 *)
LEMMA CleanupKeeps == ASSUME Inv, Cleanup PROVE Inv'
<1> DEFINE t == change.token
<1> USE DEF Inv
<1>1. UNCHANGED <<fault, lease, stopped, changes, enabled, pooled, held, task, req>>
      /\ change \in Change /\ change.pc = "cleaning"
  BY DEF Cleanup, Changing, pool, Shapes
<1>2. t = InForce(fault.episode) /\ t \in Token /\ fault.token = None
      /\ fault.owner = None /\ Unlocked
  <2>1. fault.episode \in Episode
    BY DEF Shapes
  <2>2. t = InForce(fault.episode) /\ fault.token = None /\ fault.owner = None /\ Unlocked
    BY <1>1 DEF ChangeSound, Taking, RecorderSound
  <2>3. QED
    BY <2>1, <2>2 DEF InForce, Token
<1>3. change' \in Change /\ change'.by = change.by /\ change'.mode = change.mode
      /\ change'.pc = "applying"
  BY <1>1 DEF Cleanup, Changing, Change
<1>4. rows \in [Token -> Order \cup {None}] /\ removed \subseteq Token
      /\ rows' \in [Token -> Order \cup {None}] /\ removed' \subseteq Token
  BY <1>2 DEF Cleanup, Deleted, mysql, Shapes
<1>5. \A u \in Token : u # t => rows'[u] = rows[u] /\ (u \in removed' <=> u \in removed)
  BY <1>2, <1>4 DEF Cleanup, Deleted, mysql
<1>6. rows'[t] = rows[t] \/ t \in removed'
  BY <1>2, <1>4 DEF Cleanup, Deleted, mysql
<1>7. removed \subseteq removed'
  BY <1>2, <1>4 DEF Cleanup, Deleted, mysql
<1> HIDE DEF t
<1>8. Shapes'
  BY <1>1, <1>3, <1>4 DEF Shapes
<1>9. Counted'
  BY <1>1, <1>3 DEF Counted, Owed, Unapplied
<1>10. TokensFresh'
  <2>1. \A e \in Episode : InForce(e) \in Token /\ (e > fault.episode => InForce(e) # t)
    BY <1>2, InventoryAssumption DEF InForce, Token, Episode, Shapes
  <2>2. \A e \in Episode : e > fault.episode =>
          rows'[InForce(e)] = None /\ InForce(e) \notin removed'
    BY <1>5, <2>1 DEF TokensFresh
  <2>3. QED
    BY <1>1, <1>2, <2>2 DEF TokensFresh, InForce
<1>11. OrderRows'
  <2> SUFFICES ASSUME NEW o \in Order PROVE rows'[<<"order", o>>] \in {o, None}
    BY DEF OrderRows
  <2>1. <<"order", o>> \in Token /\ <<"order", o>> # t
    BY <1>2 DEF Token, InForce
  <2>2. QED
    BY <1>5, <2>1 DEF OrderRows
<1>12. RequestSound'
  <2> SUFFICES ASSUME NEW r \in Request PROVE Knows(req[r]) /\ HasRow(req[r])'
    BY <1>1 DEF RequestSound, Knows, HasRow
  <2>1. Knows(req[r]) /\ HasRow(req[r]) /\ req[r].token \in Token \cup {None}
    BY DEF RequestSound, Shapes, Local
  <2>2. QED
    BY <1>1, <1>5, <1>6, <1>7, <2>1 DEF HasRow
<1>13. ChangeSound' /\ RecorderSound' /\ OwnerHoldsRow'
  BY <1>1, <1>2, <1>3 DEF ChangeSound, Taking, RecorderSound, Unlocked, OwnerHoldsRow
<1>14. TaskSound' /\ ModeKeepsItsSessions'
  BY <1>1, <1>3 DEF TaskSound, ModeKeepsItsSessions
<1>15. QED
  BY <1>8, <1>9, <1>10, <1>11, <1>12, <1>13, <1>14

LEMMA ApplyKeeps == ASSUME Inv, Apply PROVE Inv'
<1> DEFINE e == fault.episode + 1
<1> USE DEF Inv
<1>1. UNCHANGED <<stopped, changes, enabled, pooled, held, task, req, rows, removed>>
      /\ change \in Change /\ change.pc = "applying"
  BY DEF Apply, Changing, pool, mysql, Shapes
<1>2. change' \in Change /\ change'.by = change.by /\ change'.mode = change.mode
      /\ change'.pc = "enabling" /\ change.mode \in Mode /\ change.by \in {"operator", "lease"}
  BY <1>1 DEF Apply, Changing, Change
<1>3. lease' \in [runs: BOOLEAN, read: BOOLEAN] /\ lease'.read = lease.read
      /\ lease'.runs = (change.mode # "normal") /\ lease \in [runs: BOOLEAN, read: BOOLEAN]
  BY DEF Apply, Shapes
<1>4. fault'.mode = change.mode /\ fault'.episode = e /\ fault'.owner = fault.owner
      /\ fault'.token \in {None, InForce(e)}
  BY DEF Apply, InForce
<1>5. fault.episode \in Nat /\ changes \in 0 .. MaxChanges /\ Owed \in Nat
      /\ fault.episode + Owed <= 2 * changes
  BY InventoryAssumption DEF Shapes, Episode, Counted, Owed
<1>6. Owed' + 1 <= Owed
  <2>1. CASE change.by = "operator"
    BY <1>1, <1>2, <1>3, <2>1 DEF Owed, Unapplied
  <2>2. CASE change.by = "lease"
    <3>1. lease.read /\ change.mode = "normal"
      BY <1>1, <2>2 DEF ChangeSound
    <3>2. Owed = 1 /\ Owed' = 0
      BY <1>1, <1>2, <1>3, <2>2, <3>1 DEF Owed, Unapplied
    <3>3. QED
      BY <3>2
  <2>3. QED
    BY <1>2, <2>1, <2>2
<1>7. Owed' \in Nat
  BY DEF Owed
<1>8. e \in Episode /\ Counted'
  BY <1>1, <1>4, <1>5, <1>6, <1>7, InventoryAssumption DEF Counted, Episode
<1>9. fault' \in [mode: Mode, episode: Episode, token: Token \cup {None},
                 owner: Order \cup {None}]
  <2>1. (IF change.mode = "token-collision" THEN <<"collision", e>> ELSE None)
          \in Token \cup {None}
    BY <1>8 DEF Token
  <2> HIDE DEF e
  <2>2. QED
    BY <1>1, <1>8, <2>1 DEF Apply, e, Shapes, Change
<1>10. Shapes'
  BY <1>1, <1>2, <1>3, <1>9 DEF Shapes
<1>11. TokensFresh'
  <2>1. \A d \in Episode : d >= e =>
          /\ rows[InForce(d)] = None /\ InForce(d) \notin removed
          /\ \A r \in Request : req[r].token # InForce(d)
    BY <1>5, InventoryAssumption DEF TokensFresh, Episode
  <2>2. \A d \in Episode : d > e => d >= e
    BY <1>5, InventoryAssumption DEF Episode
  <2>3. InForce(e) \notin removed
    BY <1>5, <1>8, <2>1
  <2> HIDE DEF e
  <2>4. QED
    BY <1>1, <1>4, <2>1, <2>2, <2>3 DEF TokensFresh, InForce
<1>12. RequestSound' /\ OrderRows'
  BY <1>1 DEF RequestSound, Knows, HasRow, OrderRows
<1>13. ChangeSound'
  BY <1>1, <1>2, <1>3, <1>4 DEF ChangeSound, Taking
<1>14. RecorderSound' /\ OwnerHoldsRow'
  <2>1. \A o : HoldsRow(o) => HoldsRow(o)'
    BY <1>1, <1>4, <1>5 DEF HoldsRow
  <2> QED
    BY <1>1, <1>2, <1>4, <2>1 DEF RecorderSound, Unlocked, OwnerHoldsRow
<1>15. TaskSound' /\ ModeKeepsItsSessions'
  BY <1>1, <1>2, <1>4 DEF TaskSound, ModeKeepsItsSessions, ChangeSound
<1>16. QED
  BY <1>8, <1>10, <1>11, <1>12, <1>13, <1>14, <1>15

LEMMA EnableKeeps == ASSUME Inv, Enable PROVE Inv'
<1> DEFINE e == fault.episode
<1> USE DEF Inv
<1>1. UNCHANGED <<fault, stopped, changes, pooled, held, req, rows, removed>>
      /\ change \in Change /\ change.pc = "enabling" /\ change' = NoChange
      /\ enabled' = (change.mode = "normal")
  BY DEF Enable, mysql, Shapes
<1>2. lease' = [lease EXCEPT !.read = @ /\ change.by # "lease"]
  BY DEF Enable
<1>3. lease \in [runs: BOOLEAN, read: BOOLEAN] /\ lease' \in [runs: BOOLEAN, read: BOOLEAN]
      /\ lease'.runs = lease.runs /\ lease'.read = (lease.read /\ change.by # "lease")
  BY <1>2 DEF Shapes
<1>4. NoChange \in Change /\ NoChange.pc = "none"
  BY DEF NoChange, Change, Mode
<1>5. TaskOf(change.mode) \in Task
      /\ (TaskOf(change.mode).kind = "storm" => change.mode = "connection-saturation")
  BY DEF TaskOf, Task
<1>6. e \in Episode /\ task' = [task EXCEPT ![e] = TaskOf(change.mode)]
      /\ task \in [Episode -> Task]
  BY DEF Enable, Shapes
<1>7. task'[e] = TaskOf(change.mode) /\ \A d \in Episode : d # e => task'[d] = task[d]
  BY <1>6
<1>8. Shapes'
  <2>1. task' \in [Episode -> Task]
    BY <1>5, <1>6
  <2>2. QED
    BY <1>1, <1>3, <1>4, <2>1 DEF Shapes
<1>9. Counted'
  BY <1>1, <1>3, <1>4 DEF Counted, Owed, Unapplied, Change
<1>10. TokensFresh' /\ RequestSound' /\ OrderRows'
  BY <1>1 DEF TokensFresh, InForce, RequestSound, Knows, HasRow, OrderRows
<1>11. fault.mode = change.mode /\ ~enabled /\ ~pooled /\ held = 0
  BY <1>1 DEF ChangeSound, TaskSound, ModeKeepsItsSessions
<1>12. ChangeSound' /\ RecorderSound' /\ OwnerHoldsRow' /\ ModeKeepsItsSessions'
  BY <1>1, <1>4, <1>11 DEF ChangeSound, Taking, RecorderSound, Unlocked, OwnerHoldsRow, HoldsRow,
                           ModeKeepsItsSessions, Shapes
<1>13. TaskSound'
  BY <1>1, <1>4, <1>5, <1>6, <1>7, <1>11 DEF TaskSound
<1>14. QED
  BY <1>8, <1>9, <1>10, <1>12, <1>13

-----------------------------------------------------------------------------
(* The steps of the tasks: only the storm of the mode in force holds more.  *)
LEMMA TaskKeeps == ASSUME Inv, NEW e \in Episode, TaskStep(e) PROVE Inv'
<1> USE DEF Inv
<1>1. UNCHANGED <<fault, change, lease, stopped, changes, enabled, pooled, req, rows, removed>>
  BY DEF TaskStep, TaskStops, TaskAdmitted, TaskOpens, TaskCannotOpen, TaskCloses, StormKeeps,
         StormEnds, modes, pool, mysql
<1>2. task \in [Episode -> Task] /\ task[e] \in Task
  BY DEF Shapes
<1>3. PICK pc \in {"idle", "admitted", "open", "dead"} : task' = [task EXCEPT ![e].pc = pc]
  BY DEF TaskStep, TaskStops, TaskAdmitted, TaskOpens, TaskCannotOpen, TaskCloses, StormKeeps,
         StormHolds, StormEnds, Becomes, Again
<1>4. task[e].pc # "none"
  BY <1>2 DEF TaskStep, TaskStops, TaskAdmitted, TaskOpens, TaskCannotOpen, TaskCloses, StormKeeps,
              StormEnds, ReadyToOpen
<1>5. held' = held \/ (task[e].kind = "storm" /\ e \notin stopped)
  BY DEF TaskStep, TaskStops, TaskAdmitted, TaskOpens, TaskCannotOpen, TaskCloses, StormKeeps,
         StormHolds, StormEnds
<1>6. [task[e] EXCEPT !.pc = pc] \in Task /\ [task[e] EXCEPT !.pc = pc].kind = task[e].kind
  BY <1>2 DEF Task
<1>7. task'[e] = [task[e] EXCEPT !.pc = pc] /\ \A d \in Episode : d # e => task'[d] = task[d]
  BY <1>2, <1>3
<1>8. task' \in [Episode -> Task]
  BY <1>2, <1>3, <1>6
<1>9. Shapes'
  BY <1>1, <1>8 DEF Shapes
<1>10. Counted' /\ ChangeSound' /\ OrderRows' /\ RecorderSound' /\ OwnerHoldsRow'
  BY <1>1 DEF Counted, Owed, ChangeSound, InForce, OrderRows, RecorderSound, Unlocked,
              OwnerHoldsRow, HoldsRow
<1>11. TokensFresh' /\ RequestSound'
  BY <1>1 DEF TokensFresh, InForce, RequestSound, Knows, HasRow
<1>12. task[e].kind = "storm" /\ e \notin stopped =>
         change.pc = "none" /\ fault.mode = "connection-saturation"
  BY <1>4 DEF TaskSound
<1>13. TaskSound'
  <2>1. ASSUME NEW d \in Episode, task'[d].pc # "none", d \notin stopped
        PROVE d = fault.episode /\ change.pc = "none"
              /\ (task'[d].kind = "storm" => fault.mode = "connection-saturation")
    BY <1>4, <1>6, <1>7, <2>1 DEF TaskSound
  <2>2. change.pc \notin {"none", "releasing"} => held' = 0
    BY <1>5, <1>12 DEF TaskSound
  <2>3. QED
    BY <1>1, <2>1, <2>2 DEF TaskSound
<1>14. ModeKeepsItsSessions'
  BY <1>1, <1>5, <1>12 DEF ModeKeepsItsSessions
<1>15. QED
  BY <1>9, <1>10, <1>11, <1>13, <1>14

-----------------------------------------------------------------------------
LEMMA StepKeeps == Inv /\ [Next]_vars => Inv'
<1> SUFFICES ASSUME Inv, [Next]_vars PROVE Inv'
  OBVIOUS
<1>1. CASE UNCHANGED vars
  BY <1>1 DEF vars, modes, pool, mysql, Inv, Shapes, Counted, Owed, TokensFresh, InForce,
              ChangeSound, RequestSound, Knows, HasRow, OrderRows, TaskSound,
              ModeKeepsItsSessions, RecorderSound, Unlocked, OwnerHoldsRow, HoldsRow
<1>2. CASE Next
  BY <1>2, BeginKeeps, SessionKeeps, TransactKeeps, RecordKeeps, RecordOwnerKeeps,
     ReleaseKeeps, LooksKeeps, ReadKeeps, ClearKeeps, CleanupKeeps, ApplyKeeps, EnableKeeps,
     TaskKeeps
     DEF Next, RequestStep, ChangeStep
<1>3. QED
  BY <1>1, <1>2

THEOREM Invariance == Spec => []Inv
BY InitHolds, StepKeeps, PTL DEF Spec

(* However late a reservation returns its session or the storm opens one,   *)
(* neither outlives the mode it belongs to.                                 *)
THEOREM SessionsEndWithMode == Spec => []ModeKeepsItsSessions
BY Invariance, PTL DEF Inv

(* The owner on record, and the one whose row a mode change is about to     *)
(* delete, has a row under a collision token, although the record may come  *)
(* after the token has gone.                                                *)
THEOREM OwnerIsHolder == Spec => []OwnerHoldsRow
BY Invariance, PTL DEF Inv

(* Who is told that an order is reserved can rely on a row that was written *)
(* for it, with any number of requests, retries, faults and mode changes.   *)
THEOREM ReservedIsWritten == Spec => []ReservedMeansWritten
<1>1. Inv => ReservedMeansWritten
  BY DEF Inv, OrderRows, RequestSound, HasRow, ReservedMeansWritten
<1>2. QED
  BY <1>1, Invariance, PTL
-----------------------------------------------------------------------------
(* The sum of the stock.  The token whose row a mode change deletes has not *)
(* been removed before, so that the row is counted once.                    *)
Taken == {t \in Token : rows[t] # None}

StockInv ==
  /\ stock \in Nat /\ IsFiniteSet(Taken) /\ IsFiniteSet(removed)
  /\ stock + Cardinality(Taken) + Cardinality(removed) = Stock
  /\ change.pc \in Taking /\ change.token # None => change.token \notin removed

LEMMA StockInitially == Init => StockInv
<1> SUFFICES ASSUME Init PROVE StockInv
  OBVIOUS
<1>1. Taken = {} /\ removed = {} /\ stock = Stock /\ change.pc = "none"
  BY DEF Init, Taken, NoChange
<1>2. QED
  BY <1>1, FS_EmptySet, InventoryAssumption DEF StockInv

LEMMA WriteCounts ==
  ASSUME Inv, StockInv, NEW r \in Request, Written(r), req[r].pc = "connected",
         UNCHANGED change
  PROVE  StockInv'
<1> DEFINE t == req[r].token
<1>1. t \in Token /\ req[r].order \in Order /\ rows \in [Token -> Order \cup {None}]
  BY DEF Inv, Shapes, RequestSound, Knows, Local
<1>2. rows[t] = None /\ rows' = [rows EXCEPT ![t] = req[r].order] /\ stock' = stock - 1
      /\ stock > 0 /\ removed' = removed
  BY DEF Written, Free
<1> HIDE DEF t
<1>3. Taken' = Taken \cup {t} /\ t \notin Taken
  BY <1>1, <1>2, InventoryAssumption DEF Taken
<1>4. IsFiniteSet(Taken') /\ Cardinality(Taken') = Cardinality(Taken) + 1
  BY <1>3, FS_AddElement DEF StockInv
<1>5. Cardinality(Taken) \in Nat /\ Cardinality(removed) \in Nat
  BY FS_CardinalityType DEF StockInv
<1>6. QED
  BY <1>2, <1>4, <1>5, InventoryAssumption DEF StockInv

LEMMA DeletionCounts ==
  ASSUME Inv, StockInv, Cleanup
  PROVE  StockInv'
<1> DEFINE t == change.token
<1>1. change.pc = "cleaning" /\ change'.pc = "applying"
      /\ (Deleted \/ UNCHANGED mysql)
  BY DEF Cleanup, Changing, Inv, Shapes, Change
<1>2. change.owner # None /\ t = InForce(fault.episode) /\ t \notin removed
  BY <1>1 DEF Inv, ChangeSound, Taking, StockInv
<1>3. t \in Token /\ rows \in [Token -> Order \cup {None}]
  BY <1>2 DEF Inv, Shapes, InForce, Token
<1>4. CASE UNCHANGED mysql \/ (Deleted /\ rows[t] # change.owner)
  <2>1. UNCHANGED mysql
    BY <1>3, <1>4 DEF Deleted, mysql
  <2> QED
    BY <1>1, <2>1 DEF mysql, StockInv, Taken, Taking
<1>5. CASE Deleted /\ rows[t] = change.owner
  <2>1. rows' = [rows EXCEPT ![t] = None] /\ removed' = removed \cup {t} /\ stock' = stock
    BY <1>2, <1>3, <1>5 DEF Deleted
  <2> HIDE DEF t
  <2>2. Taken' = Taken \ {t} /\ t \in Taken
    <3>1. rows[t] # None
      BY <1>2, <1>5
    <3>2. QED
      BY <1>3, <2>1, <3>1 DEF Taken
  <2>3. IsFiniteSet(Taken') /\ Cardinality(Taken') = Cardinality(Taken) - 1
    BY <2>2, FS_RemoveElement DEF StockInv
  <2>4. IsFiniteSet(removed') /\ Cardinality(removed') = Cardinality(removed) + 1
    BY <1>2, <2>1, FS_AddElement DEF StockInv
  <2>5. Cardinality(Taken) \in Nat /\ Cardinality(removed) \in Nat
    BY FS_CardinalityType DEF StockInv
  <2>6. QED
    BY <1>1, <2>1, <2>3, <2>4, <2>5, InventoryAssumption DEF StockInv, Taking
<1>6. QED
  BY <1>1, <1>4, <1>5

(* The other steps leave MySQL alone; only ReadToken takes up a token.      *)
LEMMA StockUntouched ==
  ASSUME Inv, StockInv, UNCHANGED mysql,
         \/ UNCHANGED change \/ change'.pc \notin Taking
         \/ ClearToken \/ ClearOwner \/ ReadToken
  PROVE  StockInv'
<1>1. UNCHANGED <<rows, stock, removed>> /\ change \in Change
  BY DEF mysql, Inv, Shapes
<1>2. change'.pc \in Taking /\ change'.token # None => change'.token \notin removed
  <2>1. CASE UNCHANGED change \/ change'.pc \notin Taking
    BY <2>1 DEF StockInv
  <2>2. CASE ClearToken \/ ClearOwner
    <3>1. change'.token = change.token /\ change.pc \in Taking
      BY <1>1, <2>2 DEF ClearToken, ClearOwner, Changing, Change, Taking
    <3>2. QED
      BY <3>1 DEF StockInv
  <2>3. CASE ReadToken
    <3>1. change'.token = fault.token
      BY <1>1, <2>3 DEF ReadToken, Change
    <3>2. QED
      BY <3>1 DEF Inv, TokensFresh
  <2>4. QED
    BY <2>1, <2>2, <2>3
<1>3. Taken' = Taken
  BY <1>1 DEF Taken
<1>4. QED
  BY <1>1, <1>2, <1>3 DEF StockInv

LEMMA StockStep == Inv /\ StockInv /\ [Next]_vars => StockInv'
<1> SUFFICES ASSUME Inv, StockInv, [Next]_vars PROVE StockInv'
  OBVIOUS
<1>1. CASE UNCHANGED vars
  BY <1>1, StockUntouched DEF vars, modes
<1>2. ASSUME NEW r \in Request,
             (\E o \in Order : Begin(r, o)) \/ RejectKey(r) \/ RequestStep(r)
      PROVE  StockInv'
  <2>1. UNCHANGED change
    BY <1>2 DEF RequestStep, Begin, RejectKey, Admit, Busy, TakeToken, Connect, Transact,
                ReturnSession, Record, RecordOwner, LookUp, Finish, modes
  <2>2. UNCHANGED mysql \/ (Written(r) /\ req[r].pc = "connected")
    BY <1>2 DEF RequestStep, Begin, RejectKey, Admit, Busy, TakeToken, Connect, Transact,
                ReturnSession, Record, RecordOwner, LookUp, Finish, Committed, CommitUnanswered,
                Duplicate, OutOfStock, StatementFails
  <2>3. QED
    BY <2>1, <2>2, StockUntouched, WriteCounts
<1>3. ASSUME (\E mode \in Modes : OperatorChanges(mode)) \/ LeaseLooks \/ LeaseChanges
      PROVE  StockInv'
  <2>1. UNCHANGED mysql /\ (UNCHANGED change \/ change'.pc = "releasing")
    BY <1>3 DEF OperatorChanges, LeaseLooks, LeaseChanges, Release, NoChange
  <2>2. QED
    BY <2>1, StockUntouched DEF Taking
<1>4. ASSUME ReleaseHeld \/ Apply \/ Enable PROVE StockInv'
  <2>1. UNCHANGED mysql /\ change'.pc \notin Taking
    BY <1>4 DEF ReleaseHeld, Apply, Enable, Changing, NoChange, Inv, Shapes, Change, Taking
  <2>2. QED
    BY <2>1, StockUntouched
<1>5. ASSUME ReadToken \/ ClearToken \/ ClearOwner PROVE StockInv'
  <2>1. UNCHANGED mysql
    BY <1>5 DEF ReadToken, ClearToken, ClearOwner
  <2>2. QED
    BY <1>5, <2>1, StockUntouched
<1>6. ASSUME NEW e \in Episode, TaskStep(e) PROVE StockInv'
  <2>1. UNCHANGED <<mysql, change>>
    BY <1>6 DEF TaskStep, TaskStops, TaskAdmitted, TaskOpens, TaskCannotOpen, TaskCloses,
                StormKeeps, StormEnds, modes
  <2>2. QED
    BY <2>1, StockUntouched
<1>7. QED
  BY <1>1, <1>2, <1>3, <1>4, <1>5, <1>6, DeletionCounts DEF Next, ChangeStep

(* The stock has gone down once for every reservation written, deleted ones *)
(* included, whatever commits unanswered and however often it is retried.   *)
THEOREM StockIsAccounted == Spec => []StockAddsUp
<1>1. Spec => []StockInv
  BY StockInitially, StockStep, Invariance, PTL DEF Spec
<1>2. StockInv => StockAddsUp
  BY DEF StockInv, StockAddsUp, Taken
<1>3. QED
  BY <1>1, <1>2, PTL
-----------------------------------------------------------------------------
(* The reservation slot is used by one request or one reconciliation at a   *)
(* time, and so the pooled session by one request.                          *)
Within == {"admitted", "connecting", "connected", "duplicate", "returning", "recording",
           "assigning", "finishing"}
Holding == {"connected", "returning"}

Reconciles(e) == task[e].kind = "reconcile" /\ task[e].pc \in {"admitted", "open"}

OneInSlot ==
  /\ slot \in {0, 1}
  /\ \A r \in Request : req[r].pc \in Within =>
       /\ slot = 0
       /\ \A s \in Request : req[s].pc \in Within => s = r
       /\ \A e \in Episode : ~Reconciles(e)
  /\ \A e \in Episode : Reconciles(e) =>
       slot = 0 /\ \A d \in Episode : Reconciles(d) => d = e

(* A session is held between Connect and ReturnSession, and the pooled one  *)
(* is not lent out.                                                         *)
SessionHeld ==
  /\ \A r \in Request : req[r].session # "none" <=> req[r].pc \in Holding
  /\ pooled => \A r \in Request : req[r].session # "reusable"

(* The task of a mode is started once.                                      *)
TasksFresh ==
  /\ \A e \in Episode : e > fault.episode => task[e].pc = "none"
  /\ change.pc = "enabling" => task[fault.episode].pc = "none"

SlotInv == OneInSlot /\ SessionHeld /\ TasksFresh

LEMMA SlotInitially == Init => SlotInv
BY DEF Init, SlotInv, OneInSlot, SessionHeld, TasksFresh, Within, Holding, Reconciles, Fresh,
       TaskOf, NoChange, Episode

(* What a step of one request may do to the slot and the pool.              *)
LEMMA RequestSlot ==
  ASSUME Inv, SlotInv, NEW r \in Request, NEW q, req' = [req EXCEPT ![r] = q],
         UNCHANGED <<task, change>>, fault'.episode = fault.episode,
         \/ slot' = slot /\ (q.pc \in Within <=> req[r].pc \in Within)
         \/ slot > 0 /\ slot' = slot - 1 /\ q.pc \in Within
         \/ slot' = slot + 1 /\ q.pc \notin Within /\ req[r].pc \in Within,
         q.session # "none" <=> q.pc \in Holding,
         pooled' => (pooled \/ req[r].pc \in Within) /\ q.session # "reusable"
  PROVE  SlotInv'
<1>1. req'[r] = q /\ \A s \in Request \ {r} : req'[s] = req[s]
  BY DEF Inv, Shapes
<1>2. \A e \in Episode : Reconciles(e)' = Reconciles(e)
  BY DEF Reconciles
<1>3. OneInSlot'
  BY <1>1, <1>2 DEF SlotInv, OneInSlot
<1>4. SessionHeld'
  <2>1. \A s \in Request : req'[s].session # "none" <=> req'[s].pc \in Holding
    BY <1>1 DEF SlotInv, SessionHeld
  <2>2. pooled' => \A s \in Request : req'[s].session # "reusable"
    BY <1>1 DEF SlotInv, SessionHeld, OneInSlot, Within, Holding
  <2>3. QED
    BY <2>1, <2>2 DEF SessionHeld
<1>5. TasksFresh'
  BY DEF SlotInv, TasksFresh
<1>6. QED
  BY <1>3, <1>4, <1>5 DEF SlotInv

(* A request that records its owner has given its session back.             *)
LEMMA RecordsThere ==
  ASSUME req \in [Request -> Local], NEW r \in Request, req[r].session = "none",
         Record(r) \/ RecordOwner(r)
  PROVE  req'[r].pc \in {"assigning", "finishing"} /\ req'[r].session = "none"
<1>1. CASE \E a : Ends(r, a)
  <2>1. PICK a : req'[r] = [req[r] EXCEPT !.pc = "finishing", !.session = "none", !.answer = a]
    BY <1>1 DEF Ends
  <2> QED
    BY <2>1 DEF Local
<1>2. CASE Step(r, "assigning")
  <2>1. req'[r] = [req[r] EXCEPT !.pc = "assigning"]
    BY <1>2 DEF Step
  <2> QED
    BY <2>1 DEF Local
<1> QED
  BY <1>1, <1>2 DEF Record, RecordOwner

LEMMA EndsThere ==
  ASSUME req \in [Request -> Local], NEW r \in Request, NEW a, Ends(r, a)
  PROVE  req'[r].pc = "finishing" /\ req'[r].session = "none"
<1>1. req'[r] = [req[r] EXCEPT !.pc = "finishing", !.session = "none", !.answer = a]
  BY DEF Ends
<1>2. QED
  BY <1>1 DEF Local

(* Every step of a request is one of these.                                 *)
LEMMA RequestSlotStep ==
  ASSUME Inv, SlotInv, NEW r \in Request,
         (\E o \in Order : Begin(r, o)) \/ RejectKey(r) \/ RequestStep(r)
  PROVE  SlotInv'
<1> DEFINE q == req'[r]
<1>0. /\ req \in [Request -> Local] /\ req[r] \in Local /\ pooled \in BOOLEAN /\ slot \in {0, 1}
      /\ (req[r].session # "none" <=> req[r].pc \in Holding)
  BY DEF Inv, Shapes, SlotInv, OneInSlot, SessionHeld
<1>1. req' = [req EXCEPT ![r] = q] /\ UNCHANGED <<task, change>>
      /\ fault'.episode = fault.episode
  BY <1>0
     DEF RequestStep, Begin, RejectKey, Admit, Busy, TakeToken, Connect, TakePooled,
         ReplacePooled, OpenSession, ConnectFails, Connected, Transact, Committed,
         CommitUnanswered, Duplicate, OutOfStock, StatementFails, ReturnSession, Record,
         RecordOwner, LookUp, Finish, Step, Ends, modes, Inv, Shapes
<1> DEFINE Fits ==
      /\ \/ slot' = slot /\ (q.pc \in Within <=> req[r].pc \in Within)
         \/ slot > 0 /\ slot' = slot - 1 /\ q.pc \in Within
         \/ slot' = slot + 1 /\ q.pc \notin Within /\ req[r].pc \in Within
      /\ q.session # "none" <=> q.pc \in Holding
      /\ pooled' => (pooled \/ req[r].pc \in Within) /\ q.session # "reusable"
<1>2. ASSUME NEW o \in Order, Begin(r, o) PROVE Fits
  BY <1>0, <1>2 DEF Begin, pool, Within, Holding, Local, SlotInv, SessionHeld
<1>3. ASSUME RejectKey(r) \/ Busy(r) PROVE Fits
  <2>1. q = Refused /\ UNCHANGED <<pooled, slot>> /\ req[r].pc \in {"new", "queued"}
    BY <1>0, <1>3 DEF RejectKey, Busy, pool
  <2>2. Refused.pc = "done" /\ Refused.session = "none"
    BY DEF Refused, Fresh
  <2>3. QED
    BY <1>0, <2>1, <2>2 DEF Within, Holding
<1>4. ASSUME Admit(r) PROVE Fits
  BY <1>0, <1>4 DEF Admit, Step, pool, Within, Holding, Local, SlotInv, SessionHeld
<1>5. ASSUME TakeToken(r) PROVE Fits
  BY <1>0, <1>5 DEF TakeToken, pool, Within, Holding, Local, SlotInv, SessionHeld
<1>6. ASSUME Connect(r) PROVE Fits
  <2>1. slot' = slot /\ req[r].pc = "connecting"
    BY <1>6 DEF Connect
  <2>2. CASE ConnectFails(r)
    <3>1. q.pc = "finishing" /\ q.session = "none"
      BY <1>0, <2>2, EndsThere DEF ConnectFails
    <3>2. QED
      BY <2>1, <3>1 DEF Within, Holding
  <2>3. CASE TakePooled(r) \/ ReplacePooled(r) \/ OpenSession(r)
    <3>1. q.pc = "connected" /\ q.session \in {"own", "reusable"}
          /\ (pooled' => pooled /\ q.session # "reusable")
      <4>1. CASE TakePooled(r) \/ ReplacePooled(r)
        BY <1>0, <4>1 DEF TakePooled, ReplacePooled, Connected, Local
      <4>2. CASE OpenSession(r)
        <5>1. /\ Connected(r, IF Reuse(r) THEN "reusable" ELSE "own")
              /\ pooled' = pooled /\ (Reuse(r) => ~pooled)
          BY <4>2 DEF OpenSession
        <5>2. q.pc = "connected" /\ q.session = IF Reuse(r) THEN "reusable" ELSE "own"
          BY <1>0, <5>1 DEF Connected, Local
        <5>3. QED
          BY <5>1, <5>2
      <4>3. QED
        BY <2>3, <4>1, <4>2
    <3>2. QED
      BY <2>1, <3>1 DEF Within, Holding
  <2>4. QED
    BY <1>6, <2>2, <2>3 DEF Connect
<1>7. ASSUME Transact(r) PROVE Fits
  <2>1. slot' = slot /\ pooled' = pooled /\ req[r].pc = "connected" /\ req[r].session # "none"
        /\ (pooled => req[r].session # "reusable")
    BY <1>0, <1>7 DEF Transact, pool, Holding, SlotInv, SessionHeld
  <2>2. \/ q.pc \in {"finishing", "duplicate"} /\ q.session = "none"
        \/ q.pc = "returning" /\ q.session = req[r].session
    <3>1. CASE CommitUnanswered(r) \/ StatementFails(r)
      BY <1>0, <3>1, EndsThere DEF CommitUnanswered, StatementFails
    <3>2. CASE Committed(r) \/ OutOfStock(r)
      BY <1>0, <3>2, ZenonT(30) DEF Committed, OutOfStock, Step, Local
    <3>3. CASE Duplicate(r)
      BY <1>0, <3>3 DEF Duplicate, Local
    <3>4. QED
      BY <1>7, <3>1, <3>2, <3>3 DEF Transact
  <2>3. QED
    BY <1>0, <2>1, <2>2 DEF Within, Holding
<1>8. ASSUME ReturnSession(r) PROVE Fits
  BY <1>0, <1>8 DEF ReturnSession, Within, Holding, Local
<1>9. ASSUME Record(r) \/ RecordOwner(r) \/ LookUp(r) PROVE Fits
  <2>1. slot' = slot /\ pooled' = pooled
        /\ req[r].pc \in {"recording", "assigning", "duplicate"}
    BY <1>9 DEF Record, RecordOwner, LookUp, pool
  <2>2. q.pc \in {"assigning", "finishing"} /\ q.session = "none"
    <3>1. CASE Record(r) \/ RecordOwner(r)
      BY <1>0, <2>1, <3>1, RecordsThere DEF Holding
    <3>2. CASE LookUp(r)
      BY <1>0, <3>2, EndsThere DEF LookUp
    <3> QED
      BY <1>9, <3>1, <3>2
  <2>3. QED
    BY <1>0, <2>1, <2>2 DEF Within, Holding
<1>10. ASSUME Finish(r) PROVE Fits
  BY <1>0, <1>10 DEF Finish, Refused, Fresh, pool, Within, Holding, Local
<1>11. Fits
  BY <1>2, <1>3, <1>4, <1>5, <1>6, <1>7, <1>8, <1>9, <1>10 DEF RequestStep
<1> HIDE DEF q
<1>12. QED
  BY <1>1, <1>11, RequestSlot

LEMMA TaskSlotStep ==
  ASSUME Inv, SlotInv, NEW e \in Episode, TaskStep(e)
  PROVE  SlotInv'
<1>0. task \in [Episode -> Task] /\ task[e] \in Task /\ fault.episode \in Episode
  BY DEF Inv, Shapes
<1>1. UNCHANGED <<fault, change, pooled, req>>
  BY DEF TaskStep, TaskStops, TaskAdmitted, TaskOpens, TaskCannotOpen, TaskCloses, StormKeeps,
         StormEnds, modes, pool
<1>2. PICK pc \in {"idle", "admitted", "open", "dead"} :
        /\ task' = [task EXCEPT ![e].pc = pc]
        /\ \/ task[e].kind = "reconcile" /\ task[e].pc = "idle" /\ pc = "admitted"
              /\ slot > 0 /\ slot' = slot - 1
           \/ task[e].kind = "reconcile" /\ task[e].pc \in {"admitted", "open"}
              /\ pc \in {"idle", "dead"} /\ slot' = slot + 1
           \/ task[e].kind = "reconcile" /\ task[e].pc = "admitted" /\ pc = "open"
              /\ slot' = slot
           \/ task[e].kind = "reconcile" /\ task[e].pc = "idle" /\ pc = "dead" /\ slot' = slot
           \/ task[e].kind # "reconcile" /\ slot' = slot
  BY <1>0 DEF TaskStep, TaskStops, TaskAdmitted, TaskOpens, TaskCannotOpen, TaskCloses,
              StormKeeps, StormHolds, StormEnds, Becomes, Again, ReadyToOpen, ReleasesSlot, Task
<1>3. task'[e].kind = task[e].kind /\ task'[e].pc = pc
      /\ \A d \in Episode \ {e} : task'[d] = task[d]
  BY <1>0, <1>2
<1>4. \A d \in Episode \ {e} : Reconciles(d)' = Reconciles(d)
  BY <1>3 DEF Reconciles
<1>5. OneInSlot'
  <2>1. Reconciles(e)' <=> (task[e].kind = "reconcile" /\ pc \in {"admitted", "open"})
    BY <1>3 DEF Reconciles
  <2>2. Reconciles(e) <=> (task[e].kind = "reconcile" /\ task[e].pc \in {"admitted", "open"})
    BY DEF Reconciles
  <2> DEFINE was == Reconciles(e)
             is == Reconciles(e)'
  <2>3. \/ ~was /\ is /\ slot = 1 /\ slot' = 0
        \/ was /\ ~is /\ slot = 0 /\ slot' = 1
        \/ (is <=> was) /\ slot' = slot
    <3>1. was => slot = 0
      BY DEF SlotInv, OneInSlot
    <3>2. slot \in {0, 1}
      BY DEF SlotInv, OneInSlot
    <3> HIDE DEF was, is
    <3>3. /\ is <=> task[e].kind = "reconcile" /\ pc \in {"admitted", "open"}
          /\ was <=> task[e].kind = "reconcile" /\ task[e].pc \in {"admitted", "open"}
      BY <2>1, <2>2 DEF is, was
    <3>4. QED
      BY <1>2, <3>1, <3>2, <3>3
  <2>4. slot' \in {0, 1}
    BY <2>3 DEF SlotInv, OneInSlot
  <2>5. ASSUME NEW r \in Request, req[r].pc \in Within
        PROVE  slot' = 0 /\ (\A s \in Request : req[s].pc \in Within => s = r)
               /\ \A d \in Episode : ~Reconciles(d)'
    BY <1>4, <2>3, <2>5 DEF SlotInv, OneInSlot
  <2>6. ASSUME NEW d \in Episode, Reconciles(d)'
        PROVE  slot' = 0 /\ \A f \in Episode : Reconciles(f)' => f = d
    BY <1>4, <2>3, <2>6 DEF SlotInv, OneInSlot
  <2>7. QED
    BY <1>1, <2>4, <2>5, <2>6 DEF OneInSlot
<1>6. task[e].pc # "none"
  BY <1>0 DEF TaskStep, TaskStops, TaskAdmitted, TaskOpens, TaskCannotOpen, TaskCloses,
              StormKeeps, StormEnds, ReadyToOpen, Task
<1>7. TasksFresh'
  BY <1>0, <1>1, <1>3, <1>6 DEF SlotInv, TasksFresh
<1>8. QED
  BY <1>1, <1>5, <1>7 DEF SlotInv, SessionHeld

(* A mode change and the lease leave requests and the slot alone; the task  *)
(* that Enable starts is a new one.                                         *)
LEMMA ModeSlotStep ==
  ASSUME Inv, SlotInv,
         \/ \E mode \in Modes : OperatorChanges(mode)
         \/ LeaseLooks \/ LeaseChanges \/ ChangeStep
  PROVE  SlotInv'
<1>0. task \in [Episode -> Task] /\ change \in Change /\ fault.episode \in Episode
      /\ pooled \in BOOLEAN
  BY DEF Inv, Shapes
<1>1. UNCHANGED <<req, slot>> /\ (pooled' => pooled)
  <2>1. ASSUME (\E mode \in Modes : OperatorChanges(mode)) \/ LeaseLooks \/ LeaseChanges
        PROVE  UNCHANGED <<req, slot>> /\ (pooled' => pooled)
    <3>1. CASE LeaseLooks
      BY <3>1 DEF LeaseLooks, pool
    <3>2. CASE (\E mode \in Modes : OperatorChanges(mode)) \/ LeaseChanges
      BY <3>2 DEF OperatorChanges, LeaseChanges, Release
    <3>3. QED
      BY <2>1, <3>1, <3>2
  <2>2. ASSUME ChangeStep PROVE UNCHANGED <<req, slot, pooled>>
    BY <2>2 DEF ChangeStep, ReleaseHeld, ReadToken, ClearToken, ClearOwner, Cleanup, Apply,
                Enable, pool
  <2>3. QED
    BY <2>1, <2>2
<1>2. SessionHeld'
  BY <1>1 DEF SlotInv, SessionHeld
<1>3. CASE ~Enable
  <2>1. UNCHANGED task
    BY <1>3 DEF OperatorChanges, LeaseLooks, LeaseChanges, ChangeStep, ReleaseHeld,
         ReadToken, ClearToken, ClearOwner, Cleanup, Apply
  <2>2. OneInSlot'
    BY <1>1, <2>1 DEF SlotInv, OneInSlot, Reconciles
  <2>3. \/ fault'.episode = fault.episode /\ (change'.pc = "enabling" => change.pc = "enabling")
        \/ Apply
    BY <1>0, <1>3 DEF OperatorChanges, LeaseLooks, LeaseChanges, Release, ChangeStep,
         ReleaseHeld, ReadToken, ClearToken, ClearOwner, Cleanup, Changing, NoChange, Change,
         Inv, Shapes
  <2>4. CASE Apply
    <3>1. fault'.episode = fault.episode + 1 /\ fault'.episode \in Episode
      BY <2>4, ApplyKeeps DEF Apply, Inv, Shapes
    <3>2. QED
      BY <1>0, <1>2, <2>1, <2>2, <3>1 DEF SlotInv, TasksFresh, Episode
  <2>5. CASE fault'.episode = fault.episode /\ (change'.pc = "enabling" => change.pc = "enabling")
    BY <1>2, <2>1, <2>2, <2>5 DEF SlotInv, TasksFresh
  <2>6. QED
    BY <2>3, <2>4, <2>5
<1>4. CASE Enable
  <2> DEFINE e == fault.episode
  <2>1. task' = [task EXCEPT ![e] = TaskOf(change.mode)] /\ fault' = fault
        /\ change'.pc = "none" /\ task[e].pc = "none"
    BY <1>4 DEF Enable, NoChange, SlotInv, TasksFresh
  <2>2. task'[e].pc = "idle" /\ \A d \in Episode \ {e} : task'[d] = task[d]
    BY <1>0, <2>1 DEF TaskOf
  <2>3. ~Reconciles(e) /\ ~Reconciles(e)'
    BY <2>1, <2>2 DEF Reconciles
  <2>4. \A d \in Episode : Reconciles(d)' = Reconciles(d)
    BY <2>1, <2>2, <2>3 DEF Reconciles
  <2>5. OneInSlot'
    BY <1>1, <2>4 DEF SlotInv, OneInSlot
  <2>6. TasksFresh'
    BY <1>0, <2>1, <2>2 DEF SlotInv, TasksFresh, Episode
  <2>7. QED
    BY <1>2, <2>5, <2>6 DEF SlotInv
<1>5. QED
  BY <1>3, <1>4

LEMMA SlotStep == Inv /\ SlotInv /\ [Next]_vars => SlotInv'
<1> SUFFICES ASSUME Inv, SlotInv, [Next]_vars PROVE SlotInv'
  OBVIOUS
<1>1. CASE UNCHANGED vars
  BY <1>1 DEF vars, modes, pool, SlotInv, OneInSlot, Reconciles, SessionHeld, TasksFresh
<1>2. CASE Next
  BY <1>2, RequestSlotStep, TaskSlotStep, ModeSlotStep DEF Next
<1>3. QED
  BY <1>1, <1>2
-----------------------------------------------------------------------------
(* The sum of the sessions.                                                 *)
Users == {r \in Request : req[r].session # "none"}
Openers == {e \in Episode : task[e].pc = "open"}
One(b) == IF b THEN 1 ELSE 0

SumInv == held \in Nat /\ sessions \in Int /\ SessionsAreOwned

LEMMA UsersFinite ==
  /\ IsFiniteSet(Users) /\ Cardinality(Users) \in Nat
  /\ IsFiniteSet(Openers) /\ Cardinality(Openers) \in Nat
<1>1. IsFiniteSet(Request) /\ IsFiniteSet(Episode)
  <2>1. 0 \in Int /\ 2 * MaxChanges \in Int
    BY InventoryAssumption
  <2>2. QED
    BY <2>1, FS_Interval, InventoryAssumption DEF Episode
<1>2. Users \in SUBSET Request /\ Openers \in SUBSET Episode
  BY DEF Users, Openers
<1>3. QED
  BY <1>1, <1>2, FS_Subset, FS_CardinalityType

(* The sum in numbers.                                                      *)
LEMMA SumUnfolds ==
  SessionsAreOwned <=>
    sessions = Cardinality(Users) + Cardinality(Openers) + held + One(pooled)
BY DEF SessionsAreOwned, Users, Openers, One

LEMMA SumInitially == Init => SumInv
<1> SUFFICES ASSUME Init PROVE SumInv
  OBVIOUS
<1>1. Users = {} /\ Openers = {} /\ held = 0 /\ sessions = 0 /\ pooled = FALSE
  BY DEF Init, Users, Openers, Fresh, TaskOf
<1>2. QED
  BY <1>1, SumUnfolds, FS_EmptySet DEF SumInv, One

LEMMA UsersCount ==
  ASSUME Inv, NEW r \in Request, NEW q, req' = [req EXCEPT ![r] = q]
  PROVE  Cardinality(Users') =
           Cardinality(Users) + One(q.session # "none") - One(req[r].session # "none")
<1>1. req'[r] = q /\ \A s \in Request \ {r} : req'[s] = req[s]
  BY DEF Inv, Shapes
<1>2. CASE q.session # "none" /\ req[r].session = "none"
  <2>1. Users' = Users \cup {r} /\ r \notin Users
    BY <1>1, <1>2 DEF Users
  <2>2. Cardinality(Users \cup {r}) = Cardinality(Users) + 1
    BY <2>1, UsersFinite, FS_AddElement
  <2>3. QED
    BY <1>2, <2>1, <2>2, UsersFinite DEF One
<1>3. CASE q.session = "none" /\ req[r].session # "none"
  <2>1. Users' = Users \ {r} /\ r \in Users
    BY <1>1, <1>3 DEF Users
  <2>2. Cardinality(Users \ {r}) = Cardinality(Users) - 1
    BY <2>1, UsersFinite, FS_RemoveElement
  <2>3. QED
    BY <1>3, <2>1, <2>2, UsersFinite DEF One
<1>4. CASE (q.session = "none") <=> (req[r].session = "none")
  <2>1. Users' = Users
    BY <1>1, <1>4 DEF Users
  <2>2. QED
    BY <1>4, <2>1, UsersFinite DEF One
<1>5. QED
  BY <1>2, <1>3, <1>4

LEMMA OpenersCount ==
  ASSUME Inv, NEW e \in Episode, NEW t, task' = [task EXCEPT ![e] = t]
  PROVE  Cardinality(Openers') =
           Cardinality(Openers) + One(t.pc = "open") - One(task[e].pc = "open")
<1>1. task'[e] = t /\ \A d \in Episode \ {e} : task'[d] = task[d]
  BY DEF Inv, Shapes
<1>2. CASE t.pc = "open" /\ task[e].pc # "open"
  <2>1. Openers' = Openers \cup {e} /\ e \notin Openers
    BY <1>1, <1>2 DEF Openers
  <2>2. Cardinality(Openers \cup {e}) = Cardinality(Openers) + 1
    BY <2>1, UsersFinite, FS_AddElement
  <2>3. QED
    BY <1>2, <2>1, <2>2, UsersFinite DEF One
<1>3. CASE t.pc # "open" /\ task[e].pc = "open"
  <2>1. Openers' = Openers \ {e} /\ e \in Openers
    BY <1>1, <1>3 DEF Openers
  <2>2. Cardinality(Openers \ {e}) = Cardinality(Openers) - 1
    BY <2>1, UsersFinite, FS_RemoveElement
  <2>3. QED
    BY <1>3, <2>1, <2>2, UsersFinite DEF One
<1>4. CASE (t.pc = "open") <=> (task[e].pc = "open")
  <2>1. Openers' = Openers
    BY <1>1, <1>4 DEF Openers
  <2>2. QED
    BY <1>4, <2>1, UsersFinite DEF One
<1>5. QED
  BY <1>2, <1>3, <1>4

LEMMA SumUnfoldsNext ==
  SessionsAreOwned' <=>
    sessions' = Cardinality(Users') + Cardinality(Openers') + held' + One(pooled')
BY DEF SessionsAreOwned, Users, Openers, One

(* A request that takes, keeps, returns or closes a session.                *)
LEMMA RequestSum ==
  ASSUME Inv, SumInv, NEW r \in Request, NEW q, req' = [req EXCEPT ![r] = q],
         UNCHANGED <<held, task>>,
         sessions' = sessions + One(q.session # "none") - One(req[r].session # "none")
                       + One(pooled') - One(pooled)
  PROVE  SumInv'
<1>1. Cardinality(Users') =
        Cardinality(Users) + One(q.session # "none") - One(req[r].session # "none")
  BY UsersCount
<1>2. Openers' = Openers
  BY DEF Openers
<1>3. /\ Cardinality(Users) \in Nat /\ Cardinality(Openers) \in Nat /\ held \in Nat
      /\ sessions \in Int
      /\ sessions = Cardinality(Users) + Cardinality(Openers) + held + One(pooled)
  BY UsersFinite, SumUnfolds DEF SumInv
<1>4. /\ One(q.session # "none") \in Int /\ One(req[r].session # "none") \in Int
      /\ One(pooled') \in Int /\ One(pooled) \in Int
  BY DEF One
<1>5. sessions' = Cardinality(Users') + Cardinality(Openers') + held' + One(pooled')
  BY <1>1, <1>2, <1>3, <1>4
<1>6. sessions' \in Int /\ held' \in Nat
  BY <1>3, <1>4
<1>7. QED
  BY <1>5, <1>6, SumUnfoldsNext DEF SumInv

LEMMA RequestSumStep ==
  ASSUME Inv, SlotInv, SumInv, NEW r \in Request,
         (\E o \in Order : Begin(r, o)) \/ RejectKey(r) \/ RequestStep(r)
  PROVE  SumInv'
<1> DEFINE q == req'[r]
           was == req[r].session # "none"
           is == q.session # "none"
<1>0. /\ req \in [Request -> Local] /\ req[r] \in Local /\ pooled \in BOOLEAN
      /\ sessions \in Int
      /\ (was <=> req[r].pc \in Holding)
  BY DEF Inv, Shapes, SlotInv, SessionHeld, SumInv
<1>1. req' = [req EXCEPT ![r] = q] /\ UNCHANGED <<task, held>>
  BY <1>0
     DEF RequestStep, Begin, RejectKey, Admit, Busy, TakeToken, Connect, TakePooled,
         ReplacePooled, OpenSession, ConnectFails, Connected, Transact, Committed,
         CommitUnanswered, Duplicate, OutOfStock, StatementFails, ReturnSession, Record,
         RecordOwner, LookUp, Finish, Step, Ends
<1> DEFINE Fits == sessions' = sessions + One(is) - One(was) + One(pooled') - One(pooled)
<1>2. ASSUME (\E o \in Order : Begin(r, o)) \/ RejectKey(r) \/ Admit(r) \/ Busy(r)
             \/ TakeToken(r) \/ Finish(r) \/ Record(r) \/ RecordOwner(r) \/ LookUp(r)
      PROVE  Fits
  <2>1. sessions' = sessions /\ pooled' = pooled
    BY <1>2 DEF Begin, RejectKey, Admit, Busy, TakeToken, Finish, Record, RecordOwner, LookUp, pool
  <2>2. ~was
    BY <1>0, <1>2 DEF Begin, RejectKey, Admit, Busy, TakeToken, Finish, Record, RecordOwner,
                      LookUp, Holding
  <2>3. ~is
    <3>1. CASE Record(r) \/ RecordOwner(r) \/ LookUp(r)
      <4>1. CASE Record(r) \/ RecordOwner(r)
        <5>1. req[r].session = "none"
          BY <2>2
        <5>2. q.session = "none"
          BY <1>0, <4>1, <5>1, RecordsThere
        <5> QED
          BY <5>2
      <4>2. CASE LookUp(r)
        BY <1>0, <4>2, EndsThere DEF LookUp
      <4> QED
        BY <3>1, <4>1, <4>2
    <3>2. CASE RejectKey(r) \/ Busy(r)
      BY <1>0, <3>2 DEF RejectKey, Busy, Refused, Fresh
    <3>3. CASE Finish(r)
      BY <1>0, <2>2, <3>3 DEF Finish, Refused, Fresh, Local
    <3>4. CASE \E o \in Order : Begin(r, o)
      BY <1>0, <2>2, <3>4, ZenonT(30) DEF Begin, Step, Local
    <3>5. CASE Admit(r)
      BY <1>0, <2>2, <3>5 DEF Admit, Step, Local
    <3>6. CASE TakeToken(r)
      BY <1>0, <2>2, <3>6 DEF TakeToken, Step, Local
    <3>7. QED
      BY <1>2, <3>1, <3>2, <3>3, <3>4, <3>5, <3>6
  <2>4. QED
    BY <1>0, <2>1, <2>2, <2>3 DEF One
<1>3. ASSUME Connect(r) PROVE Fits
  <2>1. ~was
    BY <1>0, <1>3 DEF Connect, Holding
  <2>2. CASE TakePooled(r) \/ ReplacePooled(r)
    <3>1. pooled /\ ~pooled' /\ sessions' = sessions /\ is
      BY <1>0, <2>2 DEF TakePooled, ReplacePooled, Connected, Local
    <3>2. QED
      BY <1>0, <2>1, <3>1 DEF One
  <2>3. CASE OpenSession(r)
    <3>1. pooled' = pooled /\ sessions' = sessions + 1 /\ is
      BY <1>0, <2>3 DEF OpenSession, Connected, Local
    <3>2. QED
      BY <1>0, <2>1, <3>1 DEF One
  <2>4. CASE ConnectFails(r)
    <3>1. ~is
      BY <1>0, <2>4, EndsThere DEF ConnectFails
    <3>2. /\ pooled' <=> (pooled /\ ~Reuse(r))
          /\ sessions' = IF pooled /\ Reuse(r) THEN sessions - 1 ELSE sessions
      BY <2>4 DEF ConnectFails
    <3>3. QED
      BY <1>0, <2>1, <3>1, <3>2 DEF One
  <2>5. QED
    BY <1>3, <2>2, <2>3, <2>4 DEF Connect
<1>4. ASSUME Transact(r) PROVE Fits
  <2>1. was /\ pooled' = pooled
    BY <1>0, <1>4 DEF Transact, Holding, pool
  <2>2. CASE Committed(r) \/ OutOfStock(r)
    <3>1. is /\ sessions' = sessions
      BY <1>0, <2>1, <2>2 DEF Committed, OutOfStock, Step, Local
    <3>2. QED
      BY <1>0, <2>1, <3>1 DEF One
  <2>3. CASE CommitUnanswered(r) \/ StatementFails(r) \/ Duplicate(r)
    <3>1. sessions' = sessions - 1
      BY <2>3 DEF CommitUnanswered, StatementFails, Duplicate
    <3>2. ~is
      <4>1. CASE CommitUnanswered(r) \/ StatementFails(r)
        BY <1>0, <4>1, EndsThere DEF CommitUnanswered, StatementFails
      <4>2. CASE Duplicate(r)
        BY <1>0, <4>2 DEF Duplicate, Local
      <4>3. QED
        BY <2>3, <4>1, <4>2
    <3>3. QED
      BY <1>0, <2>1, <3>1, <3>2 DEF One
  <2>4. QED
    BY <1>4, <2>2, <2>3 DEF Transact
<1>5. ASSUME ReturnSession(r) PROVE Fits
  <2>1. was /\ ~is
    BY <1>0, <1>5 DEF ReturnSession, Holding, Local
  <2>2. /\ pooled' <=> (pooled \/ Keeps(r))
        /\ sessions' = IF Keeps(r) THEN sessions ELSE sessions - 1
    BY <1>5 DEF ReturnSession
  <2>3. Keeps(r) => ~pooled
    BY DEF Keeps, SlotInv, SessionHeld
  <2>4. QED
    BY <1>0, <2>1, <2>2, <2>3 DEF One
<1>6. Fits
  BY <1>2, <1>3, <1>4, <1>5 DEF RequestStep
<1> HIDE DEF q
<1>7. QED
  BY <1>1, <1>6, RequestSum

(* A task that opens or closes a session, or hands it to the storm.         *)
LEMMA TaskSumStep ==
  ASSUME Inv, SlotInv, SumInv, NEW e \in Episode, TaskStep(e)
  PROVE  SumInv'
<1> DEFINE t == task'[e]
           was == task[e].pc = "open"
           is == t.pc = "open"
<1>0. /\ task \in [Episode -> Task] /\ task[e] \in Task /\ sessions \in Int /\ held \in Nat
  BY DEF Inv, Shapes, SumInv
<1>1. task' = [task EXCEPT ![e] = t] /\ UNCHANGED <<req, pooled>>
  BY <1>0 DEF TaskStep, TaskStops, TaskAdmitted, TaskOpens, TaskCannotOpen, TaskCloses,
              StormKeeps, StormHolds, StormEnds, Becomes, pool
<1> DEFINE Fits == held' \in Nat
                   /\ sessions' = sessions + One(is) - One(was) + held' - held
<1>2. ASSUME TaskOpens(e) PROVE Fits
  <2>1. is /\ ~was /\ sessions' = sessions + 1 /\ held' = held
    BY <1>0, <1>2 DEF TaskOpens, ReadyToOpen, Becomes, Task
  <2>2. QED
    BY <1>0, <2>1 DEF One
<1>3. ASSUME TaskCloses(e) PROVE Fits
  <2>1. ~is /\ was /\ sessions' = sessions - 1 /\ held' = held
    BY <1>0, <1>3 DEF TaskCloses, Becomes, Again, Task
  <2>2. QED
    BY <1>0, <2>1 DEF One
<1>4. ASSUME StormKeeps(e) PROVE Fits
  <2>1. ~is /\ was
    BY <1>0, <1>4 DEF StormKeeps, StormHolds, Becomes, Task
  <2>2. \/ sessions' = sessions - 1 /\ held' = held
        \/ sessions' = sessions /\ held' = held + 1
    BY <1>4 DEF StormKeeps, StormHolds
  <2>3. QED
    BY <1>0, <2>1, <2>2 DEF One
<1>5. ASSUME TaskStops(e) \/ TaskAdmitted(e) \/ TaskCannotOpen(e) \/ StormEnds(e) PROVE Fits
  <2>1. ~is /\ ~was /\ sessions' = sessions /\ held' = held
    BY <1>0, <1>5
       DEF TaskStops, TaskAdmitted, TaskCannotOpen, StormEnds, ReadyToOpen, Becomes, Again, Task
  <2>2. QED
    BY <1>0, <2>1 DEF One
<1>6. Fits
  BY <1>2, <1>3, <1>4, <1>5 DEF TaskStep
<1> HIDE DEF t
<1>7. Cardinality(Openers') = Cardinality(Openers) + One(is) - One(was)
  BY <1>1, OpenersCount
<1>8. Users' = Users
  BY <1>1 DEF Users
<1>9. sessions = Cardinality(Users) + Cardinality(Openers) + held + One(pooled)
      /\ Cardinality(Users) \in Nat /\ Cardinality(Openers) \in Nat
  BY UsersFinite, SumUnfolds DEF SumInv
<1>10. One(is) \in Int /\ One(was) \in Int /\ One(pooled) \in Int /\ One(pooled') = One(pooled)
  BY <1>1 DEF One
<1> HIDE DEF is, was
<1>11. sessions' = Cardinality(Users') + Cardinality(Openers') + held' + One(pooled')
       /\ sessions' \in Int
  BY <1>0, <1>6, <1>7, <1>8, <1>9, <1>10
<1>12. QED
  BY <1>6, <1>11, SumUnfoldsNext DEF SumInv

(* A mode change closes the pooled session and those of the storm.          *)
LEMMA ModeSumStep ==
  ASSUME Inv, SlotInv, SumInv,
         \/ \E mode \in Modes : OperatorChanges(mode)
         \/ LeaseLooks \/ LeaseChanges \/ ChangeStep
  PROVE  SumInv'
<1>0. /\ sessions = Cardinality(Users) + Cardinality(Openers) + held + One(pooled)
      /\ Cardinality(Users) \in Nat /\ Cardinality(Openers) \in Nat
      /\ held \in Nat /\ sessions \in Int /\ pooled \in BOOLEAN
      /\ task \in [Episode -> Task] /\ fault.episode \in Episode
  BY UsersFinite, SumUnfolds DEF SumInv, Inv, Shapes
<1>1. req' = req
  BY DEF OperatorChanges, LeaseLooks, LeaseChanges, ChangeStep, ReleaseHeld, ReadToken,
         ClearToken, ClearOwner, Cleanup, Apply, Enable
<1>2. Users' = Users
  BY <1>1 DEF Users
<1>3. Openers' = Openers
  <2>1. CASE Enable
    <3>1. task' = [task EXCEPT ![fault.episode] = TaskOf(change.mode)]
          /\ task[fault.episode].pc = "none"
      BY <2>1 DEF Enable, SlotInv, TasksFresh
    <3>2. TaskOf(change.mode).pc = "idle"
      BY DEF TaskOf
    <3>3. QED
      BY <1>0, <3>1, <3>2 DEF Openers
  <2>2. CASE ~Enable
    BY <2>2 DEF OperatorChanges, LeaseLooks, LeaseChanges, ChangeStep, ReleaseHeld, ReadToken,
                ClearToken, ClearOwner, Cleanup, Apply, Openers
  <2>3. QED
    BY <2>1, <2>2
<1>4. held' \in Nat /\ sessions' = sessions + held' - held + One(pooled') - One(pooled)
  <2>1. CASE (\E mode \in Modes : OperatorChanges(mode)) \/ LeaseChanges
    <3>1. ~pooled' /\ sessions' = (IF pooled THEN sessions - 1 ELSE sessions) /\ held' = held
      BY <2>1 DEF OperatorChanges, LeaseChanges, Release
    <3>2. QED
      BY <1>0, <3>1 DEF One
  <2>2. CASE ReleaseHeld
    <3>1. pooled' = pooled /\ held' = 0 /\ sessions' = sessions - held
      BY <2>2 DEF ReleaseHeld, pool
    <3>2. QED
      BY <1>0, <3>1 DEF One
  <2>3. CASE LeaseLooks \/ ReadToken \/ ClearToken \/ ClearOwner \/ Cleanup \/ Apply \/ Enable
    <3>1. pooled' = pooled /\ held' = held /\ sessions' = sessions
      BY <2>3 DEF LeaseLooks, ReadToken, ClearToken, ClearOwner, Cleanup, Apply, Enable, pool
    <3>2. QED
      BY <1>0, <3>1 DEF One
  <2>4. QED
    BY <2>1, <2>2, <2>3 DEF ChangeStep
<1>5. One(pooled) \in Int /\ One(pooled') \in Int
  BY DEF One
<1>6. sessions' = Cardinality(Users') + Cardinality(Openers') + held' + One(pooled')
      /\ sessions' \in Int
  BY <1>0, <1>2, <1>3, <1>4, <1>5
<1>7. QED
  BY <1>4, <1>6, SumUnfoldsNext DEF SumInv

LEMMA SumStep == Inv /\ SlotInv /\ SumInv /\ [Next]_vars => SumInv'
<1> SUFFICES ASSUME Inv, SlotInv, SumInv, [Next]_vars PROVE SumInv'
  OBVIOUS
<1>1. CASE UNCHANGED vars
  BY <1>1 DEF vars, pool, SumInv, SessionsAreOwned
<1>2. CASE Next
  BY <1>2, RequestSumStep, TaskSumStep, ModeSumStep DEF Next
<1>3. QED
  BY <1>1, <1>2

(* Every open session has one user and is counted once, whichever of the    *)
(* failures, mode changes and late returns comes in between.                *)
THEOREM SessionsHaveOwners == Spec => []SessionsAreOwned
<1>1. Spec => [](SlotInv /\ SumInv)
  <2>1. Init => SlotInv /\ SumInv
    BY SlotInitially, SumInitially
  <2>2. Inv /\ SlotInv /\ SumInv /\ [Next]_vars => SlotInv' /\ SumInv'
    BY SlotStep, SumStep
  <2>3. QED
    BY <2>1, <2>2, Invariance, PTL DEF Spec
<1>2. SumInv => SessionsAreOwned
  BY DEF SumInv
<1>3. QED
  BY <1>1, <1>2, PTL

-----------------------------------------------------------------------------
(* The storm holds no more than its target, although it opens a session     *)
(* without the lock and a new mode's storm may start before the old one has *)
(* seen its stop event: only the storm of the mode in force may still keep  *)
(* what it has open, and it has looked at the target before.                *)
HeldInv ==
  /\ held \in 0 .. Target
  /\ \A e \in Episode :
       task[e].kind = "storm" /\ task[e].pc = "open" /\ e \notin stopped => held < Target
  /\ stopped \subseteq Episode /\ faults \in 0 .. MaxFaults

LEMMA HeldInitially == Init => HeldInv
BY InventoryAssumption DEF Init, HeldInv, TaskOf

(* Steps of requests, and of mode changes but the release of what is held.  *)
LEMMA HeldElsewhere ==
  ASSUME HeldInv, UNCHANGED <<held, task>>, stopped \subseteq stopped',
         stopped' \subseteq Episode, faults' \in 0 .. MaxFaults
  PROVE  HeldInv'
BY DEF HeldInv

LEMMA HeldByTask ==
  ASSUME Inv, HeldInv, NEW e \in Episode, TaskStep(e)
  PROVE  HeldInv'
<1> USE InventoryAssumption
<1>1. /\ UNCHANGED <<stopped, fault, change>> /\ task \in [Episode -> Task]
      /\ faults' \in 0 .. MaxFaults
  BY DEF TaskStep, TaskStops, TaskAdmitted, TaskOpens, TaskCannotOpen, TaskCloses,
         StormKeeps, StormEnds, Fails, modes, HeldInv, Inv, Shapes
<1>2. \A d \in Episode \ {e} : task'[d] = task[d]
  BY <1>1 DEF TaskStep, TaskStops, TaskAdmitted, TaskOpens, TaskCannotOpen, TaskCloses,
              StormKeeps, StormHolds, StormEnds, Becomes
<1>3. task'[e].kind = task[e].kind
  BY <1>1 DEF TaskStep, TaskStops, TaskAdmitted, TaskOpens, TaskCannotOpen, TaskCloses,
              StormKeeps, StormHolds, StormEnds, Becomes, Task
<1>4. CASE UNCHANGED held
  <2>1. task'[e].kind = "storm" /\ task'[e].pc = "open" => held < Target
    BY <1>1, <1>3, <1>4 DEF TaskStep, TaskStops, TaskAdmitted, TaskOpens, TaskCannotOpen,
       TaskCloses, StormKeeps, StormHolds, StormEnds, Becomes, Again, Task
  <2> QED BY <1>1, <1>2, <1>4, <2>1 DEF HeldInv
<1>5. CASE StormKeeps(e) /\ e \notin stopped
  <2>1. /\ task[e].kind = "storm" /\ task[e].pc = "open" /\ held' = held + 1
        /\ task'[e].pc = "idle"
    BY <1>1, <1>5 DEF StormKeeps, StormHolds, Becomes, Task
  <2>2. held < Target /\ held \in 0 .. Target
    BY <1>5, <2>1 DEF HeldInv
  <2>3. held' \in 0 .. Target
    BY <2>1, <2>2
  <2>4. \A d \in Episode : task'[d].pc = "open" => d \in stopped'
    BY <1>1, <1>2, <1>5, <2>1 DEF Inv, TaskSound
  <2> QED BY <1>1, <2>3, <2>4 DEF HeldInv
<1> QED BY <1>4, <1>5 DEF TaskStep, TaskStops, TaskAdmitted, TaskOpens, TaskCannotOpen,
                          TaskCloses, StormKeeps, StormHolds, StormEnds

LEMMA HeldStep == Inv /\ HeldInv /\ [Next]_vars => HeldInv'
<1> SUFFICES ASSUME Inv, HeldInv, [Next]_vars PROVE HeldInv'
  OBVIOUS
<1> USE InventoryAssumption
<1>0. stopped \subseteq Episode /\ faults \in 0 .. MaxFaults /\ fault.episode \in Episode
  BY DEF HeldInv, Inv, Shapes
<1>1. CASE UNCHANGED vars
  BY <1>0, <1>1, HeldElsewhere DEF vars, modes
<1>2. ASSUME NEW r \in Request,
             (\E o \in Order : Begin(r, o)) \/ RejectKey(r) \/ RequestStep(r)
      PROVE  HeldInv'
  <2>1. UNCHANGED <<held, task, stopped>>
    BY <1>2 DEF RequestStep, Begin, RejectKey, Admit, Busy, TakeToken, Connect, Transact,
                ReturnSession, Record, RecordOwner, LookUp, Finish, modes
  <2>2. faults' \in {faults} \/ Fails
    BY <1>2 DEF RequestStep, Begin, RejectKey, Admit, Busy, TakeToken, Connect, Transact,
                ReturnSession, Record, RecordOwner, LookUp, Finish, TakePooled, ReplacePooled,
                OpenSession, ConnectFails, Committed, CommitUnanswered, Duplicate, OutOfStock,
                StatementFails
  <2> QED BY <1>0, <2>1, <2>2, HeldElsewhere DEF Fails
<1>3. ASSUME (\E mode \in Modes : OperatorChanges(mode)) \/ LeaseLooks \/ LeaseChanges
      PROVE  HeldInv'
  <2>1. UNCHANGED <<held, task, faults>> /\ stopped' \in {stopped, stopped \cup {fault.episode}}
    BY <1>3 DEF OperatorChanges, LeaseLooks, LeaseChanges, Release
  <2> QED BY <1>0, <2>1, HeldElsewhere
<1>4. CASE ReleaseHeld
  BY <1>0, <1>4 DEF ReleaseHeld, HeldInv
<1>5. CASE ReadToken \/ ClearToken \/ ClearOwner \/ Cleanup \/ Apply
  BY <1>0, <1>5, HeldElsewhere DEF ReadToken, ClearToken, ClearOwner, Cleanup, Apply, Fails
<1>6. CASE Enable
  <2>1. /\ UNCHANGED <<held, stopped, faults>>
        /\ \A e \in Episode : task'[e].pc = "open" => task'[e] = task[e]
    BY <1>6 DEF Enable, TaskOf, Inv, Shapes
  <2> QED BY <1>0, <2>1 DEF HeldInv
<1> QED BY <1>1, <1>2, <1>3, <1>4, <1>5, <1>6, HeldByTask DEF Next, ChangeStep

(* The type invariant, with its numbers: the storm's sessions within their  *)
(* target, the gauge of the sessions never below zero, the stock never      *)
(* below zero or above what it was, the slot free or taken.                 *)
THEOREM TypeCorrect == Spec => []TypeOK
<1>1. Init => StockInv /\ SlotInv /\ SumInv /\ HeldInv
  BY StockInitially, SlotInitially, SumInitially, HeldInitially
<1>2. Inv /\ StockInv /\ SlotInv /\ SumInv /\ HeldInv /\ [Next]_vars
        => StockInv' /\ SlotInv' /\ SumInv' /\ HeldInv'
  BY StockStep, SlotStep, SumStep, HeldStep
<1>3. Inv /\ StockInv /\ SlotInv /\ SumInv /\ HeldInv => TypeOK
  <2> SUFFICES ASSUME Inv, StockInv, SlotInv, SumInv, HeldInv PROVE TypeOK
    OBVIOUS
  <2>1. stock \in 0 .. Stock
    BY FS_CardinalityType, InventoryAssumption DEF StockInv
  <2>2. sessions \in Nat
    BY SumUnfolds, UsersFinite, InventoryAssumption DEF SumInv, HeldInv, One
  <2> QED BY <2>1, <2>2 DEF TypeOK, Inv, Shapes, HeldInv, SlotInv, OneInSlot
<1> QED BY <1>1, <1>2, <1>3, Invariance, PTL DEF Spec
=============================================================================
