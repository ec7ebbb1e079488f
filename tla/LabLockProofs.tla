---------------------------- MODULE LabLockProofs ----------------------------
(***************************************************************************)
(* The annotations on the scenario ConfigMap implement LabLock, for any     *)
(* runs, probes, plans and bounds.                                          *)
(***************************************************************************)
EXTENDS LabOwnershipProofs

(* Calls that acquire the Lab, and calls that give it back.                 *)
Acquiring == {"claim", "lock"}
Releasing == {"clear", "unlock"}

(* What such a call takes for granted about the document it read.           *)
Agrees(m) ==
  /\ m.kind \in Acquiring => Config.run = None /\ Config.probe = None
  /\ m.kind = "clear" => Config.run = m.by
  /\ m.kind = "unlock" => Config.probe = m.by

(* Its premise holds for as long as the document is at the version it names.*)
Sound(m) ==
  m.kind \in Acquiring \cup Releasing =>
    /\ m.rv <= Config.rv
    /\ m.rv = Config.rv => Agrees(m)

(* Parties that have yet to send the one call that may acquire the Lab for  *)
(* them, parties whose call is in flight, and parties that never owned it.  *)
Unsent ==
  (Run \ used)
    \cup {r \in Run : active.run = r /\ pc \in {"claim_get", "claim_patch"}}
    \cup {p \in Probe : proc[p]["parent"] \in {"none", "lock_get", "lock_patch"}}

Pending == {x \in Run \cup Probe : \E m \in flight : m.kind \in Acquiring /\ m.by = x}

NeverOwned(x) == x \notin cleared /\ Config.run # x /\ Config.probe # x

(* One owner at a time, and not one of the past.                            *)
OwnedOnce ==
  /\ OneOwner
  /\ Config.run \notin cleared /\ Config.probe \notin cleared

(* Acquiring calls of different parties stay of different parties when a    *)
(* party that has none adds one.                                            *)
OneCallEach(calls) ==
  \A m1, m2 \in calls :
    m1.kind \in Acquiring /\ m2.kind \in Acquiring /\ m1.by = m2.by => m1 = m2

(* Each party has at most one acquiring call, until it owns the Lab.        *)
OneClaimEach ==
  /\ \A x \in Unsent : NeverOwned(x) /\ x \notin Pending
  /\ \A x \in Pending : NeverOwned(x)
  /\ OneCallEach(flight)

(* Calls in flight, and those about to be sent, are sound.                  *)
FlightSound == \A m \in flight : Sound(m)

ControllerSound ==
  /\ pc = "claim_patch" =>
       /\ seen <= Config.rv
       /\ seen = Config.rv => Config.run = None /\ Config.probe = None
  /\ pc = "clear_patch" =>
       /\ seen <= Config.rv
       /\ seen = Config.rv => Config.run = active.run

Premise(d, p, at, rv) ==
  /\ at \in {"lock_patch", "release_patch"} => rv <= d.rv
  /\ at = "lock_patch" /\ rv = d.rv => d.run = None /\ d.probe = None
  /\ at = "release_patch" /\ rv = d.rv => d.probe = p

ProbeSound ==
  \A p \in Probe, a \in Actor : Premise(Config, p, proc[p][a], readRv[p][a])

(* The run in memory has been started once.                                 *)
ActiveUsed == active.run = None \/ active.run \in used

LockInv ==
  /\ OwnedOnce /\ OneClaimEach /\ FlightSound /\ ControllerSound /\ ProbeSound
  /\ ActiveUsed

-----------------------------------------------------------------------------
(* What a step may do to the lock: nothing that matters, let x have it, or  *)
(* take it from x.                                                          *)

Moves ==
  \/ Config'.rv > Config.rv
  \/ Config'.rv = Config.rv /\ Config'.run = Config.run /\ Config'.probe = Config.probe

Keep ==
  /\ Moves
  /\ Config'.run = Config.run /\ Config'.probe = Config.probe /\ cleared' = cleared

Take(x) ==
  /\ Config'.rv > Config.rv
  /\ Config.run = None /\ Config.probe = None /\ cleared' = cleared
  /\ NeverOwned(x)
  /\ \/ x \in Run /\ Config'.run = x /\ Config'.probe = None
     \/ x \in Probe /\ Config'.run = None /\ Config'.probe = x

Give(x) ==
  /\ Config'.rv > Config.rv
  /\ \/ x \in Run /\ Config.run = x /\ Config'.run = None /\ Config'.probe = Config.probe
     \/ x \in Probe /\ Config.probe = x /\ Config'.probe = None /\ Config'.run = Config.run
  /\ cleared' = cleared \cup {x}

(* A message is patched into the ConfigMap field by field.                  *)
LEMMA PatchedOwners ==
  ASSUME NEW d \in Document, NEW m, WellFormed(m), m.to = "config"
  PROVE  LET e == [Patched(d, m) EXCEPT !.rv = d.rv + 1] IN
           /\ e.rv = d.rv + 1
           /\ m.kind = "claim" => e.run = m.by /\ e.probe = d.probe
           /\ m.kind = "lock" => e.run = d.run /\ e.probe = m.by
           /\ m.kind = "clear" => e.run = None /\ e.probe = d.probe
           /\ m.kind = "unlock" => e.run = d.run /\ e.probe = None
           /\ m.kind \notin Acquiring \cup Releasing => e.run = d.run /\ e.probe = d.probe
<1> DEFINE e == [Patched(d, m) EXCEPT !.rv = d.rv + 1]
<1>0. /\ m.kind \in ObjectKind \ {"break", "unbreak"}
      /\ Patched(d, m) \in Document
  BY PatchedType DEF WellFormed, Object
<1>1. /\ e.rv = d.rv + 1 /\ e.run = Patched(d, m).run /\ e.probe = Patched(d, m).probe
  BY <1>0 DEF Document
<1>2. CASE m.kind = "claim"
  BY <1>1, <1>2 DEF Patched, Document, Acquiring, Releasing
<1>3. CASE m.kind = "journal"
  BY <1>1, <1>3 DEF Patched, Document, Acquiring, Releasing
<1>4. CASE m.kind = "restore"
  BY <1>1, <1>4 DEF Patched, Document, Acquiring, Releasing
<1>5. CASE m.kind = "note_job"
  BY <1>1, <1>5 DEF Patched, Document, Acquiring, Releasing
<1>6. CASE m.kind = "clear"
  BY <1>1, <1>6 DEF Patched, Document, Acquiring, Releasing
<1>7. CASE m.kind = "lock"
  BY <1>1, <1>7 DEF Patched, Document, Acquiring, Releasing
<1>8. CASE m.kind = "unlock"
  BY <1>1, <1>8 DEF Patched, Document, Acquiring, Releasing
<1> QED BY <1>0, <1>2, <1>3, <1>4, <1>5, <1>6, <1>7, <1>8 DEF ObjectKind

LEMMA ConfigType ==
  ASSUME TypeInv
  PROVE  /\ Config \in Document /\ Config.rv \in Nat
         /\ Config.run \in Run \cup {None} /\ Config.probe \in Probe \cup {None}
         /\ cleared \subseteq Run \cup Probe /\ None \notin cleared
BY StoreAssumption DEF TypeInv, TypeOK, StoreTypeOK, Document, Config, Object, Owner, Locker

(* A sound call that is carried out does what its kind says to the lock.    *)
LEMMA PerformLock ==
  ASSUME TypeInv, NEW m, WellFormed(m), Sound(m), Accepts(m), Perform(m),
         m.kind \in Acquiring => NeverOwned(m.by)
  PROVE  /\ m.kind \in Acquiring => Take(m.by)
         /\ m.kind \in Releasing => Give(m.by)
         /\ m.kind \notin Acquiring \cup Releasing => Keep
<1>0. /\ Config \in Document /\ Config.rv \in Nat
      /\ m \in Message /\ store \in [Object -> Document] /\ "config" \in Object
  BY ConfigType DEF WellFormed, TypeInv, TypeOK, StoreTypeOK, Object
<1>1. CASE m.to = "config"
  <2>1. PerformObject(m)
    BY <1>1 DEF Perform, PerformApp, PerformQueue, PerformRule, App
  <2>2. Config' = [Patched(Config, m) EXCEPT !.rv = Config.rv + 1]
    BY <1>0, <1>1, <2>1 DEF PerformObject, Config
  <2>3. Config.rv = m.rv
    BY <1>0, <1>1 DEF Accepts, Config
  <2>4. m.kind \in Acquiring \cup Releasing => Agrees(m)
    BY <2>3 DEF Sound
  <2>5. cleared' = IF m.kind \in Releasing THEN cleared \cup {m.by} ELSE cleared
    BY <2>1 DEF PerformObject, Releasing
  <2>6. /\ Config'.rv = Config.rv + 1
        /\ m.kind = "claim" => Config'.run = m.by /\ Config'.probe = Config.probe
        /\ m.kind = "lock" => Config'.run = Config.run /\ Config'.probe = m.by
        /\ m.kind = "clear" => Config'.run = None /\ Config'.probe = Config.probe
        /\ m.kind = "unlock" => Config'.run = Config.run /\ Config'.probe = None
        /\ m.kind \notin Acquiring \cup Releasing =>
              Config'.run = Config.run /\ Config'.probe = Config.probe
    BY <1>0, <1>1, <2>2, PatchedOwners
  <2>7. CASE m.kind \in Acquiring
    BY <1>0, <2>4, <2>5, <2>6, <2>7 DEF Agrees, Take, Acquiring, Releasing, WellFormed
  <2>8. CASE m.kind \in Releasing
    BY <1>0, <2>4, <2>5, <2>6, <2>8 DEF Agrees, Give, Acquiring, Releasing, WellFormed
  <2>9. CASE m.kind \notin Acquiring \cup Releasing
    BY <1>0, <2>5, <2>6, <2>9 DEF Keep, Moves
  <2> QED BY <2>7, <2>8, <2>9 DEF Acquiring, Releasing
<1>2. CASE m.to # "config"
  <2>1. m.kind \notin Acquiring \cup Releasing
    BY <1>2 DEF WellFormed, Acquiring, Releasing
  <2>2. Config' = Config /\ cleared' = cleared
    BY <1>0, <1>2, <2>1 DEF Perform, PerformObject, PerformApp, PerformQueue, PerformRule,
                            Config, Releasing
  <2> QED BY <2>1, <2>2 DEF Keep, Moves
<1> QED BY <1>1, <1>2

-----------------------------------------------------------------------------
(* A call its author gives up on: sound, and if it acquires the Lab its     *)
(* author has had its turn.                                                 *)
Leaves(m) ==
  /\ flight' = flight \cup {m}
  /\ Sound(m)
  /\ m.kind \in Acquiring => m.by \in Unsent \ Unsent'

(* An orderly step: it does at most one thing to the lock, nobody gets to   *)
(* send a second acquiring call, and at most one call is left in flight.    *)
Acts(x) == (Take(x) \/ Give(x)) /\ x \notin Unsent' /\ x \notin Pending'

Orderly ==
  /\ Keep \/ \E x \in Run \cup Probe : Acts(x)
  /\ Unsent' \subseteq Unsent
  /\ flight' \subseteq flight \/ \E m \in Message : Leaves(m)

(* The parts of the invariant that any orderly step preserves, and the step *)
(* of the abstract lock it takes.                                           *)
OrderlyKept == OwnedOnce /\ OneClaimEach /\ FlightSound

LEMMA SoundKept ==
  ASSUME TypeInv, TypeInv', NEW m \in Message, Sound(m), Moves
  PROVE  Sound(m)'
<1>1. Config.rv \in Nat /\ Config'.rv \in Nat /\ m.rv \in Nat
  BY ConfigType DEF Message, TypeInv, TypeOK, StoreTypeOK, Document, Config, Object
<1> QED BY <1>1 DEF Sound, Agrees, Moves

LEMMA OneMoreCall ==
  ASSUME NEW calls, NEW m, OneCallEach(calls),
         \A n \in calls : ~(n.kind \in Acquiring /\ m.kind \in Acquiring /\ n.by = m.by)
  PROVE  OneCallEach(calls \cup {m})
BY DEF OneCallEach

LEMMA OrderlyInv ==
  ASSUME TypeInv, TypeInv', OrderlyKept, Orderly
  PROVE  OrderlyKept' /\ Moves /\ [Lock!Next]_(Lock!vars)
<1> USE DEF OrderlyKept
<1>0. /\ Config.run \in Run \cup {None} /\ Config.probe \in Probe \cup {None}
      /\ None \notin cleared /\ None \notin Run \cup Probe /\ Run \cap Probe = {}
      /\ flight \subseteq Message /\ flight' \subseteq Message
  BY ConfigType, StoreAssumption DEF TypeInv, TypeOK, StoreTypeOK
<1>1. Moves
  BY DEF Orderly, Acts, Keep, Take, Give, Moves
<1>2. FlightSound'
  <2>1. ASSUME NEW m \in flight' PROVE Sound(m)'
    <3>1. CASE flight' \subseteq flight
      <4>1. Sound(m) /\ m \in Message
        BY <1>0, <2>1, <3>1 DEF FlightSound
      <4> QED BY <1>1, <4>1, SoundKept
    <3>2. ASSUME NEW n \in Message, Leaves(n)
          PROVE  Sound(m)'
      <4>1. Sound(m) /\ m \in Message
        <5>1. CASE m \in flight
          BY <1>0, <5>1 DEF FlightSound
        <5>2. CASE m = n
          BY <3>2, <5>2 DEF Leaves
        <5> QED BY <3>2, <5>1, <5>2 DEF Leaves
      <4> QED BY <1>1, <4>1, SoundKept
    <3> QED BY <3>1, <3>2 DEF Orderly
  <2> QED BY <2>1 DEF FlightSound
<1>4. /\ Pending' \subseteq Pending \cup (Unsent \ Unsent')
      /\ OneCallEach(flight')
  <2>1. CASE flight' \subseteq flight
    <3>1. Pending' \subseteq Pending
      BY <2>1 DEF Pending
    <3>2. OneCallEach(flight')
      BY <2>1 DEF OneClaimEach, OneCallEach
    <3> QED BY <3>1, <3>2
  <2>2. ASSUME NEW m \in Message, Leaves(m)
        PROVE  /\ Pending' \subseteq Pending \cup (Unsent \ Unsent')
               /\ OneCallEach(flight')
    <3>1. Pending' \subseteq Pending \cup (Unsent \ Unsent')
      BY <2>2 DEF Leaves, Pending
    <3>2. m.kind \in Acquiring => m.by \notin Pending
      BY <2>2 DEF Leaves, OneClaimEach
    <3>3. ASSUME NEW n \in flight, n.kind \in Acquiring, m.kind \in Acquiring
          PROVE  n.by # m.by
      <4>1. n.by \in Pending
        BY <1>0, <3>3 DEF Pending, Message
      <4> QED BY <3>2, <3>3, <4>1
    <3>4. OneCallEach(flight \cup {m})
      BY <3>3, OneMoreCall DEF OneClaimEach
    <3> QED BY <2>2, <3>1, <3>4 DEF Leaves
  <2> QED BY <2>1, <2>2 DEF Orderly
<1>5. OneClaimEach'
  <2>1. ASSUME NEW x \in Unsent' \cup Pending'
        PROVE  NeverOwned(x)'
    <3>1. NeverOwned(x) /\ x # None
      BY <1>0, <1>4, <2>1 DEF Orderly, OneClaimEach, Pending, Unsent
    <3>2. CASE Keep
      BY <3>1, <3>2 DEF Keep, NeverOwned
    <3>3. CASE \E y \in Run \cup Probe : Acts(y)
      <4>1. PICK y \in Run \cup Probe : Acts(y)
        BY <3>3
      <4>2. x # y
        BY <2>1, <4>1 DEF Acts
      <4>3. CASE Take(y)
        BY <1>0, <3>1, <4>2, <4>3 DEF Take, NeverOwned
      <4>4. CASE Give(y)
        BY <1>0, <3>1, <4>2, <4>4 DEF Give, NeverOwned
      <4> QED BY <4>1, <4>3, <4>4 DEF Acts
    <3> QED BY <3>2, <3>3 DEF Orderly, Acquiring
  <2>2. ASSUME NEW x \in Unsent'
        PROVE  x \notin Pending'
    BY <1>4, <2>2 DEF Orderly, OneClaimEach
  <2> QED BY <1>4, <2>1, <2>2 DEF OneClaimEach
<1>6. CASE Keep
  <2>1. OwnedOnce'
    BY <1>6 DEF Keep, OwnedOnce, OneOwner
  <2>2. UNCHANGED Lock!vars
    BY <1>6 DEF Keep, Lock!vars, Holder
  <2> QED BY <1>1, <1>2, <1>5, <2>1, <2>2
<1>7. CASE \E x \in Run \cup Probe : Acts(x)
  <2>1. PICK x \in Run \cup Probe : Take(x) \/ Give(x)
    BY <1>7 DEF Acts
  <2>2. CASE Take(x)
    <3>1. OwnedOnce'
      BY <1>0, <2>2 DEF Take, OwnedOnce, OneOwner, NeverOwned
    <3>2. Lock!Acquire(x)
      BY <1>0, <2>2 DEF Take, Lock!Acquire, Holder, NeverOwned
    <3> QED BY <1>1, <1>2, <1>5, <3>1, <3>2 DEF Lock!Next
  <2>3. CASE Give(x)
    <3>1. OwnedOnce'
      BY <1>0, <2>3 DEF Give, OwnedOnce, OneOwner
    <3>2. Lock!Release
      BY <1>0, <2>3 DEF Give, Lock!Release, Holder, OwnedOnce, OneOwner
    <3> QED BY <1>1, <1>2, <1>5, <3>1, <3>2 DEF Lock!Next
  <2> QED BY <2>1, <2>2, <2>3
<1> QED BY <1>6, <1>7 DEF Orderly

-----------------------------------------------------------------------------
(* Steps are orderly: those that send nothing, those that make one call,    *)
(* and those of the environment.                                            *)

LEMMA QuietOrderly ==
  ASSUME UNCHANGED storeVars \/ ReadFails, Unsent' \subseteq Unsent
  PROVE  Orderly /\ Config' = Config
BY DEF Orderly, Keep, Moves, Config, ReadFails, storeVars, effects

LEMMA CallOrderly ==
  ASSUME TypeInv, OrderlyKept, NEW m, WellFormed(m), Sound(m), Answered(m) \/ Failed(m),
         Unsent' \subseteq Unsent, m.kind \in Acquiring => m.by \in Unsent \ Unsent'
  PROVE  Orderly
<1>0. /\ m \in Message /\ m.by \in Run \cup Probe /\ None \notin Run \cup Probe
      /\ Run \cap Probe = {}
  BY StoreAssumption DEF WellFormed, Message
<1>1. CASE Accepts(m) /\ Perform(m) /\ flight' = flight
  <2>1. m.kind \in Acquiring => NeverOwned(m.by)
    BY DEF OrderlyKept, OneClaimEach
  <2>2. /\ m.kind \in Acquiring => Take(m.by)
        /\ m.kind \in Releasing => Give(m.by)
        /\ m.kind \notin Acquiring \cup Releasing => Keep
    BY <1>1, <2>1, PerformLock
  <2>3. Pending' = Pending
    BY <1>1 DEF Pending
  <2>4. CASE m.kind \in Acquiring
    <3>1. m.by \notin Pending /\ m.by \notin Unsent'
      BY <2>4 DEF OrderlyKept, OneClaimEach
    <3> QED BY <1>0, <1>1, <2>2, <2>3, <2>4, <3>1 DEF Orderly, Acts
  <2>5. CASE m.kind \in Releasing
    <3>1. ~NeverOwned(m.by)
      BY <2>2, <2>5 DEF Give, NeverOwned
    <3>2. m.by \notin Unsent /\ m.by \notin Pending
      BY <3>1 DEF OrderlyKept, OneClaimEach
    <3> QED BY <1>0, <1>1, <2>2, <2>3, <2>5, <3>2 DEF Orderly, Acts
  <2>6. CASE m.kind \notin Acquiring \cup Releasing
    BY <1>1, <2>2, <2>6 DEF Orderly
  <2> QED BY <2>4, <2>5, <2>6
<1>2. CASE UNCHANGED effects /\ flight' \in {flight, flight \cup {m}}
  <2>1. Keep
    BY <1>2 DEF effects, Keep, Moves, Config
  <2>2. CASE flight' = flight
    BY <2>1, <2>2 DEF Orderly
  <2>3. CASE flight' = flight \cup {m}
    <3>1. Leaves(m)
      BY <2>3 DEF Leaves
    <3> QED BY <1>0, <2>1, <3>1 DEF Orderly
  <2> QED BY <1>2, <2>2, <2>3
<1>3. Answered(m) => (Accepts(m) /\ Perform(m) /\ flight' = flight)
  BY DEF Answered
<1>4. Refused(m) => (UNCHANGED effects /\ flight' \in {flight, flight \cup {m}})
  BY DEF Refused, storeVars
<1>5. Unanswered(m) => (Accepts(m) /\ Perform(m) /\ flight' = flight) \/ (UNCHANGED effects /\ flight' \in {flight, flight \cup {m}})
  BY DEF Unanswered
<1> QED BY <1>1, <1>2, <1>3, <1>4, <1>5 DEF Failed

LEMMA EnvironmentOrderly ==
  ASSUME TypeInv, OrderlyKept, Environment, Unsent' = Unsent
  PROVE  Orderly
<1>0. /\ flight \subseteq Message /\ Config.rv \in Nat /\ Config \in Document
      /\ store \in [Object -> Document] /\ "config" \in Object
      /\ None \notin Run \cup Probe /\ Run \cap Probe = {}
  BY StoreAssumption, ConfigType DEF TypeInv, TypeOK, StoreTypeOK, Object
<1>1. ASSUME NEW m \in flight, Deliver(m)
      PROVE  Orderly
  <2>0. /\ WellFormed(m) /\ Sound(m) /\ m \in Message /\ m.by \in Run \cup Probe
        /\ Accepts(m) /\ Perform(m) /\ flight' = flight \ {m}
    BY <1>0, <1>1 DEF TypeInv, OrderlyKept, FlightSound, Deliver, Message
  <2>1. m.kind \in Acquiring => m.by \in Pending
    BY <2>0 DEF Pending
  <2>2. /\ m.kind \in Acquiring => Take(m.by)
        /\ m.kind \in Releasing => Give(m.by)
        /\ m.kind \notin Acquiring \cup Releasing => Keep
    BY <2>0, <2>1, PerformLock DEF OrderlyKept, OneClaimEach
  <2>3. Pending' \subseteq Pending
    BY <2>0 DEF Pending
  <2>4. CASE m.kind \in Acquiring
    <3>1. ASSUME NEW n \in flight', n.kind \in Acquiring
          PROVE  n.by # m.by
      BY <2>0, <2>4, <3>1 DEF OrderlyKept, OneClaimEach, OneCallEach
    <3>2. m.by \notin Pending'
      BY <3>1 DEF Pending, Acquiring
    <3>3. m.by \notin Unsent'
      BY <2>1, <2>4 DEF OrderlyKept, OneClaimEach
    <3> QED BY <2>0, <2>2, <2>4, <3>2, <3>3 DEF Orderly, Acts
  <2>5. CASE m.kind \in Releasing
    <3>1. ~NeverOwned(m.by)
      BY <1>0, <2>0, <2>2, <2>5 DEF Give, NeverOwned
    <3>2. m.by \notin Unsent' /\ m.by \notin Pending'
      BY <2>3, <3>1 DEF OrderlyKept, OneClaimEach
    <3> QED BY <2>0, <2>2, <2>5, <3>2 DEF Orderly, Acts
  <2>6. CASE m.kind \notin Acquiring \cup Releasing
    BY <2>0, <2>2, <2>6 DEF Orderly
  <2> QED BY <2>4, <2>5, <2>6
<1>2. ASSUME NEW m \in flight, Discard(m)
      PROVE  Orderly
  BY <1>2 DEF Discard, effects, Orderly, Keep, Moves, Config
<1>3. ASSUME NEW o \in Object, NEW v \in OperatorValue, OperatorEdit(o, v)
      PROVE  Orderly
  <2>1. CASE o = "config"
    <3>1. Config' = [Config EXCEPT !.val = v, !.rv = Config.rv + 1]
      BY <1>0, <1>3, <2>1 DEF OperatorEdit, Config
    <3>2. /\ Config'.rv = Config.rv + 1
          /\ Config'.run = Config.run /\ Config'.probe = Config.probe
      BY <1>0, <3>1 DEF Document
    <3>3. Config'.rv > Config.rv
      BY <1>0, <3>2
    <3> QED BY <1>3, <3>2, <3>3 DEF OperatorEdit, Orderly, Keep, Moves
  <2>2. CASE o # "config"
    <3>1. Config' = Config
      BY <1>0, <1>3, <2>2 DEF OperatorEdit, Config
    <3> QED BY <1>3, <3>1 DEF OperatorEdit, Orderly, Keep, Moves
  <2> QED BY <2>1, <2>2
<1>4. ASSUME NEW a \in App, LeaseExpires(a)
      PROVE  Orderly
  BY <1>4 DEF LeaseExpires, Orderly, Keep, Moves, Config
<1> QED BY <1>1, <1>2, <1>3, <1>4 DEF Environment

-----------------------------------------------------------------------------
(* The controller's steps.                                                  *)

(* A step that hands out no identity, keeps or forgets the run in memory    *)
(* and does not leave the thread before one of the two guarded patches.     *)
ControllerPlain ==
  /\ used' = used /\ proc' = proc
  /\ active'.run \in {active.run, None}
  /\ pc' \notin {"claim_get", "claim_patch", "clear_patch"}

LEMMA PlainKept ==
  ASSUME ActiveUsed, ControllerPlain
  PROVE  Unsent' \subseteq Unsent /\ ControllerSound' /\ ActiveUsed'
<1>1. Unsent' \subseteq Unsent
  BY DEF ControllerPlain, Unsent
<1>2. ControllerSound'
  BY DEF ControllerPlain, ControllerSound
<1>3. ActiveUsed'
  BY DEF ControllerPlain, ActiveUsed
<1> QED BY <1>1, <1>2, <1>3

LEMMA PlainCall ==
  ASSUME TypeInv, LockInv, ControllerPlain, NEW m, WellFormed(m), m.kind \notin Acquiring,
         Sound(m), Answered(m) \/ Failed(m)
  PROVE  Orderly /\ ControllerSound' /\ ActiveUsed'
BY PlainKept, CallOrderly DEF LockInv, OrderlyKept

LEMMA PlainQuiet ==
  ASSUME LockInv, ControllerPlain, UNCHANGED storeVars \/ ReadFails
  PROVE  Orderly /\ ControllerSound' /\ ActiveUsed'
BY PlainKept, QuietOrderly DEF LockInv

(* What the controller sends, other than the claim, needs no premise, or    *)
(* the one its thread holds.                                                *)
LEMMA PlainMessages ==
  ASSUME NEW r, NEW o, NEW rv
  PROVE  /\ \A kind \in {"journal", "restore", "note_job"} :
              /\ Sound(ToObject(kind, o, rv, r))
              /\ ToObject(kind, o, rv, r).kind \notin Acquiring
         /\ \A kind \in {"fault", "normal", "insert", "delete"} :
              /\ Sound(ToOther(kind, o, r))
              /\ ToOther(kind, o, r).kind \notin Acquiring
BY DEF Sound, ToObject, ToOther, Acquiring, Releasing

LEMMA FailedPlain ==
  ASSUME TypeInv, StartFailed, proc' = proc
  PROVE  ControllerPlain
BY DEF StartFailed, BeginRecovery, ControllerPlain, TypeInv, TypeOK, ControllerTypeOK, Activity

LEMMA StartStepsOrderly ==
  ASSUME TypeInv, LockInv, StartSteps, UNCHANGED probeVars
  PROVE  Orderly /\ ControllerSound' /\ ActiveUsed'
<1> DEFINE r == active.run
<1>0. /\ seen \in Nat /\ active \in Activity /\ active.targets \in SUBSET Step
      /\ todo \subseteq Step /\ proc' = proc
      /\ pc # "idle" => r \in Run
      /\ Object = {"config", "service", "monitor"} /\ Config.rv \in Nat
  BY ConfigType DEF TypeInv, TypeOK, AtTarget, ControllerTypeOK, Activity, Object, probeVars
<1>1. CASE ClaimGet
  <2>1. Unsent' \subseteq Unsent
    BY <1>0, <1>1 DEF ClaimGet, Unsent
  <2>2. Orderly /\ Config' = Config
    BY <1>1, <2>1, QuietOrderly DEF ClaimGet
  <2>3. ControllerSound'
    BY <1>0, <1>1, <2>2 DEF ClaimGet, ControllerSound, Unowned
  <2>4. ActiveUsed'
    BY <1>1 DEF ClaimGet, ActiveUsed, LockInv
  <2> QED BY <2>2, <2>3, <2>4
<1>2. CASE ClaimPatch
  <2> DEFINE m == ClaimMessage(seen, r, active.targets)
  <2>0. r \in Run /\ r # None /\ r \in used /\ r \notin Probe
    BY <1>0, <1>2, StoreAssumption DEF ClaimPatch, ActiveUsed, LockInv
  <2>1. WellFormed(m)
    BY <1>0, <2>0, ControllerMessages
  <2>2. m.kind = "claim" /\ m.by = r /\ m.rv = seen
    BY DEF ClaimMessage
  <2>3. Sound(m)
    BY <1>2, <2>2 DEF ClaimPatch, LockInv, ControllerSound, Sound, Agrees, Acquiring, Releasing
  <2>4. ControllerPlain
    BY <1>0, <1>2 DEF ClaimPatch, ControllerPlain
  <2>5. r \in Unsent
    BY <1>2, <2>0 DEF ClaimPatch, Unsent
  <2>6. r \notin Unsent'
    BY <1>2, <2>0, <2>4 DEF ControllerPlain, Unsent
  <2>7. Unsent' \subseteq Unsent /\ ControllerSound' /\ ActiveUsed'
    BY <2>4, PlainKept DEF LockInv
  <2>8. Answered(m) \/ Failed(m)
    BY <1>2 DEF ClaimPatch
  <2>9. Orderly
    BY <2>1, <2>2, <2>3, <2>5, <2>6, <2>7, <2>8, CallOrderly DEF LockInv, OrderlyKept
  <2> QED BY <2>7, <2>9
<1>3. CASE ClaimCheck
  <2>1. ControllerPlain
    BY <1>0, <1>3, FailedPlain DEF ClaimCheck, ControllerPlain, Return, Idle
  <2> QED BY <1>3, <2>1, PlainQuiet DEF ClaimCheck
<1>4. CASE CheckMonitor
  <2>1. ControllerPlain
    BY <1>0, <1>4, FailedPlain DEF CheckMonitor, ControllerPlain
  <2> QED BY <1>4, <2>1, PlainQuiet DEF CheckMonitor
<1>5. CASE FieldGet
  <2>1. ControllerPlain
    BY <1>0, <1>5, FailedPlain DEF FieldGet, ControllerPlain
  <2> QED BY <1>5, <2>1, PlainQuiet DEF FieldGet
<1>6. CASE FieldPatch
  <2>1. WellFormed(ToObject("journal", Due, seen, r))
    BY <1>0, <1>6, ControllerMessages DEF FieldPatch, TypeInv, AtTarget
  <2>2. ControllerPlain
    BY <1>0, <1>6, FailedPlain DEF FieldPatch, ControllerPlain
  <2> QED BY <1>6, <2>1, <2>2, PlainMessages, PlainCall DEF FieldPatch
<1>7. CASE PostFault
  <2>1. WellFormed(ToOther("fault", Due, r))
    BY <1>0, <1>7, ControllerMessages DEF PostFault
  <2>2. ControllerPlain
    BY <1>0, <1>7, FailedPlain DEF PostFault, ControllerPlain
  <2> QED BY <1>7, <2>1, <2>2, PlainMessages, PlainCall DEF PostFault
<1>8. CASE InsertJob
  <2>1. WellFormed(ToOther("insert", "queue", r))
    BY <1>0, <1>8, ControllerMessages DEF InsertJob
  <2>2. ControllerPlain
    BY <1>0, <1>8, FailedPlain DEF InsertJob, ControllerPlain, Activity
  <2> QED BY <1>8, <2>1, <2>2, PlainMessages, PlainCall DEF InsertJob
<1>9. CASE JobGet
  <2>1. ControllerPlain
    BY <1>0, <1>9, FailedPlain DEF JobGet, ControllerPlain
  <2> QED BY <1>9, <2>1, PlainQuiet DEF JobGet
<1>10. CASE JobPatch
  <2>1. WellFormed(ToObject("note_job", "config", seen, r))
    BY <1>0, <1>10, ControllerMessages DEF JobPatch
  <2>2. ControllerPlain
    BY <1>0, <1>10, FailedPlain DEF JobPatch, ControllerPlain
  <2> QED BY <1>10, <2>1, <2>2, PlainMessages, PlainCall DEF JobPatch
<1>11. CASE Running
  <2>1. ControllerPlain
    BY <1>0, <1>11 DEF Running, Return, ControllerPlain, Activity
  <2> QED BY <1>11, <2>1, PlainQuiet DEF Running
<1> QED BY <1>1, <1>2, <1>3, <1>4, <1>5, <1>6, <1>7, <1>8, <1>9, <1>10, <1>11 DEF StartSteps

LEMMA NextTargetPlain ==
  ASSUME NEW failed, NextTarget(failed), pc' \in {pc, "recover", "restore_patch"},
         pc \in {"recover", "restore_patch"}, proc' = proc
  PROVE  ControllerPlain
BY DEF NextTarget, ControllerPlain

LEMMA RecoveryStepsOrderly ==
  ASSUME TypeInv, LockInv, RecoverySteps, UNCHANGED probeVars
  PROVE  Orderly /\ ControllerSound' /\ ActiveUsed'
<1> DEFINE r == active.run
<1>0. /\ seen \in Nat /\ active \in Activity /\ todo \subseteq Step /\ proc' = proc
      /\ pc # "idle" => r \in Run
      /\ Object = {"config", "service", "monitor"} /\ Config.rv \in Nat
  BY ConfigType DEF TypeInv, TypeOK, AtTarget, ControllerTypeOK, Object, probeVars
<1>a. ASSUME StillRecovering \/ active' = Idle, Return, used' = used
      PROVE  ControllerPlain
  BY <1>0, <1>a DEF StillRecovering, Idle, Return, ControllerPlain, Activity
<1>1. CASE RestoreGet
  <2>1. ControllerPlain
    BY <1>0, <1>1, NextTargetPlain DEF RestoreGet, ControllerPlain
  <2> QED BY <1>1, <2>1, PlainQuiet DEF RestoreGet
<1>2. CASE RestorePatch
  <2>1. WellFormed(ToObject("restore", Due, seen, r))
    BY <1>0, <1>2, ControllerMessages DEF RestorePatch, TypeInv, AtTarget
  <2>2. ControllerPlain
    BY <1>0, <1>2, NextTargetPlain DEF RestorePatch
  <2> QED BY <1>2, <2>1, <2>2, PlainMessages, PlainCall DEF RestorePatch
<1>3. CASE PostNormal
  <2>1. WellFormed(ToOther("normal", Due, r))
    BY <1>0, <1>3, ControllerMessages DEF PostNormal
  <2>2. ControllerPlain
    BY <1>0, <1>3, NextTargetPlain DEF PostNormal
  <2>3. CASE UNCHANGED storeVars
    BY <2>2, <2>3, PlainQuiet
  <2>4. CASE \/ Answered(ToOther("normal", Due, r)) \/ Failed(ToOther("normal", Due, r))
    BY <2>1, <2>2, <2>4, PlainMessages, PlainCall
  <2> QED BY <1>3, <2>3, <2>4 DEF PostNormal
<1>4. CASE DeleteJob
  <2>1. WellFormed(ToOther("delete", "queue", r))
    BY <1>0, <1>4, ControllerMessages DEF DeleteJob
  <2>2. ControllerPlain
    BY <1>0, <1>4, NextTargetPlain DEF DeleteJob
  <2> QED BY <1>4, <2>1, <2>2, PlainMessages, PlainCall DEF DeleteJob
<1>5. CASE KeepRecovering
  BY <1>5, <1>a, PlainQuiet DEF KeepRecovering
<1>6. CASE ClearGet
  <2>1. CASE StillRecovering /\ Return
    <3>1. ControllerPlain
      BY <1>6, <1>a, <2>1 DEF ClearGet
    <3> QED BY <1>6, <3>1, PlainQuiet DEF ClearGet
  <2>2. CASE /\ r = Config.run /\ seen' = Config.rv /\ pc' = "clear_patch"
             /\ UNCHANGED <<active, storeVars>>
    <3>1. Unsent' \subseteq Unsent
      BY <1>0, <1>6, <2>2 DEF ClearGet, Unsent
    <3>2. Orderly /\ Config' = Config
      BY <2>2, <3>1, QuietOrderly
    <3>3. ControllerSound'
      BY <1>0, <2>2, <3>2 DEF ControllerSound
    <3>4. ActiveUsed'
      BY <1>6, <2>2 DEF ClearGet, ActiveUsed, LockInv
    <3> QED BY <3>2, <3>3, <3>4
  <2> QED BY <1>6, <2>1, <2>2 DEF ClearGet
<1>7. CASE ClearPatch
  <2> DEFINE m == ToObject("clear", "config", seen, r)
  <2>1. WellFormed(m)
    BY <1>0, <1>7, ControllerMessages DEF ClearPatch
  <2>2. m.kind = "clear" /\ m.by = r /\ m.rv = seen
    BY DEF ToObject
  <2>3. Sound(m) /\ m.kind \notin Acquiring
    BY <1>7, <2>2 DEF ClearPatch, LockInv, ControllerSound, Sound, Agrees, Acquiring, Releasing
  <2>4. ControllerPlain
    BY <1>7, <1>a DEF ClearPatch
  <2>5. Answered(m) \/ Failed(m)
    BY <1>7 DEF ClearPatch
  <2> QED BY <2>1, <2>3, <2>4, <2>5, PlainCall
<1> QED BY <1>1, <1>2, <1>3, <1>4, <1>5, <1>6, <1>7 DEF RecoverySteps

LEMMA ControllerOrderly ==
  ASSUME TypeInv, LockInv, ControllerStep
  PROVE  Orderly /\ ControllerSound' /\ ActiveUsed'
<1>0. /\ active \in Activity /\ proc' = proc /\ UNCHANGED probeVars
      /\ Config.run \in Run \cup {None} /\ None \notin Run \cup Probe
  BY ConfigType, StoreAssumption DEF TypeInv, TypeOK, ControllerTypeOK, ControllerStep, probeVars
<1>1. ASSUME NEW r \in Run, NEW plan \in Plans, Start(r, plan)
      PROVE  Orderly /\ ControllerSound' /\ ActiveUsed'
  <2>1. /\ used' = used \cup {r} /\ r \notin used /\ active'.run = r
        /\ pc' = "claim_get" /\ UNCHANGED storeVars
    BY <1>1 DEF Start
  <2>2. Unsent' \subseteq Unsent
    BY <1>0, <2>1 DEF Unsent
  <2>3. ControllerSound' /\ ActiveUsed'
    BY <2>1 DEF ControllerSound, ActiveUsed
  <2> QED BY <2>1, <2>2, <2>3, QuietOrderly
<1>2. CASE RecoverActive
  <2>1. ControllerPlain
    BY <1>0, <1>2 DEF RecoverActive, BeginRecovery, ControllerPlain
  <2> QED BY <1>2, <2>1, PlainQuiet DEF RecoverActive
<1>3. CASE AdoptPersisted
  <2>1. Config.run \in used
    <3>1. ~NeverOwned(Config.run)
      BY DEF NeverOwned
    <3>2. Config.run \notin Unsent
      BY <3>1 DEF LockInv, OneClaimEach
    <3> QED BY <1>0, <1>3, <3>2 DEF AdoptPersisted, Unsent
  <2>2. /\ used' = used /\ active'.run = Config.run /\ pc' = "recover" /\ UNCHANGED storeVars
    BY <1>3 DEF AdoptPersisted, BeginRecovery, Persisted
  <2>3. Unsent' \subseteq Unsent
    BY <1>0, <2>2 DEF Unsent
  <2>4. ControllerSound' /\ ActiveUsed'
    BY <2>1, <2>2 DEF ControllerSound, ActiveUsed
  <2> QED BY <2>2, <2>3, <2>4, QuietOrderly
<1>4. CASE ControllerCrash
  <2>1. ControllerPlain
    BY <1>0, <1>4 DEF ControllerCrash, Return, Idle, ControllerPlain
  <2>2. Unsent' \subseteq Unsent /\ ControllerSound' /\ ActiveUsed'
    BY <2>1, PlainKept DEF LockInv
  <2>3. Orderly
    BY <1>4, <2>2 DEF ControllerCrash, effects, Orderly, Keep, Moves, Config
  <2> QED BY <2>2, <2>3
<1> QED BY <1>0, <1>1, <1>2, <1>3, <1>4, StartStepsOrderly, RecoveryStepsOrderly
        DEF ControllerStep, ControllerNext

-----------------------------------------------------------------------------
(* The probes' steps.                                                       *)

LEMMA PremiseKept ==
  ASSUME NEW c, NEW d, NEW p, NEW at, NEW rv \in Nat, c.rv \in Nat, d.rv \in Nat,
         Premise(c, p, at, rv),
         \/ d.rv > c.rv
         \/ d.rv = c.rv /\ d.run = c.run /\ d.probe = c.probe
  PROVE  Premise(d, p, at, rv)
BY DEF Premise

(* A process that moves elsewhere disturbs no other, and need not account   *)
(* for itself unless it is about to send a guarded patch.                   *)
LEMMA GoSound ==
  ASSUME TypeInv, TypeInv', ProbeSound, Moves, NEW p \in Probe, NEW a \in Actor,
         NEW to, Go(p, a, to), readRv' = readRv \/ \E rv \in Nat : Keeps(p, a, rv),
         to \in {"lock_patch", "release_patch"} => Premise(Config', p, to, readRv'[p][a])
  PROVE  ProbeSound'
<1>1. /\ proc \in [Probe -> [Actor -> ProcPC]] /\ readRv \in [Probe -> [Actor -> Nat]]
      /\ Config.rv \in Nat /\ Config'.rv \in Nat
  BY ConfigType DEF TypeInv, TypeOK, ProbeTypeOK, StoreTypeOK, Config, Object, Document
<1>2. ASSUME NEW q \in Probe, NEW b \in Actor
      PROVE  Premise(Config', q, proc'[q][b], readRv'[q][b])
  <2>1. CASE q = p /\ b = a
    <3>1. proc'[q][b] = to
      BY <1>1, <2>1 DEF Go
    <3>2. CASE to \in {"lock_patch", "release_patch"}
      BY <2>1, <3>1, <3>2
    <3>3. CASE to \notin {"lock_patch", "release_patch"}
      BY <3>1, <3>3 DEF Premise
    <3> QED BY <3>2, <3>3
  <2>2. CASE ~(q = p /\ b = a)
    <3>1. proc'[q][b] = proc[q][b] /\ readRv'[q][b] = readRv[q][b]
      BY <1>1, <2>2 DEF Go, Keeps
    <3>2. readRv[q][b] \in Nat /\ Premise(Config, q, proc[q][b], readRv[q][b])
      BY <1>1 DEF ProbeSound
    <3>3. Premise(Config', q, proc[q][b], readRv[q][b])
      BY <1>1, <3>2, PremiseKept DEF Moves
    <3> QED BY <3>1, <3>3
  <2> QED BY <2>1, <2>2
<1> QED BY <1>2 DEF ProbeSound

(* A parent that has sent its lock, or ended before, does not come back.    *)
LEMMA GoUnsent ==
  ASSUME TypeInv, UNCHANGED localVars, NEW p \in Probe, NEW a \in Actor, NEW to, Go(p, a, to),
         \/ to \notin {"none", "lock_get", "lock_patch"}
         \/ a = "parent" /\ proc[p]["parent"] \in {"none", "lock_get", "lock_patch"}
  PROVE  Unsent' \subseteq Unsent
<1>1. proc \in [Probe -> [Actor -> ProcPC]] /\ "parent" \in Actor
  BY DEF TypeInv, TypeOK, ProbeTypeOK, Actor
<1>2. \A q \in Probe : proc'[q]["parent"] \in {"none", "lock_get", "lock_patch"}
                       => proc[q]["parent"] \in {"none", "lock_get", "lock_patch"}
  BY <1>1 DEF Go
<1> QED BY <1>2 DEF Unsent, localVars

LEMMA OrderlyMoves ==
  ASSUME Orderly
  PROVE  Moves
BY DEF Orderly, Acts, Keep, Take, Give, Moves

(* A process that makes a call, or none, and goes on to something else.     *)
LEMMA ElsewhereQuiet ==
  ASSUME TypeInv, TypeInv', LockInv, UNCHANGED localVars, NEW p \in Probe, NEW a \in Actor,
         NEW to, to \notin {"none", "lock_get", "lock_patch", "release_patch"},
         Go(p, a, to), readRv' = readRv \/ \E rv \in Nat : Keeps(p, a, rv),
         UNCHANGED storeVars \/ ReadFails
  PROVE  Orderly /\ ProbeSound'
<1>1. Orderly
  BY GoUnsent, QuietOrderly
<1> QED BY <1>1, OrderlyMoves, GoSound DEF LockInv

LEMMA ElsewhereCall ==
  ASSUME TypeInv, TypeInv', LockInv, UNCHANGED localVars, NEW p \in Probe, NEW a \in Actor,
         NEW m, WellFormed(m), Sound(m),
         m.kind \in Acquiring => m.by \in Unsent \ Unsent',
         NEW ok, NEW failed,
         ok \notin {"none", "lock_get", "lock_patch", "release_patch"},
         failed \notin {"none", "lock_get", "lock_patch", "release_patch"},
         Calls(p, a, m, ok, failed), readRv' = readRv \/ \E rv \in Nat : Keeps(p, a, rv)
  PROVE  Orderly /\ ProbeSound'
<1>1. PICK to \in {ok, failed} : Go(p, a, to) /\ (Answered(m) \/ Failed(m))
  BY DEF Calls
<1>2. Unsent' \subseteq Unsent
  BY <1>1, GoUnsent
<1>3. Orderly
  BY <1>1, <1>2, CallOrderly DEF LockInv, OrderlyKept
<1> QED BY <1>1, <1>3, OrderlyMoves, GoSound DEF LockInv

(* What a probe sends about the monitor and the rule needs no premise.      *)
LEMMA ProbeMessagesSound ==
  ASSUME NEW p, NEW rv
  PROVE  /\ \A kind \in {"break", "unbreak"} :
              /\ Sound(ToObject(kind, "monitor", rv, p))
              /\ ToObject(kind, "monitor", rv, p).kind \notin Acquiring
         /\ \A kind \in {"create", "remove"} :
              /\ Sound(ToOther(kind, "rule", p))
              /\ ToOther(kind, "rule", p).kind \notin Acquiring
BY DEF Sound, ToObject, ToOther, Acquiring, Releasing

LEMMA RestoreStepsOrderly ==
  ASSUME TypeInv, TypeInv', LockInv, UNCHANGED localVars, NEW p \in Probe, NEW a \in Actor,
         RestoreSteps(p, a)
  PROVE  Orderly /\ ProbeSound'
<1>0. /\ readRv \in [Probe -> [Actor -> Nat]] /\ readRv[p][a] \in Nat
      /\ store["config"] = Config /\ Config.rv \in Nat /\ store["monitor"].rv \in Nat
  BY ConfigType DEF TypeInv, TypeOK, ProbeTypeOK, Config, StoreTypeOK, Object, Document
<1>1. CASE RestoreMonitorGet(p, a)
  <2>1. \E to \in {"unbreak", "remove", "raised"} : Go(p, a, to)
    BY <1>1 DEF RestoreMonitorGet
  <2>2. readRv' = readRv \/ \E rv \in Nat : Keeps(p, a, rv)
    BY <1>0, <1>1 DEF RestoreMonitorGet
  <2>3. UNCHANGED storeVars \/ ReadFails
    BY <1>1 DEF RestoreMonitorGet
  <2> QED BY <2>1, <2>2, <2>3, ElsewhereQuiet
<1>2. CASE UnbreakMonitor(p, a)
  <2>1. Calls(p, a, ToObject("unbreak", "monitor", readRv[p][a], p), "remove", "raised")
    BY <1>2 DEF UnbreakMonitor
  <2>2. WellFormed(ToObject("unbreak", "monitor", readRv[p][a], p))
    BY <1>0, ProbeMessages
  <2> QED BY <1>2, <2>1, <2>2, ProbeMessagesSound, ElsewhereCall DEF UnbreakMonitor
<1>3. CASE RemoveRule(p, a)
  <2>1. CASE UNCHANGED storeVars /\ (Go(p, a, "save") \/ Go(p, a, "raised"))
    BY <1>3, <2>1, ElsewhereQuiet DEF RemoveRule
  <2>2. CASE Calls(p, a, ToOther("remove", "rule", p), "save", "raised")
    <3>1. WellFormed(ToOther("remove", "rule", p))
      BY ProbeMessages
    <3> QED BY <1>3, <2>2, <3>1, ProbeMessagesSound, ElsewhereCall DEF RemoveRule
  <2> QED BY <1>3, <2>1, <2>2 DEF RemoveRule
<1>4. CASE SaveRecovery(p, a)
  <2>1. Go(p, a, "release_get") /\ readRv' = readRv /\ UNCHANGED storeVars
    BY <1>4 DEF SaveRecovery
  <2> QED BY <2>1, ElsewhereQuiet
<1>5. CASE ReleaseGet(p, a)
  <2>1. CASE /\ readRv' = readRv /\ (UNCHANGED storeVars \/ ReadFails)
             /\ Go(p, a, "done") \/ Go(p, a, "raised")
    BY <2>1, ElsewhereQuiet
  <2>2. CASE /\ Config.probe = p /\ Keeps(p, a, Config.rv) /\ Go(p, a, "release_patch")
             /\ UNCHANGED storeVars
    <3>1. Orderly /\ Config' = Config
      BY <2>2, GoUnsent, QuietOrderly
    <3>2. readRv'[p][a] = Config.rv
      BY <1>0, <2>2 DEF Keeps
    <3>3. Premise(Config', p, "release_patch", readRv'[p][a])
      BY <1>0, <2>2, <3>1, <3>2 DEF Premise
    <3> QED BY <1>0, <2>2, <3>1, <3>3, OrderlyMoves, GoSound DEF LockInv
  <2> QED BY <1>5, <2>1, <2>2 DEF ReleaseGet, Config
<1>6. CASE ReleasePatch(p, a)
  <2> DEFINE m == ToObject("unlock", "config", readRv[p][a], p)
  <2>1. WellFormed(m)
    BY <1>0, ProbeMessages
  <2>2. m.kind = "unlock" /\ m.by = p /\ m.rv = readRv[p][a]
    BY DEF ToObject
  <2>3. proc[p][a] = "release_patch"
    BY <1>6 DEF ReleasePatch, At
  <2>4. Premise(Config, p, "release_patch", readRv[p][a])
    BY <2>3 DEF LockInv, ProbeSound
  <2>5. Sound(m) /\ m.kind \notin Acquiring
    BY <2>2, <2>4 DEF Premise, Sound, Agrees, Acquiring, Releasing
  <2>6. Calls(p, a, m, "done", "raised") /\ Keeps(p, a, 0)
    BY <1>6 DEF ReleasePatch
  <2> HIDE DEF m
  <2> QED BY <2>1, <2>5, <2>6, ElsewhereCall
<1> QED BY <1>1, <1>2, <1>3, <1>4, <1>5, <1>6 DEF RestoreSteps

LEMMA ProbeOrderly ==
  ASSUME TypeInv, TypeInv', LockInv, ProbeStep
  PROVE  Orderly /\ ProbeSound'
<1> DEFINE shown == active.run
<1>0. PICK p \in Probe : \/ Preflight(p, shown) \/ ParentSteps(p, shown)
                         \/ RestoreSteps(p, "parent") \/ WatchdogSteps(p) \/ ParentKilled(p)
  BY DEF ProbeStep, ProbeNext
<1>a. /\ readRv \in [Probe -> [Actor -> Nat]] /\ monitorRv \in [Probe -> Nat]
      /\ proc \in [Probe -> [Actor -> ProcPC]]
      /\ store["config"] = Config /\ Config.rv \in Nat
      /\ "parent" \in Actor /\ "watchdog" \in Actor /\ UNCHANGED localVars
  BY ConfigType DEF TypeInv, TypeOK, ProbeTypeOK, Config, Actor, ProbeStep
<1>b. readRv[p]["parent"] \in Nat /\ monitorRv[p] \in Nat
  BY <1>a
<1>1. CASE Preflight(p, shown)
  <2>1. Go(p, "parent", "lock_get") /\ proc[p]["parent"] = "none"
    BY <1>1 DEF Preflight, At
  <2>2. Orderly
    BY <1>1, <1>a, <2>1, GoUnsent, QuietOrderly DEF Preflight
  <2> QED BY <1>1, <1>a, <2>1, <2>2, OrderlyMoves, GoSound DEF Preflight, LockInv
<1>2. CASE LockGet(p)
  <2>1. proc[p]["parent"] = "lock_get"
    BY <1>2 DEF LockGet, At
  <2>2. CASE Go(p, "parent", "raised") /\ UNCHANGED readRv
    BY <1>2, <1>a, <2>2, ElsewhereQuiet DEF LockGet
  <2>3. CASE /\ Config.run = None /\ Config.probe = None
             /\ Keeps(p, "parent", Config.rv) /\ Go(p, "parent", "lock_patch")
             /\ UNCHANGED storeVars
    <3>1. Orderly /\ Config' = Config
      BY <1>a, <2>1, <2>3, GoUnsent, QuietOrderly
    <3>2. readRv'[p]["parent"] = Config.rv
      BY <1>a, <2>3 DEF Keeps
    <3>3. Premise(Config', p, "lock_patch", readRv'[p]["parent"])
      BY <1>a, <2>3, <3>1, <3>2 DEF Premise
    <3> QED BY <1>a, <2>3, <3>1, <3>3, OrderlyMoves, GoSound DEF LockInv
  <2> QED BY <1>2, <1>a, <2>2, <2>3 DEF LockGet
<1>3. CASE LockPatch(p)
  <2> DEFINE m == ToObject("lock", "config", readRv[p]["parent"], p)
  <2>1. WellFormed(m)
    BY <1>b, ProbeMessages
  <2>2. m.kind = "lock" /\ m.by = p /\ m.rv = readRv[p]["parent"]
    BY DEF ToObject
  <2>3. proc[p]["parent"] = "lock_patch"
    BY <1>3 DEF LockPatch, At
  <2>4. Premise(Config, p, "lock_patch", readRv[p]["parent"])
    BY <1>a, <2>3 DEF LockInv, ProbeSound
  <2>5. Sound(m)
    BY <2>2, <2>4 DEF Premise, Sound, Agrees, Acquiring, Releasing
  <2>6. Calls(p, "parent", m, "spawn", "raised") /\ Keeps(p, "parent", 0)
    BY <1>3 DEF LockPatch
  <2>7. p \in Unsent
    BY <2>3 DEF Unsent
  <2>8. proc'[p]["parent"] \in {"spawn", "raised"}
    BY <1>a, <2>6 DEF Calls, Go
  <2>9. p \notin Unsent'
    BY <2>8, StoreAssumption DEF Unsent
  <2> HIDE DEF m
  <2> QED BY <1>a, <2>1, <2>2, <2>5, <2>6, <2>7, <2>9, ElsewhereCall
<1>4. CASE Spawn(p)
  <2>1. /\ \A q \in Probe, b \in Actor :
             proc'[q][b] = proc[q][b] \/ proc'[q][b] \in {"recheck", "waiting"}
        /\ readRv' = readRv /\ UNCHANGED storeVars
    BY <1>4, <1>a DEF Spawn, Actor
  <2>2. Unsent' \subseteq Unsent
    BY <1>a, <2>1 DEF Unsent, localVars
  <2>3. Orderly /\ Config' = Config
    BY <2>1, <2>2, QuietOrderly
  <2>4. ProbeSound'
    <3>1. ASSUME NEW q \in Probe, NEW b \in Actor
          PROVE  Premise(Config', q, proc'[q][b], readRv'[q][b])
      <4>1. Premise(Config, q, proc[q][b], readRv[q][b])
        BY DEF LockInv, ProbeSound
      <4>2. CASE proc'[q][b] = proc[q][b]
        BY <2>1, <2>3, <4>1, <4>2
      <4>3. CASE proc'[q][b] \in {"recheck", "waiting"}
        BY <4>3 DEF Premise
      <4> QED BY <2>1, <4>2, <4>3
    <3> QED BY <3>1 DEF ProbeSound
  <2> QED BY <2>3, <2>4
<1>5. CASE Recheck(p, shown)
  <2>1. \E to \in {"create", "restore"} : Go(p, "parent", to)
    BY <1>5 DEF Recheck
  <2> QED BY <1>5, <1>a, <2>1, ElsewhereQuiet DEF Recheck
<1>6. CASE CreateRule(p)
  <2> DEFINE m == ToOther("create", "rule", p)
  <2>1. WellFormed(m)
    BY ProbeMessages
  <2>2. Calls(p, "parent", m, "break", "restore")
    BY <1>6 DEF CreateRule
  <2>3. readRv' = readRv
    BY <1>6 DEF CreateRule
  <2>4. /\ Sound(m)
        /\ m.kind \notin Acquiring
    BY ProbeMessagesSound
  <2> HIDE DEF m
  <2> QED BY <1>a, <2>1, <2>2, <2>3, <2>4, ElsewhereCall
<1>7. CASE BreakMonitor(p)
  <2> DEFINE m == ToObject("break", "monitor", monitorRv[p], p)
  <2>1. WellFormed(m)
    BY <1>b, ProbeMessages
  <2>2. Calls(p, "parent", m, "observe", "restore")
    BY <1>7 DEF BreakMonitor
  <2>3. readRv' = readRv
    BY <1>7 DEF BreakMonitor
  <2>4. /\ Sound(m)
        /\ m.kind \notin Acquiring
    BY ProbeMessagesSound
  <2> HIDE DEF m
  <2> QED BY <1>a, <2>1, <2>2, <2>3, <2>4, ElsewhereCall
<1>8. CASE StopObserving(p)
  BY <1>8, <1>a, ElsewhereQuiet DEF StopObserving
<1>9. CASE WatchdogReturns(p)
  BY <1>9, <1>a, ElsewhereQuiet DEF WatchdogReturns
<1>12. CASE RollbackTime(p)
  <2>1. Go(p, "watchdog", "restore") /\ readRv' = readRv
    BY <1>12 DEF RollbackTime
  <2>2. Orderly
    BY <1>12, <1>a, <2>1, GoUnsent DEF RollbackTime, effects, Orderly, Keep, Moves, Config
  <2> QED BY <1>a, <2>1, <2>2, OrderlyMoves, GoSound DEF LockInv
<1>10. CASE ParentKilled(p)
  <2>1. Go(p, "parent", "killed") /\ readRv' = readRv
    BY <1>10 DEF ParentKilled
  <2>2. Orderly
    BY <1>10, <1>a, <2>1, GoUnsent DEF ParentKilled, effects, Orderly, Keep, Moves, Config
  <2> QED BY <1>a, <2>1, <2>2, OrderlyMoves, GoSound DEF LockInv
<1>11. CASE RestoreSteps(p, "parent") \/ RestoreSteps(p, "watchdog")
  BY <1>11, <1>a, RestoreStepsOrderly
<1> QED BY <1>0, <1>1, <1>2, <1>3, <1>4, <1>5, <1>6, <1>7, <1>8, <1>9, <1>10, <1>11, <1>12
        DEF ParentSteps, WatchdogSteps

-----------------------------------------------------------------------------
(* The invariant, and what it is for.                                       *)

LEMMA LockInvInit ==
  ASSUME Init
  PROVE  LockInv /\ Lock!Init
<1>1. /\ Config.run = None /\ Config.probe = None /\ cleared = {} /\ flight = {}
      /\ pc = "idle" /\ active.run = None
      /\ \A p \in Probe, a \in Actor : proc[p][a] = "none"
  BY DEF Init, StoreInit, ControllerInit, ProbeInit, Config, Deployed, Object, Idle
<1>2. OwnedOnce /\ FlightSound /\ ControllerSound /\ ActiveUsed
  BY <1>1 DEF OwnedOnce, OneOwner, FlightSound, ControllerSound, ActiveUsed
<1>3. OneClaimEach
  <2>1. Pending = {} /\ OneCallEach(flight)
    BY <1>1 DEF Pending, OneCallEach
  <2>2. \A x \in Run \cup Probe : NeverOwned(x)
    BY <1>1, StoreAssumption DEF NeverOwned
  <2> QED BY <2>1, <2>2 DEF OneClaimEach, Unsent
<1>4. ProbeSound
  BY <1>1 DEF ProbeSound, Premise
<1>5. Lock!Init
  BY <1>1 DEF Lock!Init, Holder
<1> QED BY <1>2, <1>3, <1>4, <1>5 DEF LockInv

LEMMA LockInvNext ==
  ASSUME TypeInv, TypeInv', LockInv, [Next]_vars
  PROVE  LockInv' /\ [Lock!Next]_(Lock!vars)
<1>a. ASSUME Orderly, ControllerSound', ProbeSound', ActiveUsed'
      PROVE  LockInv' /\ [Lock!Next]_(Lock!vars)
  BY <1>a, OrderlyInv DEF OrderlyKept, LockInv
<1>b. ASSUME Orderly, UNCHANGED localVars
      PROVE  ControllerSound' /\ ActiveUsed'
  <2>1. Moves /\ Config.rv \in Nat /\ Config'.rv \in Nat /\ seen \in Nat
    BY <1>b, OrderlyMoves, ConfigType
       DEF TypeInv, TypeOK, ControllerTypeOK, StoreTypeOK, Config, Object, Document
  <2>2. ControllerSound'
    BY <1>b, <2>1 DEF LockInv, ControllerSound, Moves, localVars
  <2>3. ActiveUsed'
    BY <1>b DEF LockInv, ActiveUsed, localVars
  <2> QED BY <2>2, <2>3
<1>c. ASSUME Orderly, UNCHANGED probeVars
      PROVE  ProbeSound'
  <2>1. Moves /\ Config.rv \in Nat /\ Config'.rv \in Nat
    BY <1>c, OrderlyMoves, ConfigType
       DEF TypeInv, TypeOK, StoreTypeOK, Config, Object, Document
  <2>2. ASSUME NEW p \in Probe, NEW a \in Actor
        PROVE  Premise(Config', p, proc'[p][a], readRv'[p][a])
    <3>1. readRv[p][a] \in Nat /\ Premise(Config, p, proc[p][a], readRv[p][a])
      BY DEF TypeInv, TypeOK, ProbeTypeOK, LockInv, ProbeSound
    <3>2. Premise(Config', p, proc[p][a], readRv[p][a])
      BY <2>1, <3>1, PremiseKept DEF Moves
    <3> QED BY <1>c, <3>2 DEF probeVars
  <2> QED BY <2>2 DEF ProbeSound
<1>d. ASSUME UNCHANGED localVars, UNCHANGED probeVars
      PROVE  Unsent' = Unsent
  BY <1>d DEF Unsent, localVars, probeVars
<1>1. CASE ControllerStep
  <2>1. Orderly /\ ControllerSound' /\ ActiveUsed' /\ UNCHANGED probeVars
    BY <1>1, ControllerOrderly DEF ControllerStep
  <2> QED BY <1>a, <1>c, <2>1
<1>2. CASE ProbeStep
  <2>1. Orderly /\ ProbeSound' /\ UNCHANGED localVars
    BY <1>2, ProbeOrderly DEF ProbeStep
  <2> QED BY <1>a, <1>b, <2>1
<1>3. CASE EnvironmentStep
  <2>1. UNCHANGED localVars /\ UNCHANGED probeVars /\ Environment
    BY <1>3 DEF EnvironmentStep
  <2>2. Orderly
    BY <1>d, <2>1, EnvironmentOrderly DEF LockInv, OrderlyKept
  <2> QED BY <1>a, <1>b, <1>c, <2>1, <2>2
<1>4. CASE UNCHANGED vars
  <2>1. UNCHANGED localVars /\ UNCHANGED probeVars /\ UNCHANGED storeVars
    BY <1>4 DEF vars
  <2>2. Orderly
    BY <1>d, <2>1, QuietOrderly
  <2> QED BY <1>a, <1>b, <1>c, <2>1, <2>2
<1> QED BY <1>1, <1>2, <1>3, <1>4 DEF Next

LEMMA LockInvariant == Spec => [](TypeInv /\ LockInv)
<1>1. Init => TypeInv /\ LockInv
  BY TypeInvInit, LockInvInit
<1>2. TypeInv /\ LockInv /\ [Next]_vars => (TypeInv /\ LockInv)'
  BY TypeInvNext, LockInvNext
<1> QED BY <1>1, <1>2, PTL DEF Spec

(* Whatever calls fail, are lost or land late, whatever processes are       *)
(* killed and whatever an operator edits, a claim of the controller and a   *)
(* lock of a screenshot run never coexist (_claim_run, claim_external_run). *)
THEOREM OwnedByOne == Spec => []OneOwner
<1>1. LockInv => OneOwner
  BY DEF LockInv, OwnedOnce
<1> QED BY <1>1, LockInvariant, PTL

(* ... and the annotations implement the abstract lock: the Lab passes from *)
(* nobody to one party that never had it before, and back (_claim_run,      *)
(* _clear_run_claim, claim_external_run, release_external_run).             *)
THEOREM LockImplemented == Spec => ImplementsLock
<1>1. Init => Lock!Init
  BY LockInvInit
<1>2. TypeInv /\ LockInv /\ (TypeInv /\ LockInv)' /\ [Next]_vars
      => [Lock!Next]_(Lock!vars)
  BY LockInvNext
<1> QED BY <1>1, <1>2, LockInvariant, PTL DEF Spec, ImplementsLock, Lock!Spec
=============================================================================
