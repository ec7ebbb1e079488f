--------------------------- MODULE LabPartsProofs ---------------------------
(***************************************************************************)
(* Theorems about LabParts: work done without a lock after a run has ended,*)
(* the slots of the load generator, the paid requests, the comparisons     *)
(* reported as linked, and the types of all the parts.                     *)
(***************************************************************************)
EXTENDS LabParts, OperatorToolsProofs, FiniteSetTheorems, TLAPS

-----------------------------------------------------------------------------
(* Late work.  A run is requested once, so a run that has had its late     *)
(* failure is neither active nor attempted again.                          *)

LibraryInv ==
  /\ requested \subseteq LibraryRun
  /\ late \in [LibraryRun -> 0..1]
  /\ library \in [run : LibraryRun \cup {NoRun}, due : BOOLEAN]
  /\ ticking \in [pc : {"idle", "executing", "counting"},
                  run : LibraryRun \cup {NoRun}, failed : BOOLEAN]
  /\ ticking.pc # "idle" => ticking.run \in LibraryRun
  /\ \A r \in LibraryRun :
       /\ r \notin requested => late[r] = 0 /\ library.run # r /\ ticking.run # r
       /\ library.run = r \/ ticking.run = r => late[r] = 0

(* A probe that has read the fault url, and a route that still has it, have*)
(* seen no stray probe yet.                                                *)
Url == {"baseline", "fault"}

EdgeInv ==
  /\ stray \in [Edge -> 0..1]
  /\ route \in [Edge -> [url : Url, lease : {"none", "running", "due"}]]
  /\ prober \in [Edge -> [pc : {"idle", "expire", "call"}, url : Url]]
  /\ \A e \in Edge :
       prober[e].url = "fault" \/ route[e].url = "fault" => stray[e] = 0

LEMMA LibraryInitially == LibraryInit => LibraryInv
BY LibraryAssumption DEF LibraryInit, LibraryInv, Inactive

LEMMA LibraryStep ==
  ASSUME LibraryInv, LibraryNext
  PROVE  LibraryInv'
<1> USE LibraryAssumption DEF LibraryInv
<1>1. ASSUME NEW r \in LibraryRun, StartCase(r) PROVE LibraryInv'
  BY <1>1 DEF StartCase
<1>2. ASSUME NEW r \in LibraryRun, RecoverCaseOf(r) PROVE LibraryInv'
  BY <1>2 DEF RecoverCaseOf, Inactive
<1>3. CASE LeaseRunsOut
  BY <1>3 DEF LeaseRunsOut
<1>4. CASE Take
  <2>1. CASE library.due
    <3>1. library' = Inactive /\ UNCHANGED <<ticking, requested, late>>
      BY <1>4, <2>1 DEF Take
    <3> QED BY <3>1 DEF Inactive
  <2>2. CASE ~library.due
    <3>1. /\ library.run \in LibraryRun /\ UNCHANGED <<library, requested, late>>
          /\ ticking' = [pc |-> "executing", run |-> library.run, failed |-> FALSE]
      BY <1>4, <2>2 DEF Take
    <3> QED BY <3>1
  <2> QED BY <2>1, <2>2
<1>5. CASE Execute
  BY <1>5 DEF Execute, Failed
<1>6. CASE Count
  <2>1. CASE library.run = ticking.run \/ ~ticking.failed
    BY <1>6, <2>1 DEF Count
  <2>2. CASE library.run # ticking.run /\ ticking.failed
    BY <1>6, <2>2 DEF Count
  <2> QED BY <2>1, <2>2
<1> QED BY <1>1, <1>2, <1>3, <1>4, <1>5, <1>6 DEF LibraryNext

LEMMA EdgeInitially == EdgeInit => EdgeInv
BY DEF EdgeInit, EdgeInv, Baseline, Url

LEMMA EdgeStep ==
  ASSUME EdgeInv, EdgeNext
  PROVE  EdgeInv'
<1> USE DEF EdgeInv, Url
<1>1. ASSUME NEW e \in Edge, SetMode(e) PROVE EdgeInv'
  BY <1>1 DEF SetMode, SetRoute, Baseline
<1>2. ASSUME NEW e \in Edge, RouteLeaseRunsOut(e) PROVE EdgeInv'
  BY <1>2 DEF RouteLeaseRunsOut
<1>3. ASSUME NEW e \in Edge, ReadRoute(e) PROVE EdgeInv'
  <2>1. CASE route[e].lease = "due"
    BY <1>3, <2>1 DEF ReadRoute, Probe
  <2>2. CASE route[e].lease # "due"
    BY <1>3, <2>2 DEF ReadRoute, Probe
  <2> QED BY <2>1, <2>2
<1>4. ASSUME NEW e \in Edge, EndLease(e) PROVE EdgeInv'
  BY <1>4 DEF EndLease, SetRoute, Baseline, Probe
<1>5. ASSUME NEW e \in Edge, CallHealth(e) PROVE EdgeInv'
  BY <1>5 DEF CallHealth, Probe
<1> QED BY <1>1, <1>2, <1>3, <1>4, <1>5 DEF EdgeNext

(* LateWorkIsBounded for any runs, edges and bounds.                       *)
THEOREM LateWorkBounded == PartsSpec => []LateWorkIsBounded
<1> DEFINE Inv == LibraryInv /\ EdgeInv
<1>1. PartsInit => Inv
  BY LibraryInitially, EdgeInitially DEF PartsInit
<1>2. Inv /\ [PartsNext]_partVars => Inv'
  <2> SUFFICES ASSUME Inv, [PartsNext]_partVars PROVE Inv'
    OBVIOUS
  <2>1. CASE LibraryNext /\ UNCHANGED edgeVars
    BY <2>1, LibraryStep DEF edgeVars, EdgeInv
  <2>2. CASE EdgeNext /\ UNCHANGED libraryVars
    BY <2>2, EdgeStep DEF libraryVars, LibraryInv
  <2>3. CASE UNCHANGED libraryVars /\ UNCHANGED edgeVars
    BY <2>3 DEF libraryVars, edgeVars, LibraryInv, EdgeInv
  <2> QED BY <2>1, <2>2, <2>3 DEF PartsNext, Others, partVars
<1>3. Inv => LateWorkIsBounded
  BY SMTT(20) DEF LibraryInv, EdgeInv, LateWorkIsBounded
<1> QED BY <1>1, <1>2, <1>3, PTL DEF PartsSpec

-----------------------------------------------------------------------------
(* Slots.  The counter is the number of requests between claim and release,*)
(* and no more threads than MaxInflight are at work on one.                *)

SentTypes == {"new", "shed", "submitted", "calling", "releasing", "done"}
Claimed == {"submitted", "calling", "releasing"}
AtWork == {"calling", "releasing"}

LoadInv ==
  /\ sent \in [Checkout -> SentTypes]
  /\ inflight = Cardinality(In(Claimed))
  /\ Cardinality(In(AtWork)) <= MaxInflight

LEMMA InIsFinite == \A S : IsFiniteSet(In(S)) /\ Cardinality(In(S)) \in Nat
BY LoadAssumption, FS_Subset, FS_CardinalityType DEF In

LEMMA LoadInitially == LoadInit => LoadInv
<1> SUFFICES ASSUME LoadInit PROVE LoadInv
  OBVIOUS
<1>1. In(Claimed) = {} /\ In(AtWork) = {}
  BY DEF LoadInit, In, Claimed, AtWork
<1> QED BY <1>1, FS_EmptySet, LoadAssumption DEF LoadInit, LoadInv, SentTypes, MaxInflight

LEMMA LoadStep ==
  ASSUME LoadInv, LoadNext
  PROVE  LoadInv'
<1> USE DEF LoadInv, SentTypes, Claimed, AtWork
<1>0. /\ IsFiniteSet(In(Claimed)) /\ IsFiniteSet(In(AtWork))
      /\ Cardinality(In(Claimed)) \in Nat /\ Cardinality(In(AtWork)) \in Nat
      /\ MaxInflight \in Nat
  BY InIsFinite, LoadAssumption DEF MaxInflight
<1>1. ASSUME NEW q \in Checkout, ClaimSlot(q) PROVE LoadInv'
  <2>1. In(AtWork)' = In(AtWork)
    BY <1>1 DEF ClaimSlot, In
  <2>2. CASE inflight < MaxInflight
    <3>1. q \notin In(Claimed) /\ In(Claimed)' = In(Claimed) \cup {q}
      BY <1>1, <2>2 DEF ClaimSlot, In
    <3>2. Cardinality(In(Claimed) \cup {q}) = Cardinality(In(Claimed)) + 1
      BY <1>0, <3>1, FS_AddElement
    <3> QED BY <1>0, <1>1, <2>1, <2>2, <3>1, <3>2 DEF ClaimSlot, MaxInflight
  <2>3. CASE ~(inflight < MaxInflight)
    <3>1. In(Claimed)' = In(Claimed)
      BY <1>1, <2>3 DEF ClaimSlot, In
    <3> QED BY <1>1, <2>1, <2>3, <3>1 DEF ClaimSlot, MaxInflight
  <2> QED BY <2>2, <2>3
<1>2. ASSUME NEW q \in Checkout, Dispatch(q) PROVE LoadInv'
  <2>1. In(Claimed)' = In(Claimed)
    BY <1>2 DEF Dispatch, In
  <2>2. q \notin In(AtWork) /\ In(AtWork)' = In(AtWork) \cup {q}
    BY <1>2 DEF Dispatch, In
  <2>3. Cardinality(In(AtWork) \cup {q}) = Cardinality(In(AtWork)) + 1
    BY <1>0, <2>2, FS_AddElement
  <2>4. Cardinality(In(AtWork)) < MaxInflight
    BY <1>2 DEF Dispatch
  <2> QED BY <1>0, <1>2, <2>1, <2>2, <2>3, <2>4 DEF Dispatch, MaxInflight
<1>3. ASSUME NEW q \in Checkout, Answer(q) PROVE LoadInv'
  <2>1. In(Claimed)' = In(Claimed) /\ In(AtWork)' = In(AtWork)
    BY <1>3 DEF Answer, In
  <2> QED BY <1>3, <2>1 DEF Answer, MaxInflight
<1>4. ASSUME NEW q \in Checkout, ReleaseSlot(q) PROVE LoadInv'
  <2>1. q \in In(Claimed) /\ In(Claimed)' = In(Claimed) \ {q}
    BY <1>4 DEF ReleaseSlot, In
  <2>2. Cardinality(In(Claimed) \ {q}) = Cardinality(In(Claimed)) - 1
    BY <1>0, <2>1, FS_RemoveElement
  <2>3. Cardinality(In(Claimed)) # 0
    BY <1>0, <2>1, FS_EmptySet
  <2>4. q \in In(AtWork) /\ In(AtWork)' = In(AtWork) \ {q}
    BY <1>4 DEF ReleaseSlot, In
  <2>5. Cardinality(In(AtWork) \ {q}) = Cardinality(In(AtWork)) - 1
    BY <1>0, <2>4, FS_RemoveElement
  <2>6. inflight' = inflight - 1
    BY <1>0, <1>4, <2>3 DEF ReleaseSlot
  <2>7. Cardinality(In(Claimed)') = inflight - 1
    BY <2>1, <2>2
  <2>8. Cardinality(In(AtWork)') = Cardinality(In(AtWork)) - 1
    BY <2>4, <2>5
  <2>9. sent' \in [Checkout -> SentTypes]
    BY <1>4 DEF ReleaseSlot
  <2>10. Cardinality(In(AtWork)') <= MaxInflight
    BY <1>0, <2>8
  <2> QED BY <2>6, <2>7, <2>9, <2>10 DEF MaxInflight
<1> QED BY <1>1, <1>2, <1>3, <1>4 DEF LoadNext

(* SlotsAreReturned for any number of requests and any limits.             *)
THEOREM SlotsReturned == PartsSpec => []SlotsAreReturned
<1>1. PartsInit => LoadInv
  BY LoadInitially DEF PartsInit
<1>2. LoadInv /\ [PartsNext]_partVars => LoadInv'
  <2> SUFFICES ASSUME LoadInv, [PartsNext]_partVars PROVE LoadInv'
    OBVIOUS
  <2>1. CASE LoadNext
    BY <2>1, LoadStep
  <2>2. CASE UNCHANGED loadVars
    BY <2>2 DEF loadVars, LoadInv, In, MaxInflight
  <2> QED BY <2>1, <2>2 DEF PartsNext, Others, partVars
<1>3. LoadInv => SlotsAreReturned
  <2> SUFFICES ASSUME LoadInv PROVE SlotsAreReturned
    OBVIOUS
  <2>1. In({"calling"}) \subseteq In(AtWork) /\ IsFiniteSet(In(AtWork))
    BY InIsFinite DEF In, AtWork
  <2>2. Cardinality(In({"calling"})) <= Cardinality(In(AtWork))
    BY <2>1, FS_Subset
  <2>3. MaxInflight <= SafeInflight /\ MaxInflight \in Nat
    BY LoadAssumption DEF MaxInflight
  <2>4. Cardinality(In({"calling"})) \in Nat /\ Cardinality(In(AtWork)) \in Nat
    BY InIsFinite
  <2> QED BY <2>2, <2>3, <2>4, LoadAssumption DEF LoadInv, SlotsAreReturned, Claimed
<1> QED BY <1>1, <1>2, <1>3, PTL DEF PartsSpec

-----------------------------------------------------------------------------
(* Paid requests.  A directory is claimed by one command, which alone makes*)
(* the requests that it stands for, each from a stage it does not return to*)

Uploading == {"upload", "extract", "recheck", "evidence", "update"}

ReviewTyped ==
  /\ command = [c \in Command |-> command[c]]
  /\ \A c \in Command :
       command[c] = [pc |-> command[c].pc, before |-> command[c].before,
                     existing |-> command[c].existing, mine |-> command[c].mine,
                     queued |-> command[c].queued, linked |-> command[c].linked]
  /\ posts \in [Directory -> [Paid -> 0..1]]

PaidInv ==
  /\ \A c \in Command : command[c].pc \in Uploading => Dir(c) \in dirs
  /\ \A c, d \in Command :
       (command[c].pc \in Uploading /\ command[d].pc \in Uploading /\ Dir(c) = Dir(d)) => c = d
  /\ \A d \in Directory \ dirs, k \in Paid : posts[d][k] = 0
  /\ \A c \in Command : command[c].pc = "upload" => posts[Dir(c)]["upload"] = 0
  /\ \A c \in Command : command[c].pc \in Uploading => posts[Dir(c)]["update"] = 0

ReviewInv == ReviewTyped /\ PaidInv

(* One history at a time is between mkdir and the request.                 *)
SourceInv ==
  /\ reader \in [History \cup HistoryStatus ->
                  [pc : {"new", "capsule", "ask", "answered", "waiting", "failed", "done"},
                   review : Nat]]
  /\ files.directory \in BOOLEAN
  /\ files = [directory |-> files.directory, attempt |-> files.attempt,
              request |-> files.request, results |-> files.results]
  /\ files.request \in Nat
  /\ asked \in 0..1
  /\ ~files.directory => asked = 0
  /\ \A h \in History \cup HistoryStatus :
       reader[h].pc \in {"capsule", "ask"} => files.directory /\ asked = 0
  /\ \A h, g \in History \cup HistoryStatus :
       (reader[h].pc \in {"capsule", "ask"} /\ reader[g].pc \in {"capsule", "ask"}) => h = g

LEMMA SourceInitially == SourceInit => SourceInv
BY DEF SourceInit, SourceInv

LEMMA SourceStep ==
  ASSUME SourceInv, SourceNext
  PROVE  SourceInv'
<1> USE DEF SourceInv
<1>1. CASE ReviewEnds
  BY <1>1 DEF ReviewEnds
<1> SUFFICES ASSUME NEW h \in History \cup HistoryStatus,
                    \/ MakeDirectory(h) \/ CheckCapsule(h) \/ Ask(h) \/ SaveRequest(h)
                    \/ ReadRequest(h) \/ SeeReview(h) \/ ReaderFails(h)
             PROVE  SourceInv'
  BY <1>1 DEF SourceNext
<1>2. CASE MakeDirectory(h)
  BY <1>2 DEF MakeDirectory, Moves
<1>3. CASE CheckCapsule(h)
  BY <1>3 DEF CheckCapsule, Moves
<1>4. CASE Ask(h)
  BY <1>4 DEF Ask, Moves, MaxReviews
<1>5. CASE SaveRequest(h)
  BY <1>5 DEF SaveRequest, Moves
<1>6. CASE ReadRequest(h)
  BY <1>6 DEF ReadRequest, Moves
<1>7. CASE SeeReview(h)
  BY <1>7 DEF SeeReview, Moves
<1>8. CASE ReaderFails(h)
  BY <1>8 DEF ReaderFails, Moves
<1> QED BY <1>2, <1>3, <1>4, <1>5, <1>6, <1>7, <1>8

LEMMA ReviewInitially == ReviewInit => ReviewInv
BY DEF ReviewInit, ReviewInv, ReviewTyped, PaidInv, NotStarted, Uploading,
       Directory, Paid

(* The two directories.                                                    *)
LEMMA DirIsDirectory == \A c \in Command : Dir(c) \in Directory
BY DEF Dir, Directory

(* Command c alone moves, to stage pc.                                     *)
MovesTo(c, pc) ==
  /\ command' = [command EXCEPT ![c] = command'[c]]
  /\ command'[c] = [pc |-> pc, before |-> command'[c].before,
                    existing |-> command'[c].existing, mine |-> command'[c].mine,
                    queued |-> command'[c].queued, linked |-> command'[c].linked]

LEMMA MovesToStage ==
  ASSUME ReviewTyped, NEW c \in Command, NEW pc, MovesTo(c, pc)
  PROVE  /\ command' = [d \in Command |-> command'[d]]
         /\ \A d \in Command :
              command'[d] = [pc |-> command'[d].pc, before |-> command'[d].before,
                     existing |-> command'[d].existing, mine |-> command'[d].mine,
                     queued |-> command'[d].queued, linked |-> command'[d].linked]
         /\ \A d \in Command \ {c} : command'[d] = command[d]
         /\ command'[c].pc = pc
BY DEF MovesTo, ReviewTyped

LEMMA GoMoves ==
  ASSUME ReviewTyped, NEW c \in Command, NEW pc, Go(c, pc)
  PROVE  MovesTo(c, pc)
BY DEF Go, MovesTo, ReviewTyped

LEMMA EndMoves ==
  ASSUME ReviewTyped, NEW c \in Command, End(c)
  PROVE  MovesTo(c, "failed")
BY DEF End, MovesTo, ReviewTyped, NotStarted

(* A step that makes no claim and no request keeps the invariant.          *)
LEMMA AdvanceKeeps ==
  ASSUME ReviewInv, NEW c \in Command, NEW pc, MovesTo(c, pc), pc # "upload",
         pc \in Uploading => command[c].pc \in Uploading, UNCHANGED <<dirs, posts>>
  PROVE  ReviewInv'
<1>1. ReviewTyped'
  BY MovesToStage DEF ReviewInv, ReviewTyped
<1>2. PaidInv'
  BY MovesToStage DEF ReviewInv, PaidInv
<1> QED BY <1>1, <1>2 DEF ReviewInv

LEMMA CommandStep ==
  ASSUME ReviewInv, NEW c \in Command,
         \/ CheckEvidence(c) \/ CheckBaseline(c) \/ CheckExpected(c)
         \/ CheckReviewed(c) \/ SeeExtracted(c) \/ Recheck(c)
         \/ RecheckEvidence(c) \/ SeeReassessed(c) \/ Fails(c)
  PROVE  ReviewInv'
<1>0. ReviewTyped
  BY DEF ReviewInv
<1>1. CASE CheckEvidence(c)
  <2>1. MovesTo(c, "baseline")
    <3>1. command' = [command EXCEPT ![c].pc = "baseline", ![c].existing = evidence]
      BY <1>1 DEF CheckEvidence
    <3>2. command' = [command EXCEPT ![c] = command'[c]]
      BY <1>0, <3>1 DEF ReviewTyped
    <3>3. command'[c] = [command[c] EXCEPT !.pc = "baseline", !.existing = evidence]
      BY <1>0, <3>1 DEF ReviewTyped
    <3> QED BY <1>0, <3>2, <3>3 DEF MovesTo, ReviewTyped
  <2> QED BY <1>1, <2>1, AdvanceKeeps DEF CheckEvidence, Uploading
<1>2. CASE CheckBaseline(c)
  <2>1. MovesTo(c, "claim")
    <3>1. command' = [command EXCEPT ![c].pc = "claim", ![c].before = Current]
      BY <1>2 DEF CheckBaseline
    <3>2. command' = [command EXCEPT ![c] = command'[c]]
      BY <1>0, <3>1 DEF ReviewTyped
    <3>3. command'[c] = [command[c] EXCEPT !.pc = "claim", !.before = Current]
      BY <1>0, <3>1 DEF ReviewTyped
    <3> QED BY <1>0, <3>2, <3>3 DEF MovesTo, ReviewTyped
  <2> QED BY <1>2, <2>1, AdvanceKeeps DEF CheckBaseline, Uploading
<1>3. CASE CheckExpected(c)
  <2>1. MovesTo(c, "reviewed")
    <3>1. command' = [command EXCEPT ![c].pc = "reviewed", ![c].before = Current]
      BY <1>3 DEF CheckExpected
    <3>2. command' = [command EXCEPT ![c] = command'[c]]
      BY <1>0, <3>1 DEF ReviewTyped
    <3>3. command'[c] = [command[c] EXCEPT !.pc = "reviewed", !.before = Current]
      BY <1>0, <3>1 DEF ReviewTyped
    <3> QED BY <1>0, <3>2, <3>3 DEF MovesTo, ReviewTyped
  <2> QED BY <1>3, <2>1, AdvanceKeeps DEF CheckExpected, Uploading
<1>4. CASE CheckReviewed(c)
  <2>1. MovesTo(c, "claim")
    <3>1. command' = [command EXCEPT ![c].pc = "claim", ![c].mine = saved.attachment]
      BY <1>4 DEF CheckReviewed
    <3>2. command' = [command EXCEPT ![c] = command'[c]]
      BY <1>0, <3>1 DEF ReviewTyped
    <3>3. command'[c] = [command[c] EXCEPT !.pc = "claim", !.mine = saved.attachment]
      BY <1>0, <3>1 DEF ReviewTyped
    <3> QED BY <1>0, <3>2, <3>3 DEF MovesTo, ReviewTyped
  <2> QED BY <1>4, <2>1, AdvanceKeeps DEF CheckReviewed, Uploading
<1>5. CASE SeeExtracted(c)
  <2>1. Is(c, "extract") /\ UNCHANGED <<dirs, posts>> /\ (Go(c, "recheck") \/ End(c))
    BY <1>5 DEF SeeExtracted
  <2>2. command[c].pc \in Uploading
    BY <2>1 DEF Is, Uploading
  <2>3. CASE Go(c, "recheck")
    BY <1>0, <2>1, <2>2, <2>3, GoMoves, AdvanceKeeps
  <2>4. CASE End(c)
    BY <1>0, <2>1, <2>2, <2>4, EndMoves, AdvanceKeeps
  <2> QED BY <2>1, <2>3, <2>4
<1>6. CASE Recheck(c)
  BY <1>0, <1>6, GoMoves, AdvanceKeeps DEF Recheck, Is, Uploading
<1>7. CASE RecheckEvidence(c)
  BY <1>0, <1>7, GoMoves, AdvanceKeeps DEF RecheckEvidence, Is, Uploading
<1>8. CASE SeeReassessed(c)
  <2>1. MovesTo(c, "done")
    <3>1. command' = [command EXCEPT ![c].pc = "done", ![c].linked = (revisions[Current].parent = command[c].before)]
      BY <1>8 DEF SeeReassessed
    <3>2. command' = [command EXCEPT ![c] = command'[c]]
      BY <1>0, <3>1 DEF ReviewTyped
    <3>3. command'[c] = [command[c] EXCEPT !.pc = "done", !.linked = (revisions[Current].parent = command[c].before)]
      BY <1>0, <3>1 DEF ReviewTyped
    <3> QED BY <1>0, <3>2, <3>3 DEF MovesTo, ReviewTyped
  <2> QED BY <1>8, <2>1, AdvanceKeeps DEF SeeReassessed, Uploading
<1>9. CASE Fails(c)
  BY <1>0, <1>9, EndMoves, AdvanceKeeps DEF Fails, Uploading
<1> QED BY <1>1, <1>2, <1>3, <1>4, <1>5, <1>6, <1>7, <1>8, <1>9

(* The directory is new, so nobody works in it and it has paid for nothing.*)
LEMMA ClaimStep ==
  ASSUME ReviewInv, NEW c \in Command, Claim(c)
  PROVE  ReviewInv'
<1>0. ReviewTyped /\ PaidInv
  BY DEF ReviewInv
<1>1. PICK pc \in {"upload", "update"} : MovesTo(c, pc)
  BY <1>0, GoMoves DEF Claim, First
<1>2. Dir(c) \notin dirs /\ dirs' = dirs \cup {Dir(c)} /\ posts' = posts
  BY DEF Claim
<1>3. posts[Dir(c)]["upload"] = 0 /\ posts[Dir(c)]["update"] = 0
  BY <1>0, <1>2, DirIsDirectory DEF PaidInv, Paid
<1>4. ReviewTyped'
  BY <1>0, <1>1, <1>2, MovesToStage DEF ReviewTyped
<1>5. PaidInv'
  BY <1>0, <1>1, <1>2, <1>3, MovesToStage DEF PaidInv, Uploading
<1> QED BY <1>4, <1>5 DEF ReviewInv

(* A request of kind k from c's directory, the first of its kind.          *)
LEMMA FirstPost ==
  ASSUME ReviewTyped, NEW c \in Command, NEW k \in Paid, Post(c, k),
         posts[Dir(c)][k] = 0
  PROVE  /\ posts' \in [Directory -> [Paid -> 0..1]]
         /\ \A d \in Directory, j \in Paid :
              ~(d = Dir(c) /\ j = k) => posts'[d][j] = posts[d][j]
<1>1. posts' = [posts EXCEPT ![Dir(c)] = [posts[Dir(c)] EXCEPT ![k] = 1]]
  BY DirIsDirectory DEF Post, ReviewTyped
<1>2. [posts[Dir(c)] EXCEPT ![k] = 1] \in [Paid -> 0..1]
  BY DirIsDirectory DEF ReviewTyped
<1> QED BY <1>1, <1>2, DirIsDirectory DEF ReviewTyped

LEMMA UploadStep ==
  ASSUME ReviewInv, NEW c \in Command, Upload(c)
  PROVE  ReviewInv'
<1>0. ReviewTyped /\ PaidInv
  BY DEF ReviewInv
<1>1. command[c].pc = "upload" /\ Post(c, "upload") /\ dirs' = dirs
  BY DEF Upload, Is
<1>2. PICK pc \in {"extract", "failed"} : MovesTo(c, pc)
  <2>1. CASE command' = [command EXCEPT ![c].pc = "extract", ![c].mine = Len(evidence) + 1]
    <3>1. command' = [command EXCEPT ![c] = command'[c]]
      BY <1>0, <2>1 DEF ReviewTyped
    <3>2. command'[c] = [command[c] EXCEPT !.pc = "extract", !.mine = Len(evidence) + 1]
      BY <1>0, <2>1 DEF ReviewTyped
    <3>3. MovesTo(c, "extract")
      BY <1>0, <3>1, <3>2 DEF MovesTo, ReviewTyped
    <3> QED BY <3>3
  <2>2. CASE End(c)
    BY <1>0, <2>2, EndMoves
  <2> QED BY <2>1, <2>2 DEF Upload
<1>3. posts[Dir(c)]["upload"] = 0 /\ posts[Dir(c)]["update"] = 0
  BY <1>0, <1>1 DEF PaidInv, Uploading
<1>4. /\ posts' \in [Directory -> [Paid -> 0..1]]
      /\ \A d \in Directory, j \in Paid :
           ~(d = Dir(c) /\ j = "upload") => posts'[d][j] = posts[d][j]
  BY <1>0, <1>1, <1>3, FirstPost DEF Paid
<1>5. ReviewTyped'
  BY <1>0, <1>2, <1>4, MovesToStage DEF ReviewTyped
<1>6. PaidInv'
  BY <1>0, <1>1, <1>2, <1>3, <1>4, MovesToStage, DirIsDirectory DEF PaidInv, Uploading, Paid
<1> QED BY <1>5, <1>6 DEF ReviewInv

LEMMA UpdateStep ==
  ASSUME ReviewInv, NEW c \in Command, Update(c)
  PROVE  ReviewInv'
<1>0. ReviewTyped /\ PaidInv
  BY DEF ReviewInv
<1>1. command[c].pc = "update" /\ Post(c, "update") /\ dirs' = dirs
  BY DEF Update, Is
<1>2. PICK pc \in {"reassess", "failed"} : MovesTo(c, pc)
  <2>1. ASSUME NEW n, command' = [command EXCEPT ![c].pc = "reassess", ![c].queued = n]
        PROVE  MovesTo(c, "reassess")
    <3>1. command' = [command EXCEPT ![c] = command'[c]]
      BY <1>0, <2>1 DEF ReviewTyped
    <3>2. command'[c] = [command[c] EXCEPT !.pc = "reassess", !.queued = n]
      BY <1>0, <2>1 DEF ReviewTyped
    <3> QED BY <1>0, <3>1, <3>2 DEF MovesTo, ReviewTyped
  <2>2. CASE End(c)
    BY <1>0, <2>2, EndMoves
  <2> QED BY <2>1, <2>2 DEF Update
<1>3. posts[Dir(c)]["update"] = 0
  BY <1>0, <1>1 DEF PaidInv, Uploading
<1>4. /\ posts' \in [Directory -> [Paid -> 0..1]]
      /\ \A d \in Directory, j \in Paid :
           ~(d = Dir(c) /\ j = "update") => posts'[d][j] = posts[d][j]
  BY <1>0, <1>1, <1>3, FirstPost DEF Paid
<1>5. ReviewTyped'
  BY <1>0, <1>2, <1>4, MovesToStage DEF ReviewTyped
<1>6. PaidInv'
  BY <1>0, <1>1, <1>2, <1>4, MovesToStage, DirIsDirectory, SMTT(20) DEF PaidInv, Uploading, Paid
<1> QED BY <1>5, <1>6 DEF ReviewInv

LEMMA ReviewStep ==
  ASSUME ReviewInv, ReviewNext
  PROVE  ReviewInv'
<1>1. CASE Revise \/ Finish \/ Extract \/ OtherEvidence \/ ReadAssessment
  BY <1>1 DEF Revise, Finish, Extract, OtherEvidence, ReadAssessment, ReviewInv,
              ReviewTyped, PaidInv
<1> QED BY <1>1, CommandStep, ClaimStep, UploadStep, UpdateStep DEF ReviewNext

(* PaidOnce for any number of runs of attach, reassess and history.        *)
THEOREM PaysOnce == PartsSpec => []PaidOnce
<1> DEFINE Inv == ReviewInv /\ SourceInv
<1>1. PartsInit => Inv
  BY ReviewInitially, SourceInitially DEF PartsInit
<1>2. Inv /\ [PartsNext]_partVars => Inv'
  <2> SUFFICES ASSUME Inv, [PartsNext]_partVars PROVE Inv'
    OBVIOUS
  <2>1. CASE ReviewNext /\ UNCHANGED sourceVars
    BY <2>1, ReviewStep DEF sourceVars, SourceInv
  <2>2. CASE SourceNext /\ UNCHANGED reviewVars
    BY <2>2, SourceStep DEF reviewVars, ReviewInv, ReviewTyped, PaidInv
  <2>3. CASE UNCHANGED reviewVars /\ UNCHANGED sourceVars
    BY <2>3 DEF reviewVars, sourceVars, ReviewInv, ReviewTyped, PaidInv, SourceInv
  <2> QED BY <2>1, <2>2, <2>3 DEF PartsNext, Others, partVars
<1>3. Inv => PaidOnce
  BY DEF ReviewInv, ReviewTyped, SourceInv, PaidOnce
<1> QED BY <1>1, <1>2, <1>3, PTL DEF PartsSpec

-----------------------------------------------------------------------------
(* Linked comparisons.  What a run of attach without --incremental-evidence*)
(* knows at each of its stages: the assessment it starts from is the one   *)
(* that the round waited for; its attachment stays where it was put and    *)
(* stays ready; and a revision younger than the assessment it rechecked    *)
(* has seen that attachment, because the recheck came after the extraction.*)

AttachmentRecord == [by : Command \cup {"other"}, status : {"processing", "ready", "failed"}]
RevisionRecord == [parent : Nat, status : {"running", "completed"}, ours : BOOLEAN,
                   seen : Seq(AttachmentRecord)]

WaitShape ==
  /\ wait = [now |-> wait.now, deadline |-> wait.deadline, prior |-> wait.prior,
             exact |-> wait.exact, accepted |-> wait.accepted, status |-> wait.status]
  /\ wait.accepted \in Nat

ProductShape ==
  /\ evidence \in Seq(AttachmentRecord)
  /\ revisions \in Seq(RevisionRecord)
  /\ WaitShape

InUpdate == {"reassess", "done"}
Alone == {"update"} \cup InUpdate
Rechecked == {"evidence"} \cup Alone
Extracted == {"recheck"} \cup Rechecked
Attached == {"extract"} \cup Extracted
Based == {"claim", "upload"} \cup Attached

(* The attachment of c, ready, among those of e.                           *)
HasReady(c, e) ==
  /\ command[c].mine \in 1 .. Len(e)
  /\ e[command[c].mine] = [by |-> c, status |-> "ready"]

Comparable(c) ==
  /\ command[c].pc # "reviewed"
  /\ command[c].pc \in {"baseline"} \cup Based =>
        wait.accepted # 0 /\ command[c].existing = <<>>
  /\ command[c].pc \in Based =>
        command[c].before = wait.accepted /\ wait.accepted <= Len(revisions)
  /\ command[c].pc \in Attached =>
        command[c].mine \in 1 .. Len(evidence) /\ evidence[command[c].mine].by = c
  /\ command[c].pc \in Extracted => HasReady(c, evidence)
  /\ command[c].pc \in Rechecked =>
        \A i \in 1 .. Len(revisions) :
          i > wait.accepted => HasReady(c, revisions[i].seen)
  /\ command[c].pc \in Alone => command[c].mine = 1
  /\ command[c].pc \in InUpdate =>
        command[c].queued \in 1 .. Len(revisions) /\ command[c].queued > wait.accepted
  /\ command[c].linked =>
        /\ command[c].pc = "done"
        /\ revisions[command[c].queued].parent = wait.accepted

LinkedInv == ProductShape /\ \A c \in Attach \ Incremental : Comparable(c)

LEMMA LinkedInitially == ReviewInit => LinkedInv
<1> SUFFICES ASSUME ReviewInit PROVE LinkedInv
  OBVIOUS
<1>1. ProductShape
  BY ReviewAssumption DEF ReviewInit, ProductShape, WaitShape, NotWaited
<1>2. ASSUME NEW c \in Attach \ Incremental PROVE Comparable(c)
  BY DEF ReviewInit, Comparable, NotStarted, Command, Based, Attached, Extracted, Rechecked,
         Alone, InUpdate
<1> QED BY <1>1, <1>2 DEF LinkedInv

(* What the product and the wait never take back.                          *)
Grows ==
  /\ Len(evidence') >= Len(evidence)
  /\ \A i \in 1 .. Len(evidence) :
       /\ evidence'[i].by = evidence[i].by
       /\ evidence[i].status = "ready" => evidence'[i] = evidence[i]
  /\ Len(revisions') >= Len(revisions)
  /\ \A i \in 1 .. Len(revisions) :
       revisions'[i].parent = revisions[i].parent /\ revisions'[i].seen = revisions[i].seen
  /\ \A i \in 1 .. Len(revisions') : i > Len(revisions) => revisions'[i].seen = evidence
  /\ wait.accepted # 0 => wait'.accepted = wait.accepted

LEMMA StillGrows ==
  ASSUME ProductShape, UNCHANGED <<evidence, revisions, wait>>
  PROVE  ProductShape' /\ Grows
BY DEF ProductShape, WaitShape, Grows

LEMMA NewRevisionGrows ==
  ASSUME ProductShape, NewRevision, UNCHANGED <<evidence, wait>>
  PROVE  /\ ProductShape' /\ Grows
         /\ Len(revisions') = Len(revisions) + 1
<1>1. PICK ours \in BOOLEAN :
        revisions' = Append(revisions, [parent |-> Current, status |-> "running",
                                        ours |-> ours, seen |-> evidence])
  BY DEF NewRevision
<1>2. [parent |-> Current, status |-> "running", ours |-> ours, seen |-> evidence]
        \in RevisionRecord
  BY DEF ProductShape, WaitShape, RevisionRecord, Current
<1>3. /\ revisions' \in Seq(RevisionRecord) /\ Len(revisions') = Len(revisions) + 1
      /\ \A i \in 1 .. Len(revisions) : revisions'[i] = revisions[i]
      /\ revisions'[Len(revisions) + 1].seen = evidence
  BY <1>1, <1>2 DEF ProductShape, WaitShape
<1>4. ProductShape'
  BY <1>3 DEF ProductShape, WaitShape
<1>5. Grows
  BY <1>3 DEF ProductShape, WaitShape, Grows
<1> QED BY <1>3, <1>4, <1>5

LEMMA UploadedGrows ==
  ASSUME ProductShape, NEW by \in Command \cup {"other"}, Uploaded(by),
         UNCHANGED <<revisions, wait>>
  PROVE  /\ ProductShape' /\ Grows
         /\ Len(evidence') = Len(evidence) + 1
         /\ evidence'[Len(evidence) + 1].by = by
<1>1. [by |-> by, status |-> "processing"] \in AttachmentRecord
  BY DEF AttachmentRecord
<1>2. /\ evidence' \in Seq(AttachmentRecord) /\ Len(evidence') = Len(evidence) + 1
      /\ \A i \in 1 .. Len(evidence) : evidence'[i] = evidence[i]
      /\ evidence'[Len(evidence) + 1].by = by
  BY <1>1 DEF ProductShape, WaitShape, Uploaded
<1>3. ProductShape'
  BY <1>2 DEF ProductShape, WaitShape
<1>4. Grows
  BY <1>2 DEF ProductShape, WaitShape, Grows
<1> QED BY <1>2, <1>3, <1>4

(* The steps that no command takes.                                        *)
LEMMA ProductGrows ==
  ASSUME ProductShape, Revise \/ Finish \/ Extract \/ OtherEvidence \/ ReadAssessment
  PROVE  ProductShape' /\ Grows
<1>1. CASE Revise
  BY <1>1, NewRevisionGrows DEF Revise
<1>2. CASE Finish
  <2>1. Current \in 1 .. Len(revisions) /\ UNCHANGED <<evidence, wait>>
    BY <1>2 DEF Finish, CurrentStatus, Current, ProductShape, WaitShape
  <2>2. revisions' = [revisions EXCEPT ![Current] =
                       [revisions[Current] EXCEPT !.status = "completed"]]
    BY <1>2 DEF Finish
  <2>3. [revisions[Current] EXCEPT !.status = "completed"] \in RevisionRecord
    <3>1. revisions[Current] \in RevisionRecord
      BY <2>1 DEF ProductShape, WaitShape
    <3> QED BY <3>1 DEF RevisionRecord
  <2>4. revisions' \in Seq(RevisionRecord) /\ Len(revisions') = Len(revisions)
    BY <2>1, <2>2, <2>3 DEF ProductShape, WaitShape
  <2>5. \A i \in 1 .. Len(revisions) :
          revisions'[i].parent = revisions[i].parent /\ revisions'[i].seen = revisions[i].seen
    BY <2>1, <2>2 DEF ProductShape, WaitShape, RevisionRecord
  <2> QED BY <2>1, <2>4, <2>5 DEF ProductShape, WaitShape, Grows
<1>3. CASE Extract
  <2>1. UNCHANGED <<revisions, wait>>
    BY <1>3 DEF Extract
  <2>2. PICK k \in DOMAIN evidence, s \in {"ready", "failed"} :
          /\ evidence[k].status = "processing"
          /\ evidence' = [evidence EXCEPT ![k] = [evidence[k] EXCEPT !.status = s]]
    BY <1>3 DEF Extract
  <2>3. [evidence[k] EXCEPT !.status = s] \in AttachmentRecord
    <3>1. evidence[k] \in AttachmentRecord
      BY DEF ProductShape, WaitShape
    <3> QED BY <3>1 DEF AttachmentRecord
  <2>4. evidence' \in Seq(AttachmentRecord) /\ Len(evidence') = Len(evidence)
    BY <2>2, <2>3 DEF ProductShape, WaitShape
  <2>5. \A i \in 1 .. Len(evidence) :
          /\ evidence'[i].by = evidence[i].by
          /\ evidence[i].status = "ready" => evidence'[i] = evidence[i]
    BY <2>2 DEF ProductShape, WaitShape, AttachmentRecord
  <2> QED BY <2>1, <2>4, <2>5 DEF ProductShape, WaitShape, Grows
<1>4. CASE OtherEvidence
  BY <1>4, UploadedGrows DEF OtherEvidence
<1>5. CASE ReadAssessment
  <2>1. UNCHANGED <<evidence, revisions>> /\ wait.accepted = 0
    BY <1>5 DEF ReadAssessment
  <2>2. \/ wait' = [NotWaited EXCEPT !.accepted = Current]
        \/ \E now, deadline, prior, exact, status :
             wait' = [wait EXCEPT !.now = now, !.deadline = deadline, !.prior = prior,
                                 !.exact = exact, !.status = status]
    BY <1>5 DEF ReadAssessment
  <2>3. ASSUME wait' = [NotWaited EXCEPT !.accepted = Current]
        PROVE  ProductShape'
    <3>1. wait' = [now |-> 0, deadline |-> Wait, prior |-> 0, status |-> "none",
                   exact |-> 0, accepted |-> Current]
      BY <2>3 DEF NotWaited
    <3>2. wait' = [now |-> wait'.now, deadline |-> wait'.deadline, prior |-> wait'.prior,
                   exact |-> wait'.exact, accepted |-> wait'.accepted,
                   status |-> wait'.status] /\ wait'.accepted = Len(revisions)
      BY <3>1 DEF Current
    <3>3. Len(revisions) \in Nat
      BY DEF ProductShape, WaitShape
    <3>4. evidence' \in Seq(AttachmentRecord) /\ revisions' \in Seq(RevisionRecord)
      BY <2>1 DEF ProductShape, WaitShape
    <3>5. WaitShape'
      BY <3>2, <3>3 DEF WaitShape
    <3> QED BY <3>4, <3>5 DEF ProductShape, WaitShape
  <2>4. ASSUME \E now, deadline, prior, exact, status :
                 wait' = [wait EXCEPT !.now = now, !.deadline = deadline, !.prior = prior,
                                     !.exact = exact, !.status = status]
        PROVE  ProductShape'
    <3>1. PICK now, deadline, prior, exact, status :
            wait' = [wait EXCEPT !.now = now, !.deadline = deadline, !.prior = prior,
                                !.exact = exact, !.status = status]
      BY <2>4
    <3>2. wait' = [now |-> now, deadline |-> deadline, prior |-> prior, exact |-> exact,
                   accepted |-> wait.accepted, status |-> status]
      BY <3>1 DEF ProductShape, WaitShape
    <3>3. wait' = [now |-> wait'.now, deadline |-> wait'.deadline, prior |-> wait'.prior,
                   exact |-> wait'.exact, accepted |-> wait'.accepted,
                   status |-> wait'.status] /\ wait'.accepted = wait.accepted
      BY <3>2
    <3>4. evidence' \in Seq(AttachmentRecord) /\ revisions' \in Seq(RevisionRecord)
      BY <2>1 DEF ProductShape, WaitShape
    <3>5. wait'.accepted \in Nat
      BY <3>3 DEF ProductShape, WaitShape
    <3>6. WaitShape'
      BY <3>3, <3>5 DEF WaitShape
    <3> QED BY <3>4, <3>6 DEF ProductShape, WaitShape
  <2>5. ProductShape'
    BY <2>2, <2>3, <2>4
  <2> QED BY <2>1, <2>5 DEF ProductShape, WaitShape, Grows
<1> QED BY <1>1, <1>2, <1>3, <1>4, <1>5

(* What another command or the product does keeps what c knows.            *)
LEMMA OthersKeep ==
  ASSUME ProductShape, ProductShape', Grows, NEW c \in Attach \ Incremental, Comparable(c),
         command'[c] = command[c]
  PROVE  Comparable(c)'
<1> DEFINE m == command[c].mine
<1>1. HasReady(c, evidence) => HasReady(c, evidence)'
  BY DEF HasReady, Grows, ProductShape, WaitShape
<1>2. Based \subseteq {"claim", "upload"} \cup Attached /\ Extracted \subseteq Attached
      /\ Attached \subseteq Based /\ Rechecked \subseteq Extracted
      /\ Alone \subseteq Rechecked /\ InUpdate \subseteq Alone
  BY DEF Based, Attached, Extracted, Rechecked, Alone
<1>3. command[c].pc \in {"baseline"} \cup Based => wait'.accepted = wait.accepted
  BY DEF Comparable, Grows
<1>4. ASSUME command[c].pc \in Rechecked, NEW i \in 1 .. Len(revisions'), i > wait.accepted
      PROVE  command[c].mine \in 1 .. Len(revisions'[i].seen)
             /\ revisions'[i].seen[command[c].mine] = [by |-> c, status |-> "ready"]
  <2>1. CASE i \in 1 .. Len(revisions)
    BY <1>4, <2>1 DEF Comparable, Grows, HasReady
  <2>2. CASE i > Len(revisions)
    BY <1>2, <1>4, <2>2 DEF Comparable, Grows, HasReady
  <2> QED BY <2>1, <2>2 DEF ProductShape, WaitShape
<1>5. command[c].pc \in Attached =>
        m \in 1 .. Len(evidence') /\ evidence'[m].by = c
  BY DEF Comparable, Grows, ProductShape, WaitShape
<1>6. command[c].pc \in Based => wait'.accepted <= Len(revisions')
  BY <1>3 DEF Comparable, Grows, ProductShape, WaitShape
<1>7. command[c].pc \in InUpdate =>
        /\ command[c].queued \in 1 .. Len(revisions')
        /\ command[c].queued > wait'.accepted
        /\ revisions'[command[c].queued].parent = revisions[command[c].queued].parent
  BY <1>2, <1>3 DEF Comparable, Grows, ProductShape, WaitShape
<1> HIDE DEF m
<1>8. command[c].linked => command[c].pc \in InUpdate
  BY DEF Comparable, InUpdate
<1>9. command[c].pc \in Extracted => HasReady(c, evidence)'
  BY <1>1 DEF Comparable
<1>10. command[c].pc \in Rechecked =>
         \A i \in 1 .. Len(revisions') :
           i > wait'.accepted =>
             /\ command'[c].mine \in 1 .. Len(revisions'[i].seen)
             /\ revisions'[i].seen[command'[c].mine] = [by |-> c, status |-> "ready"]
  BY <1>2, <1>3, <1>4
<1> QED
  BY <1>2, <1>3, <1>5, <1>6, <1>7, <1>8, <1>9, <1>10 DEF Comparable, HasReady, m

-----------------------------------------------------------------------------
(* The steps of the command itself.                                        *)
LEMMA LeavesOthers ==
  ASSUME ReviewTyped, NEW c \in Command, NEW pc, MovesTo(c, pc),
         LinkedInv, ProductShape', Grows,
         c \in Attach \ Incremental => Comparable(c)'
  PROVE  LinkedInv'
<1>1. ASSUME NEW d \in Attach \ Incremental PROVE Comparable(d)'
  <2>1. CASE d = c
    BY <2>1
  <2>2. CASE d # c
    <3>1. d \in Command /\ command'[d] = command[d]
      BY <2>2, MovesToStage DEF Command
    <3> QED BY <3>1, OthersKeep DEF LinkedInv
  <2> QED BY <2>1, <2>2
<1> QED BY <1>1 DEF LinkedInv

(* A stage in which nothing of the product changes and the command keeps   *)
(* what it knows.                                                          *)
LEMMA StageKeeps ==
  ASSUME ReviewTyped, LinkedInv, NEW c \in Command, NEW pc, Go(c, pc),
         UNCHANGED <<evidence, revisions, wait>>,
         c \in Attach \ Incremental =>
           /\ pc \in Based \ InUpdate
           /\ command[c].pc \in Based \ InUpdate
           /\ pc \in Attached => command[c].pc \in Attached
           /\ pc \in Extracted => HasReady(c, evidence)
           /\ pc \in Rechecked =>
                command[c].pc \in Rechecked \/ wait.accepted = Len(revisions)
           /\ pc \in Alone => command[c].mine = 1
  PROVE  LinkedInv'
<1>1. MovesTo(c, pc) /\ ProductShape' /\ Grows
  BY GoMoves, StillGrows DEF LinkedInv
<1>2. /\ command'[c].pc = pc /\ command'[c].before = command[c].before
      /\ command'[c].existing = command[c].existing /\ command'[c].mine = command[c].mine
      /\ command'[c].linked = command[c].linked
  BY DEF Go, ReviewTyped
<1>3. ASSUME c \in Attach \ Incremental PROVE Comparable(c)'
  <2>1. Comparable(c) /\ UNCHANGED <<evidence, revisions, wait>>
    BY <1>3 DEF LinkedInv
  <2>2. ~command[c].linked
    BY <1>3, <2>1 DEF Comparable, InUpdate
  <2>3. pc \in Rechecked =>
          \A i \in 1 .. Len(revisions) :
            i > wait.accepted => HasReady(c, revisions[i].seen)
    BY <1>3, <2>1 DEF Comparable, LinkedInv, ProductShape, WaitShape
  <2>4. pc \notin InUpdate \cup {"baseline", "reviewed"} /\ pc \in Based /\ command[c].pc \in Based
    BY <1>3 DEF Based, Attached, Extracted, Rechecked, Alone, InUpdate
  <2> QED BY <1>2, <1>3, <2>1, <2>2, <2>3, <2>4 DEF Comparable, HasReady
<1> QED BY <1>1, <1>3, LeavesOthers

LEMMA EndKeeps ==
  ASSUME ReviewTyped, LinkedInv, NEW c \in Command, End(c), ProductShape', Grows
  PROVE  LinkedInv'
<1>1. MovesTo(c, "failed")
  BY EndMoves
<1>2. command'[c] = [NotStarted EXCEPT !.pc = "failed"]
  BY DEF End, ReviewTyped
<1>3. command'[c].pc = "failed" /\ command'[c].linked = FALSE
  BY <1>2 DEF NotStarted
<1>4. Comparable(c)'
  BY <1>3 DEF Comparable, Based, Attached, Extracted, Rechecked, Alone, InUpdate
<1> QED BY <1>1, <1>4, LeavesOthers

LEMMA ChecksLink ==
  ASSUME ReviewTyped, LinkedInv, NEW c \in Command,
         CheckEvidence(c) \/ CheckBaseline(c) \/ CheckExpected(c) \/ CheckReviewed(c)
  PROVE  LinkedInv'
<1>0. UNCHANGED <<evidence, revisions, wait>> /\ ProductShape' /\ Grows
  BY StillGrows DEF LinkedInv, CheckEvidence, CheckBaseline, CheckExpected, CheckReviewed
<1>1. CASE CheckEvidence(c)
  <2>1. command'[c] = [command[c] EXCEPT !.pc = "baseline", !.existing = evidence]
        /\ command' = [command EXCEPT ![c] = command'[c]]
    BY <1>1 DEF CheckEvidence, ReviewTyped
  <2>2. MovesTo(c, "baseline") /\ command'[c].existing = evidence
        /\ command'[c].linked = command[c].linked /\ command'[c].pc = "baseline"
    BY <2>1 DEF MovesTo, ReviewTyped
  <2>3. c \in Attach \ Incremental => Comparable(c)'
    <3> SUFFICES ASSUME c \in Attach \ Incremental PROVE Comparable(c)'
      OBVIOUS
    <3>1. ~command[c].linked /\ wait.accepted # 0 /\ evidence = <<>>
      BY <1>1 DEF CheckEvidence, Is, LinkedInv, Comparable
    <3> QED BY <1>0, <2>2, <3>1
         DEF Comparable, Based, Attached, Extracted, Rechecked, Alone, InUpdate
  <2> QED BY <1>0, <2>2, <2>3, LeavesOthers
<1>2. CASE CheckBaseline(c)
  <2>1. command'[c] = [command[c] EXCEPT !.pc = "claim", !.before = Current]
        /\ command' = [command EXCEPT ![c] = command'[c]]
    BY <1>2 DEF CheckBaseline, ReviewTyped
  <2>2. /\ MovesTo(c, "claim") /\ command'[c].pc = "claim" /\ command'[c].before = Current
        /\ command'[c].existing = command[c].existing
        /\ command'[c].linked = command[c].linked
    BY <2>1 DEF MovesTo, ReviewTyped
  <2>3. c \in Attach \ Incremental => Comparable(c)'
    <3> SUFFICES ASSUME c \in Attach \ Incremental PROVE Comparable(c)'
      OBVIOUS
    <3>1. /\ ~command[c].linked /\ wait.accepted # 0 /\ command[c].existing = <<>>
          /\ Current = wait.accepted /\ Len(revisions) \in Nat
      BY <1>2 DEF CheckBaseline, Unchanged, Is, LinkedInv, Comparable, ProductShape, WaitShape
    <3> QED BY <1>0, <2>2, <3>1
         DEF Comparable, Current, Based, Attached, Extracted, Rechecked, Alone, InUpdate
  <2> QED BY <1>0, <2>2, <2>3, LeavesOthers
<1>3. CASE CheckExpected(c)
  <2>1. command'[c] = [command[c] EXCEPT !.pc = "reviewed", !.before = Current]
        /\ command' = [command EXCEPT ![c] = command'[c]]
    BY <1>3 DEF CheckExpected, ReviewTyped
  <2>2. MovesTo(c, "reviewed") /\ command'[c].pc = "reviewed"
        /\ command'[c].linked = command[c].linked
    BY <2>1 DEF MovesTo, ReviewTyped
  <2>3. c \in Attach \ Incremental => Comparable(c)'
    <3> SUFFICES ASSUME c \in Attach \ Incremental PROVE Comparable(c)'
      OBVIOUS
    <3> QED BY <1>3, ReviewAssumption DEF CheckExpected
  <2> QED BY <1>0, <2>2, <2>3, LeavesOthers
<1>4. CASE CheckReviewed(c)
  <2>1. command'[c] = [command[c] EXCEPT !.pc = "claim", !.mine = saved.attachment]
        /\ command' = [command EXCEPT ![c] = command'[c]]
    BY <1>4 DEF CheckReviewed, ReviewTyped
  <2>2. MovesTo(c, "claim")
    BY <2>1 DEF MovesTo, ReviewTyped
  <2>3. c \notin Attach \ Incremental
    BY <1>4 DEF CheckReviewed, Is, LinkedInv, Comparable
  <2> QED BY <1>0, <2>2, <2>3, LeavesOthers
<1> QED BY <1>1, <1>2, <1>3, <1>4

LEMMA AttachSteps ==
  ASSUME ReviewTyped, LinkedInv, NEW c \in Command,
         Claim(c) \/ SeeExtracted(c) \/ Recheck(c) \/ RecheckEvidence(c)
  PROVE  LinkedInv'
<1> USE DEF Based, Attached, Extracted, Rechecked, Alone, InUpdate
<1>0. UNCHANGED <<evidence, revisions, wait>> /\ ProductShape' /\ Grows
  BY StillGrows DEF LinkedInv, Claim, SeeExtracted, Recheck, RecheckEvidence
<1>1. CASE Claim(c)
  <2>1. Is(c, "claim") /\ Go(c, First(c))
    BY <1>1 DEF Claim
  <2>2. c \in Attach => First(c) = "upload"
    BY DEF First
  <2> QED BY <1>0, <2>1, <2>2, StageKeeps DEF Is
<1>2. CASE SeeExtracted(c)
  <2>1. /\ Is(c, "extract")
        /\ \/ Go(c, "recheck") /\ evidence[command[c].mine].status = "ready"
           \/ End(c)
    BY <1>2 DEF SeeExtracted
  <2>2. CASE End(c)
    BY <1>0, <2>2, EndKeeps
  <2>3. CASE Go(c, "recheck") /\ evidence[command[c].mine].status = "ready"
    <3>1. c \in Attach \ Incremental => HasReady(c, evidence)
      <4> SUFFICES ASSUME c \in Attach \ Incremental PROVE HasReady(c, evidence)
        OBVIOUS
      <4>1. command[c].mine \in 1 .. Len(evidence) /\ evidence[command[c].mine].by = c
        BY <2>1 DEF Is, LinkedInv, Comparable
      <4>2. evidence[command[c].mine] \in AttachmentRecord
        BY <4>1 DEF LinkedInv, ProductShape
      <4> QED BY <2>3, <4>1, <4>2 DEF AttachmentRecord, HasReady
    <3> QED BY <1>0, <2>1, <2>3, <3>1, StageKeeps DEF Is
  <2> QED BY <2>1, <2>2, <2>3
<1>3. CASE Recheck(c)
  <2>1. Is(c, "recheck") /\ Go(c, "evidence") /\ Current = command[c].before
    BY <1>3 DEF Recheck
  <2>2. c \in Attach \ Incremental =>
          HasReady(c, evidence) /\ wait.accepted = Len(revisions)
    BY <2>1 DEF Is, LinkedInv, Comparable, Current
  <2> QED BY <1>0, <2>1, <2>2, StageKeeps DEF Is
<1>4. CASE RecheckEvidence(c)
  <2>1. /\ Is(c, "evidence") /\ Go(c, "update")
        /\ evidence = Append(command[c].existing, [by |-> c, status |-> "ready"])
    BY <1>4 DEF RecheckEvidence
  <2>2. c \in Attach \ Incremental => HasReady(c, evidence) /\ command[c].mine = 1
    BY <2>1 DEF Is, LinkedInv, Comparable
  <2> QED BY <1>0, <2>1, <2>2, StageKeeps DEF Is
<1> QED BY <1>1, <1>2, <1>3, <1>4

LEMMA UploadLinks ==
  ASSUME ReviewTyped, LinkedInv, NEW c \in Command, Upload(c)
  PROVE  LinkedInv'
<1>0. Is(c, "upload") /\ UNCHANGED <<revisions, wait>> /\ ProductShape
  BY DEF Upload, LinkedInv
<1>1. CASE UNCHANGED evidence /\ End(c)
  BY <1>0, <1>1, StillGrows, EndKeeps
<1>2. CASE Uploaded(c) /\ End(c)
  BY <1>0, <1>2, UploadedGrows, EndKeeps
<1>3. CASE /\ Uploaded(c)
           /\ command' = [command EXCEPT ![c].pc = "extract", ![c].mine = Len(evidence) + 1]
  <2>1. /\ ProductShape' /\ Grows /\ Len(evidence') = Len(evidence) + 1
        /\ evidence'[Len(evidence) + 1].by = c
    BY <1>0, <1>3, UploadedGrows
  <2>2. /\ command' = [command EXCEPT ![c] = command'[c]]
        /\ command'[c] = [command[c] EXCEPT !.pc = "extract", !.mine = Len(evidence) + 1]
    BY <1>3 DEF ReviewTyped
  <2>3. /\ MovesTo(c, "extract") /\ command'[c].pc = "extract"
        /\ command'[c].before = command[c].before
        /\ command'[c].existing = command[c].existing
        /\ command'[c].mine = Len(evidence) + 1
        /\ command'[c].linked = command[c].linked
    BY <2>2 DEF MovesTo, ReviewTyped
  <2>4. c \in Attach \ Incremental => Comparable(c)'
    <3> SUFFICES ASSUME c \in Attach \ Incremental PROVE Comparable(c)'
      OBVIOUS
    <3>1. /\ ~command[c].linked /\ wait.accepted # 0 /\ command[c].existing = <<>>
          /\ command[c].before = wait.accepted /\ wait.accepted <= Len(revisions)
      BY <1>0 DEF Is, LinkedInv, Comparable, Based
    <3>2. command'[c].mine \in 1 .. Len(evidence') /\ evidence'[command'[c].mine].by = c
      BY <1>0, <2>1, <2>3 DEF ProductShape
    <3> QED BY <1>0, <2>3, <3>1, <3>2
         DEF Comparable, Based, Attached, Extracted, Rechecked, Alone, InUpdate
  <2> QED BY <2>1, <2>3, <2>4, LeavesOthers
<1> QED BY <1>1, <1>2, <1>3 DEF Upload

(* The revision that an update waits for is younger than the assessment    *)
(* that was rechecked, whoever started it.                                 *)
LEMMA UpdateLinks ==
  ASSUME ReviewTyped, LinkedInv, NEW c \in Command, Update(c)
  PROVE  LinkedInv'
<1>0. Is(c, "update") /\ UNCHANGED <<evidence, wait>> /\ ProductShape
  BY DEF Update, LinkedInv
<1>1. ASSUME NEW n, n \in 1 .. Len(revisions'), ProductShape', Grows,
             c \in Attach \ Incremental => n > wait.accepted,
             command' = [command EXCEPT ![c].pc = "reassess", ![c].queued = n]
      PROVE  LinkedInv'
  <2>1. /\ command' = [command EXCEPT ![c] = command'[c]]
        /\ command'[c] = [command[c] EXCEPT !.pc = "reassess", !.queued = n]
    BY <1>1 DEF ReviewTyped
  <2>2. /\ MovesTo(c, "reassess") /\ command'[c].pc = "reassess"
        /\ command'[c].before = command[c].before
        /\ command'[c].existing = command[c].existing
        /\ command'[c].mine = command[c].mine
        /\ command'[c].queued = n
        /\ command'[c].linked = command[c].linked
    BY <2>1 DEF MovesTo, ReviewTyped
  <2>3. c \in Attach \ Incremental => Comparable(c)'
    <3> SUFFICES ASSUME c \in Attach \ Incremental PROVE Comparable(c)'
      OBVIOUS
    <3>1. Comparable(c) /\ command[c].pc = "update" /\ ~command[c].linked
      BY <1>0 DEF Is, LinkedInv, Comparable
    <3>2. /\ wait.accepted # 0 /\ command[c].existing = <<>>
          /\ command[c].before = wait.accepted /\ wait.accepted <= Len(revisions)
          /\ command[c].mine = 1 /\ HasReady(c, evidence)
          /\ \A i \in 1 .. Len(revisions) :
               i > wait.accepted => HasReady(c, revisions[i].seen)
      BY <3>1 DEF Comparable, Based, Attached, Extracted, Rechecked, Alone
    <3>3. wait'.accepted <= Len(revisions')
      BY <1>0, <1>1, <3>2 DEF Grows, ProductShape, WaitShape
    <3>4. \A i \in 1 .. Len(revisions') :
            i > wait'.accepted => HasReady(c, revisions'[i].seen)
      BY <1>0, <1>1, <3>2 DEF Grows, ProductShape, HasReady
    <3>5. HasReady(c, evidence)' /\ \A e : HasReady(c, e) =>
            command'[c].mine \in 1 .. Len(e)
              /\ e[command'[c].mine] = [by |-> c, status |-> "ready"]
      BY <1>0, <2>2, <3>2 DEF HasReady
    <3> QED BY <1>0, <1>1, <2>2, <3>1, <3>2, <3>3, <3>4, <3>5
         DEF Comparable, HasReady, Based, Attached, Extracted, Rechecked, Alone, InUpdate
  <2> QED BY <1>1, <2>2, <2>3, LeavesOthers
<1>2. c \in Attach \ Incremental =>
        command[c].before = wait.accepted /\ wait.accepted <= Len(revisions)
  BY <1>0 DEF Is, LinkedInv, Comparable, Based, Attached, Extracted, Rechecked, Alone
<1>3. CASE NewRevision /\ command' = [command EXCEPT ![c].pc = "reassess",
                                                    ![c].queued = Current + 1]
  <2>1. ProductShape' /\ Grows /\ Len(revisions') = Len(revisions) + 1
    BY <1>0, <1>3, NewRevisionGrows
  <2>2. Current + 1 \in 1 .. Len(revisions')
        /\ (c \in Attach \ Incremental => Current + 1 > wait.accepted)
    BY <1>0, <1>2, <2>1 DEF Current, ProductShape, WaitShape
  <2> QED BY <1>1, <1>3, <2>1, <2>2
<1>4. CASE /\ CurrentStatus = "running" /\ Current # command[c].before /\ UNCHANGED revisions
           /\ command' = [command EXCEPT ![c].pc = "reassess", ![c].queued = Current]
  <2>1. ProductShape' /\ Grows
    BY <1>0, <1>4, StillGrows
  <2>2. Current \in 1 .. Len(revisions')
        /\ (c \in Attach \ Incremental => Current > wait.accepted)
    BY <1>0, <1>2, <1>4 DEF Current, CurrentStatus, ProductShape, WaitShape
  <2> QED BY <1>1, <1>4, <2>1, <2>2
<1>5. CASE (NewRevision \/ UNCHANGED revisions) /\ End(c)
  BY <1>0, <1>5, NewRevisionGrows, StillGrows, EndKeeps
<1> QED BY <1>3, <1>4, <1>5 DEF Update

LEMMA EndsLink ==
  ASSUME ReviewTyped, LinkedInv, NEW c \in Command, SeeReassessed(c) \/ Fails(c)
  PROVE  LinkedInv'
<1>0. UNCHANGED <<evidence, revisions, wait>> /\ ProductShape' /\ Grows
  BY StillGrows DEF LinkedInv, SeeReassessed, Fails
<1>1. CASE SeeReassessed(c)
  <2> DEFINE linked == revisions[Current].parent = command[c].before
  <2>1. /\ command' = [command EXCEPT ![c] = command'[c]]
        /\ command'[c] = [command[c] EXCEPT !.pc = "done", !.linked = linked]
    BY <1>1 DEF SeeReassessed, ReviewTyped
  <2>2. /\ MovesTo(c, "done") /\ command'[c].pc = "done"
        /\ command'[c].before = command[c].before
        /\ command'[c].existing = command[c].existing
        /\ command'[c].mine = command[c].mine
        /\ command'[c].queued = command[c].queued
        /\ command'[c].linked = linked
    BY <2>1 DEF MovesTo, ReviewTyped
  <2>3. c \in Attach \ Incremental => Comparable(c)'
    <3> SUFFICES ASSUME c \in Attach \ Incremental PROVE Comparable(c)'
      OBVIOUS
    <3>1. Comparable(c) /\ command[c].pc = "reassess" /\ Current = command[c].queued
      BY <1>1 DEF SeeReassessed, Is, LinkedInv
    <3>2. linked => revisions[command'[c].queued].parent = wait.accepted
      BY <2>2, <3>1 DEF Comparable, Based, Attached, Extracted, Rechecked, Alone, InUpdate
    <3> HIDE DEF linked
    <3> QED BY <1>0, <2>2, <3>1, <3>2
         DEF Comparable, HasReady, Based, Attached, Extracted, Rechecked, Alone, InUpdate
  <2> QED BY <1>0, <2>2, <2>3, LeavesOthers
<1>2. CASE Fails(c)
  BY <1>0, <1>2, EndKeeps DEF Fails
<1> QED BY <1>1, <1>2

LEMMA LinkedStep ==
  ASSUME ReviewTyped, LinkedInv, ReviewNext
  PROVE  LinkedInv'
<1>1. CASE Revise \/ Finish \/ Extract \/ OtherEvidence \/ ReadAssessment
  <2>1. ProductShape' /\ Grows /\ UNCHANGED command
    BY <1>1, ProductGrows DEF LinkedInv, Revise, Finish, Extract, OtherEvidence, ReadAssessment
  <2> QED BY <2>1, OthersKeep DEF LinkedInv
<1> QED BY <1>1, ChecksLink, AttachSteps, UploadLinks, UpdateLinks, EndsLink
        DEF ReviewNext

(* LinkedMeansComparable for any number of commands, revisions and         *)
(* attachments, whatever is killed, lost or started meanwhile.             *)
THEOREM LinkedComparable == PartsSpec => []LinkedMeansComparable
<1> DEFINE Inv == ReviewInv /\ LinkedInv
<1>1. PartsInit => Inv
  BY ReviewInitially, LinkedInitially DEF PartsInit
<1>2. Inv /\ [PartsNext]_partVars => Inv'
  <2> SUFFICES ASSUME Inv, [PartsNext]_partVars PROVE Inv'
    OBVIOUS
  <2>1. CASE ReviewNext
    BY <2>1, ReviewStep, LinkedStep DEF ReviewInv
  <2>2. CASE UNCHANGED reviewVars
    BY <2>2 DEF reviewVars, ReviewInv, ReviewTyped, PaidInv, LinkedInv, ProductShape, WaitShape,
                Comparable, HasReady
  <2> QED BY <2>1, <2>2 DEF PartsNext, Others, partVars
<1>3. Inv => LinkedMeansComparable
  <2> SUFFICES ASSUME Inv, NEW c \in Attach \ Incremental, command[c].linked
               PROVE  LET after == revisions[command[c].queued] IN
                        /\ after.parent = wait.accepted
                        /\ after.seen # <<>>
                        /\ after.seen[1] = [by |-> c, status |-> "ready"]
    BY DEF LinkedMeansComparable
  <2>1. Comparable(c)
    BY DEF LinkedInv
  <2>2. /\ command[c].queued \in 1 .. Len(revisions) /\ command[c].queued > wait.accepted
        /\ command[c].mine = 1
        /\ revisions[command[c].queued].parent = wait.accepted
        /\ HasReady(c, revisions[command[c].queued].seen)
    BY <2>1 DEF Comparable, Rechecked, Alone, InUpdate
  <2> QED BY <2>2 DEF HasReady
<1> QED BY <1>1, <1>2, <1>3, PTL DEF PartsSpec

-----------------------------------------------------------------------------
(* The types, and the tools among the parts.                               *)
WaitTyped ==
  wait \in [now : Nat, deadline : Nat, prior : Nat, exact : Nat, accepted : Nat,
            status : {"none", "running", "completed"}]

WaitInv == WaitTyped /\ dirs \subseteq Directory

LEMMA WaitInitially == ReviewInit => WaitInv
BY ReviewAssumption DEF ReviewInit, WaitInv, WaitTyped, NotWaited

LEMMA ReadTyped ==
  ASSUME ProductShape, WaitTyped, ReadAssessment
  PROVE  WaitTyped'
<1> DEFINE exact == IF ~ExactPrimary THEN 0
                    ELSE IF Current = wait.prior THEN wait.exact + 1 ELSE 1
           changed == \/ Current # wait.prior /\ wait.prior # 0
                      \/ CurrentStatus = "running" /\ wait.status # "running"
<1>1. wait' = IF exact >= 2 THEN [NotWaited EXCEPT !.accepted = Current]
              ELSE [wait EXCEPT !.now = @ + 1, !.deadline = Extended(changed),
                                !.prior = Current, !.exact = exact,
                                !.status = CurrentStatus]
  BY DEF ReadAssessment
<1>2. Current \in Nat /\ CurrentStatus \in {"none", "running", "completed"}
  <2>1. Current \in Nat
    BY DEF ProductShape, Current
  <2>2. CASE Current # 0
    <3>1. revisions[Current] \in RevisionRecord
      BY <2>1, <2>2 DEF ProductShape, Current
    <3> QED BY <2>1, <3>1 DEF CurrentStatus, RevisionRecord
  <2> QED BY <2>1, <2>2 DEF CurrentStatus
<1>3. exact \in Nat
  BY DEF WaitTyped
<1>4. Extended(changed) \in Nat
  BY ReviewAssumption DEF Extended, Sooner, Later, WaitTyped
<1> HIDE DEF exact, changed
<1>5. CASE exact >= 2
  <2>1. wait' = [now |-> 0, deadline |-> Wait, prior |-> 0, status |-> "none",
                 exact |-> 0, accepted |-> Current]
    BY <1>1, <1>5 DEF NotWaited
  <2> QED BY <1>2, <2>1, ReviewAssumption DEF WaitTyped
<1>6. CASE ~(exact >= 2)
  <2>1. wait' = [now |-> wait.now + 1, deadline |-> Extended(changed), prior |-> Current,
                 status |-> CurrentStatus, exact |-> exact, accepted |-> wait.accepted]
    BY <1>1, <1>6 DEF WaitTyped
  <2> QED BY <1>2, <1>3, <1>4, <2>1 DEF WaitTyped
<1> QED BY <1>5, <1>6

LEMMA WaitStep ==
  ASSUME ProductShape, WaitInv, ReviewNext
  PROVE  WaitInv'
<1>1. ReadAssessment \/ UNCHANGED wait
  BY DEF ReviewNext, Revise, Finish, Extract, OtherEvidence, CheckEvidence, CheckBaseline,
         CheckExpected, CheckReviewed, Claim, Upload, SeeExtracted, Recheck, RecheckEvidence,
         Update, SeeReassessed, Fails
<1>2. UNCHANGED dirs \/ \E c \in Command : dirs' = dirs \cup {Dir(c)}
  BY DEF ReviewNext, Revise, Finish, Extract, OtherEvidence, ReadAssessment, CheckEvidence,
         CheckBaseline, CheckExpected, CheckReviewed, Claim, Upload, SeeExtracted, Recheck,
         RecheckEvidence, Update, SeeReassessed, Fails
<1>3. WaitTyped'
  BY <1>1, ReadTyped DEF WaitInv, WaitTyped
<1> QED BY <1>2, <1>3, DirIsDirectory DEF WaitInv

(* A behaviour of the parts is one of each tool and service, which may     *)
(* stand still: what is proved of the demo suite alone holds among them.   *)
THEOREM PartsImplementTools == PartsSpec => ToolsSpec
<1>1. PartsInit => ToolsInit
  BY DEF PartsInit
<1>2. [PartsNext]_partVars => [ToolsNext]_toolVars
  BY DEF PartsNext, Others, partVars
<1> QED BY <1>1, <1>2, PTL DEF PartsSpec, ToolsSpec

(* The types of the tools and of the small services, for any rounds, edits,*)
(* commands, revisions, library cases, edges and checkouts.                *)
THEOREM PartsTypeCorrect == PartsSpec => []PartsTypeOK
<1> DEFINE Inv == /\ part \in Part /\ ReviewInv /\ LinkedInv /\ WaitInv
                  /\ LibraryInv /\ LoadInv
<1>1. PartsInit => Inv
  BY ReviewInitially, LinkedInitially, WaitInitially, LibraryInitially, LoadInitially
     DEF PartsInit
<1>2. Inv /\ [PartsNext]_partVars => Inv'
  <2> SUFFICES ASSUME Inv, [PartsNext]_partVars PROVE Inv'
    OBVIOUS
  <2>0. part' = part
    BY DEF PartsNext, Others, partVars
  <2>1. CASE ReviewNext /\ UNCHANGED <<libraryVars, loadVars>>
    <3>1. ReviewInv' /\ LinkedInv' /\ WaitInv'
      BY <2>1, ReviewStep, LinkedStep, WaitStep DEF ReviewInv, LinkedInv
    <3> QED BY <2>0, <2>1, <3>1 DEF libraryVars, loadVars, LibraryInv, LoadInv, In
  <2>2. ASSUME UNCHANGED reviewVars PROVE ReviewInv' /\ LinkedInv' /\ WaitInv'
    BY <2>2 DEF reviewVars, ReviewInv, ReviewTyped, PaidInv, LinkedInv, ProductShape, WaitShape,
                Comparable, HasReady, WaitInv, WaitTyped
  <2>3. CASE LibraryNext /\ UNCHANGED <<reviewVars, loadVars>>
    BY <2>0, <2>2, <2>3, LibraryStep DEF loadVars, LoadInv, In
  <2>4. CASE LoadNext /\ UNCHANGED <<reviewVars, libraryVars>>
    BY <2>0, <2>2, <2>4, LoadStep DEF libraryVars, LibraryInv
  <2>5. CASE UNCHANGED <<reviewVars, libraryVars, loadVars>>
    BY <2>0, <2>2, <2>5 DEF libraryVars, loadVars, LibraryInv, LoadInv, In
  <2> QED BY <2>1, <2>3, <2>4, <2>5 DEF PartsNext, Others, partVars
<1>3. Inv => ReviewTypeOK /\ part \in Part /\ library.run \in LibraryRun \cup {NoRun}
             /\ inflight \in Nat
  <2> SUFFICES ASSUME Inv
               PROVE  ReviewTypeOK /\ part \in Part /\ inflight \in Nat
                      /\ library.run \in LibraryRun \cup {NoRun}
    OBVIOUS
  <2>1. inflight \in Nat
    BY InIsFinite DEF LoadInv
  <2>2. posts \in [Directory -> [Paid -> Nat]]
    BY DEF ReviewInv, ReviewTyped
  <2>3. library.run \in LibraryRun \cup {NoRun}
    BY DEF LibraryInv
  <2> QED BY <2>1, <2>2, <2>3 DEF WaitInv, WaitTyped, ReviewTypeOK
<1>4. Inv /\ ToolsTypeOK => PartsTypeOK
  BY <1>3 DEF PartsTypeOK
<1> QED BY <1>1, <1>2, <1>4, PartsImplementTools, ToolsTypeCorrect, PTL DEF PartsSpec
=============================================================================
