-------------------------- MODULE AssessmentReview --------------------------
(***************************************************************************)
(* The paid part of tools/run_operator_demos.py: await_assessment, which   *)
(* waits for the product's own assessment of a round, and the commands     *)
(* attach and reassess over a finished round.  Commands are separate       *)
(* processes; an operator may start one again while another is at work or  *)
(* after it has been killed.                                               *)
(***************************************************************************)
EXTENDS Integers, Sequences

CONSTANTS
  Attach,        \* runs of attach
  Incremental,   \* those given --incremental-evidence
  Reassess,      \* runs of reassess, all with the same label
  Wait,          \* assessment_timeout, in reads
  Extension,     \* what a change of revision adds, in reads
  Grace,         \* ASSESSMENT_REVISION_GRACE, in reads
  MaxRevisions,  \* bound on the product's revisions
  MaxEvidence    \* bound on the product's attachments

ASSUME ReviewAssumption ==
  /\ Incremental \subseteq Attach /\ Attach \cap Reassess = {}
  /\ {Wait, Extension, Grace, MaxRevisions, MaxEvidence} \subseteq Nat

Command == Attach \cup Reassess
Paid == {"upload", "update"}

VARIABLES
  revisions, \* the product's assessments of the episode, oldest first
  evidence,  \* its attachments
  wait,      \* await_assessment
  command,   \* the commands
  dirs,      \* the output directories that exist
  saved,     \* what their files hold that other commands read
  posts      \* the paid requests made from each directory

reviewVars == <<revisions, evidence, wait, command, dirs, saved, posts>>

Dir(c) == IF c \in Attach THEN "media-review" ELSE "reassessments"
Directory == {"media-review", "reassessments"}

NotStarted == [pc |-> "new", before |-> 0, existing |-> <<>>, mine |-> 0,
               queued |-> 0, linked |-> FALSE]

NotWaited == [now |-> 0, deadline |-> Wait, prior |-> 0, status |-> "none",
              exact |-> 0, accepted |-> 0]

ReviewInit ==
  /\ revisions = <<>>
  /\ evidence = <<>>
  /\ wait = NotWaited
  /\ command = [c \in Command |-> NotStarted]
  /\ dirs = {}
  /\ saved = [attachment |-> 0, extraction |-> "none"]
  /\ posts = [d \in Directory |-> [k \in Paid |-> 0]]

-----------------------------------------------------------------------------
(* The product.  A revision's parent is the one before it, and it sees the *)
(* attachments of the moment.  New revisions also start by themselves.     *)

Current == Len(revisions)
CurrentStatus == IF Current = 0 THEN "none" ELSE revisions[Current].status
Terminal == CurrentStatus = "completed"
ExactPrimary == Terminal /\ revisions[Current].ours

NewRevision ==
  /\ Current < MaxRevisions
  /\ \E ours \in BOOLEAN:
       revisions' = Append(revisions, [parent |-> Current, status |-> "running",
                                       ours |-> ours, seen |-> evidence])

Revise == NewRevision /\ UNCHANGED <<evidence, wait, command, dirs, saved, posts>>

Finish ==
  /\ CurrentStatus = "running"
  /\ revisions' = [revisions EXCEPT ![Current].status = "completed"]
  /\ UNCHANGED <<evidence, wait, command, dirs, saved, posts>>

Uploaded(by) ==
  /\ Len(evidence) < MaxEvidence
  /\ evidence' = Append(evidence, [by |-> by, status |-> "processing"])

Extract ==
  /\ \E i \in DOMAIN evidence, s \in {"ready", "failed"}:
       /\ evidence[i].status = "processing"
       /\ evidence' = [evidence EXCEPT ![i].status = s]
  /\ UNCHANGED <<revisions, wait, command, dirs, saved, posts>>

(* Somebody else attaches something to the episode.                        *)
OtherEvidence ==
  /\ Uploaded("other")
  /\ UNCHANGED <<revisions, wait, command, dirs, saved, posts>>

-----------------------------------------------------------------------------
(* await_assessment: two reads in a row of the same terminal revision with *)
(* the round's incident as primary; a change gives more time.              *)

Later(i, j) == IF i > j THEN i ELSE j
Sooner(i, j) == IF i < j THEN i ELSE j

Extended(changes) ==
  IF changes THEN Sooner(Wait + Grace, Later(wait.deadline, wait.now + Extension))
  ELSE wait.deadline

ReadAssessment ==
  LET exact == IF ~ExactPrimary THEN 0
               ELSE IF Current = wait.prior THEN wait.exact + 1 ELSE 1
      changes == \/ Current # wait.prior /\ wait.prior # 0
                 \/ CurrentStatus = "running" /\ wait.status # "running"
  IN
  /\ wait.accepted = 0
  /\ wait.now < wait.deadline
  /\ wait' = IF exact >= 2 THEN [NotWaited EXCEPT !.accepted = Current]
             ELSE [wait EXCEPT !.now = @ + 1, !.deadline = Extended(changes),
                               !.prior = Current, !.exact = exact,
                               !.status = CurrentStatus]
  /\ UNCHANGED <<revisions, evidence, command, dirs, saved, posts>>

-----------------------------------------------------------------------------
(* The commands.                                                           *)

Is(c, pc) == command[c].pc = pc
Go(c, pc) == command' = [command EXCEPT ![c].pc = pc]
End(c) == command' = [command EXCEPT ![c] = [NotStarted EXCEPT !.pc = "failed"]]

(* A check refuses, a call fails, a wait times out or the process is killed.*)
Fails(c) ==
  /\ command[c].pc \notin {"new", "failed", "done"}
  /\ End(c)
  /\ UNCHANGED <<revisions, evidence, wait, dirs, saved, posts>>

(* attach is run over a round whose assessment has been accepted.  A       *)
(* refused command leaves nothing behind, and may be run again.            *)
CheckEvidence(c) ==
  /\ c \in Attach /\ Is(c, "new")
  /\ wait.accepted # 0
  /\ "media-review" \notin dirs
  /\ evidence = <<>> \/ c \in Incremental
  /\ command' = [command EXCEPT ![c].pc = "baseline", ![c].existing = evidence]
  /\ UNCHANGED <<revisions, evidence, wait, dirs, saved, posts>>

(* Mutated Unchanged: the current assessment is taken, whichever it is.    *)
AnyBaseline(c) == TRUE

(* The assessment that the round waited for is still the current one.      *)
Unchanged(c) == Current = wait.accepted \/ c \in Incremental

CheckBaseline(c) ==
  /\ Is(c, "baseline")
  /\ ExactPrimary
  /\ Unchanged(c)
  /\ command' = [command EXCEPT ![c].pc = "claim", ![c].before = Current]
  /\ UNCHANGED <<revisions, evidence, wait, dirs, saved, posts>>

(* reassess, once attach has saved its attachment: the current revision is *)
(* the expected one, and then the only attachment is the saved one.        *)
CheckExpected(c) ==
  /\ c \in Reassess /\ Is(c, "new")
  /\ saved.attachment # 0
  /\ Terminal
  /\ command' = [command EXCEPT ![c].pc = "reviewed", ![c].before = Current]
  /\ UNCHANGED <<revisions, evidence, wait, dirs, saved, posts>>

CheckReviewed(c) ==
  /\ Is(c, "reviewed")
  /\ Len(evidence) = 1
  /\ saved.attachment = 1 /\ saved.extraction = evidence[1].status
  /\ command' = [command EXCEPT ![c].pc = "claim", ![c].mine = saved.attachment]
  /\ UNCHANGED <<revisions, evidence, wait, dirs, saved, posts>>

First(c) == IF c \in Attach THEN "upload" ELSE "update"

(* Mutated Claim: a directory that exists is used again.                   *)
ClaimAgain(c) ==
  /\ Is(c, "claim")
  /\ dirs' = dirs \cup {Dir(c)}
  /\ Go(c, First(c))
  /\ UNCHANGED <<revisions, evidence, wait, saved, posts>>

(* mkdir, which fails if the directory exists, and attempt.json.           *)

Claim(c) ==
  /\ Is(c, "claim")
  /\ Dir(c) \notin dirs
  /\ dirs' = dirs \cup {Dir(c)}
  /\ Go(c, First(c))
  /\ UNCHANGED <<revisions, evidence, wait, saved, posts>>

Post(c, kind) == posts' = [posts EXCEPT ![Dir(c)][kind] = @ + 1]

(* Its answer may be lost, with or without the request.                    *)
Upload(c) ==
  /\ Is(c, "upload")
  /\ Post(c, "upload")
  /\ \/ /\ Uploaded(c)
        /\ command' = [command EXCEPT ![c].pc = "extract", ![c].mine = Len(evidence) + 1]
     \/ Uploaded(c) /\ End(c)
     \/ UNCHANGED evidence /\ End(c)
  /\ UNCHANGED <<revisions, wait, dirs, saved>>

SeeExtracted(c) ==
  /\ Is(c, "extract")
  /\ LET s == evidence[command[c].mine].status IN
       /\ s # "processing"
       /\ saved' = [saved EXCEPT !.attachment = command[c].mine, !.extraction = s]
       /\ IF s = "ready" THEN Go(c, "recheck") ELSE End(c)
  /\ UNCHANGED <<revisions, evidence, wait, dirs, posts>>

Recheck(c) ==
  /\ Is(c, "recheck")
  /\ Current = command[c].before /\ ExactPrimary
  /\ Go(c, "evidence")
  /\ UNCHANGED <<revisions, evidence, wait, dirs, saved, posts>>

RecheckEvidence(c) ==
  /\ Is(c, "evidence")
  /\ evidence = Append(command[c].existing, [by |-> c, status |-> "ready"])
  /\ Go(c, "update")
  /\ UNCHANGED <<revisions, evidence, wait, dirs, saved, posts>>

(* The product accepts a new revision, or answers with the current one.    *)
Update(c) ==
  /\ Is(c, "update")
  /\ Post(c, "update")
  /\ \/ /\ NewRevision
        /\ command' = [command EXCEPT ![c].pc = "reassess", ![c].queued = Current + 1]
     \/ /\ CurrentStatus = "running" /\ Current # command[c].before
        /\ command' = [command EXCEPT ![c].pc = "reassess", ![c].queued = Current]
        /\ UNCHANGED revisions
     \/ (NewRevision \/ UNCHANGED revisions) /\ End(c)
  /\ UNCHANGED <<evidence, wait, dirs, saved>>

SeeReassessed(c) ==
  /\ Is(c, "reassess")
  /\ Current = command[c].queued /\ Terminal
  /\ command' = [command EXCEPT ![c].pc = "done",
                   ![c].linked = (revisions[Current].parent = command[c].before)]
  /\ UNCHANGED <<revisions, evidence, wait, dirs, saved, posts>>

ReviewNext ==
  \/ Revise \/ Finish \/ Extract \/ OtherEvidence \/ ReadAssessment
  \/ \E c \in Command:
       \/ CheckEvidence(c) \/ CheckBaseline(c) \/ CheckExpected(c)
       \/ CheckReviewed(c) \/ Claim(c) \/ Upload(c)
       \/ SeeExtracted(c) \/ Recheck(c) \/ RecheckEvidence(c) \/ Update(c)
       \/ SeeReassessed(c) \/ Fails(c)

ReviewSpec == ReviewInit /\ [][ReviewNext]_reviewVars

-----------------------------------------------------------------------------
ReviewTypeOK ==
  /\ dirs \subseteq Directory
  /\ posts \in [Directory -> [Paid -> Nat]]
  /\ wait \in [now : Nat, deadline : Nat, prior : Nat, exact : Nat, accepted : Nat,
               status : {"none", "running", "completed"}]

(* A comparison reported as linked compares the assessment that the round  *)
(* waited for with its immediate successor, and that one was given the     *)
(* reviewed image (attach, finish_update).                                 *)
LinkedMeansComparable ==
  \A c \in Attach \ Incremental : command[c].linked =>
    LET after == revisions[command[c].queued] IN
      /\ after.parent = wait.accepted
      /\ after.seen # <<>> /\ after.seen[1] = [by |-> c, status |-> "ready"]
=============================================================================
