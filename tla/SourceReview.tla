---------------------------- MODULE SourceReview ----------------------------
(***************************************************************************)
(* The commands history and history-status of tools/run_operator_demos.py: *)
(* one paid review of the capsule that an earlier occurrence left, and its *)
(* reconciliation by reading only.                                         *)
(***************************************************************************)
EXTENDS Naturals

CONSTANTS History,       \* runs of history
          HistoryStatus  \* runs of history-status

VARIABLES
  reader, \* where each of them is, and the review it waits for
  files,  \* history-review: the directory, attempt.json, review-request.json
  asked,  \* source-review requests sent
  review  \* the product's reviews: their statuses, by identity

sourceVars == <<reader, files, asked, review>>

MaxReviews == 2

SourceInit ==
  /\ reader = [h \in History \cup HistoryStatus |-> [pc |-> "new", review |-> 0]]
  /\ files = [directory |-> FALSE, attempt |-> FALSE, request |-> 0, results |-> {}]
  /\ asked = 0
  /\ review = [i \in 1 .. MaxReviews |-> "none"]

Moves(h, pc, i) == reader' = [reader EXCEPT ![h] = [pc |-> pc, review |-> i]]

(* history_records, the model configuration; mkdir; the capsule is still   *)
(* the one the earlier round hashed; attempt.json.                         *)
MakeDirectory(h) ==
  /\ h \in History /\ reader[h].pc = "new"
  /\ ~files.directory
  /\ files' = [files EXCEPT !.directory = TRUE]
  /\ Moves(h, "capsule", 0)
  /\ UNCHANGED <<asked, review>>

CheckCapsule(h) ==
  /\ reader[h].pc = "capsule"
  /\ files' = [files EXCEPT !.attempt = TRUE]
  /\ Moves(h, "ask", 0)
  /\ UNCHANGED <<asked, review>>

(* The one POST; its answer may be lost.                                   *)
Ask(h) ==
  /\ reader[h].pc = "ask"
  /\ asked' = asked + 1
  /\ \/ \E i \in 1 .. MaxReviews :
          /\ review[i] = "none"
          /\ review' = [review EXCEPT ![i] = "running"]
          /\ Moves(h, "answered", i) \/ Moves(h, "failed", 0)
     \/ UNCHANGED review /\ Moves(h, "failed", 0)
  /\ UNCHANGED files

SaveRequest(h) ==
  /\ reader[h].pc = "answered"
  /\ files' = [files EXCEPT !.request = reader[h].review]
  /\ Moves(h, "waiting", reader[h].review)
  /\ UNCHANGED <<asked, review>>

(* history-status reads both files and waits for the same review.          *)
ReadRequest(h) ==
  /\ h \in HistoryStatus /\ reader[h].pc = "new"
  /\ files.attempt /\ files.request # 0
  /\ Moves(h, "waiting", files.request)
  /\ UNCHANGED <<files, asked, review>>

(* finish_history_review: source-review.json and evaluation.json.          *)
SeeReview(h) ==
  /\ reader[h].pc = "waiting"
  /\ review[reader[h].review] # "running"
  /\ files' = [files EXCEPT !.results = @ \cup {<<reader[h].review, review[reader[h].review]>>}]
  /\ Moves(h, "done", reader[h].review)
  /\ UNCHANGED <<asked, review>>

(* A check refuses, a call fails, a wait times out or the process is killed.*)
ReaderFails(h) ==
  /\ reader[h].pc \notin {"new", "failed", "done"}
  /\ Moves(h, "failed", 0)
  /\ UNCHANGED <<files, asked, review>>

(* The product completes a review, or it fails.                            *)
ReviewEnds ==
  /\ \E i \in DOMAIN review, s \in {"completed", "failed"} :
       review[i] = "running" /\ review' = [review EXCEPT ![i] = s]
  /\ UNCHANGED <<reader, files, asked>>

SourceNext ==
  \/ ReviewEnds
  \/ \E h \in History \cup HistoryStatus :
       \/ MakeDirectory(h) \/ CheckCapsule(h) \/ Ask(h) \/ SaveRequest(h)
       \/ ReadRequest(h) \/ SeeReview(h) \/ ReaderFails(h)
=============================================================================
