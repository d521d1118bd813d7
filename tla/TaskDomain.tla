----------------------------- MODULE TaskDomain -----------------------------
(***************************************************************************)
(* The task state machine of internal/domain/status.go, and the two sets   *)
(* of statuses the run loop reasons with.                                  *)
(***************************************************************************)

Status == {"DRAFT", "READY", "IN_PROGRESS", "IMPLEMENTED", "TESTING",
           "REVIEWING", "DONE", "BLOCKED", "NEED_USER_INPUT",
           "REVIEW_FAILED", "FAILED", "CANCELLED"}

\* taskTransitions, as a relation; DONE and CANCELLED have no successor.
Transitions ==
  ({"DRAFT"}           \X {"READY", "BLOCKED", "CANCELLED"}) \cup
  ({"READY"}           \X {"IN_PROGRESS", "BLOCKED", "CANCELLED"}) \cup
  ({"IN_PROGRESS"}     \X {"IMPLEMENTED", "BLOCKED", "NEED_USER_INPUT",
                           "FAILED", "CANCELLED"}) \cup
  ({"IMPLEMENTED"}     \X {"TESTING", "FAILED", "CANCELLED"}) \cup
  ({"TESTING"}         \X {"REVIEWING", "REVIEW_FAILED", "FAILED", "CANCELLED"}) \cup
  ({"REVIEWING"}       \X {"DONE", "REVIEW_FAILED", "FAILED", "CANCELLED"}) \cup
  ({"BLOCKED"}         \X {"READY", "CANCELLED"}) \cup
  ({"NEED_USER_INPUT"} \X {"READY", "BLOCKED", "CANCELLED"}) \cup
  ({"REVIEW_FAILED"}   \X {"READY", "DONE", "CANCELLED"}) \cup
  ({"FAILED"}          \X {"READY", "DONE", "CANCELLED"})

\* CanTransitionTask: staying in a status is always allowed.
CanTransition(from, to) == from = to \/ <<from, to>> \in Transitions

\* dependencyBlocksDependents
BlocksDependents == {"BLOCKED", "NEED_USER_INPUT", "FAILED", "REVIEW_FAILED",
                     "CANCELLED"}

\* What projectIncompleteSummary counts as complete.
Complete == {"DONE", "CANCELLED"}

\* What RetryTask sends back to READY.
Retryable == {"DRAFT", "BLOCKED", "NEED_USER_INPUT", "REVIEW_FAILED", "FAILED"}
=============================================================================
