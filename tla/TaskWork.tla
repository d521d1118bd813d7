------------------------------- MODULE TaskWork -------------------------------
(***************************************************************************)
(* What one task goes through between its claim and its rest: the action   *)
(* loop of the executor (internal/executor/generic.go, action.go,          *)
(* task_heuristics.go), the observations and tool calls it leaves          *)
(* (internal/observer, internal/tools/runtime.go), the tester that judges  *)
(* them (internal/tester/generic_evidence.go) and the reviewer             *)
(* (internal/reviewer/llm.go), and what others do to the task at rest: the *)
(* retry, the user's answer and the repair that settles a failed task      *)
(* (internal/runtime/service_run.go, service_repair.go).  Executor and     *)
(* tester read the task's text and the attempt's evidence independently,   *)
(* each by rules of its own.                                               *)
(***************************************************************************)
EXTENDS TaskDomain, Naturals, FiniteSets

CONSTANTS
  Tasks,      \* task texts: a subset of TaskTexts
  MaxSteps    \* 30 unless the options say otherwise

(* The groups of marker words the rules look for in a task's text, and the *)
(* file names it requires evidence of, some written with their directory.  *)
Words == {"passing", "tests", "source", "browser", "interaction", "text", "readonly",
          "format", "change", "research", "reading", "report", "named"}
Files == {"a", "b"}
NoFile == "-"
TaskTexts == [words : SUBSET Words, required : {{}, Files}, placed : SUBSET Files]

(* One tool for each way the rules treat one.                              *)
Tools == {"test.run", "file.read", "file.write", "file.patch", "browser.open", "browser.click",
          "code.search", "notes.add"}
(* The tools with a path the executor corrects.                            *)
FileTools == {"file.read", "file.write", "file.patch"}
(* No rule tells a failed call of another tool from one of notes.add.      *)
MayFail == {"test.run", "file.read", "notes.add"}
isResearchEvidenceTool(t) == t \in {"file.read", "browser.open", "code.search"}

(* An interpreted tool result: a successful call, a failed one, and one    *)
(* whose audit row was refused because its own time limit was over; the    *)
(* executor takes the last two for the same.                               *)
Calls == [tool : Tools, file : Files \cup {NoFile}, result : {"ok", "failed", "lost"}]

VARIABLES
  task,      \* the task's text
  status,    \* the task's row
  attempt,   \* the status of the attempt in progress, or of the last one
  at,        \* where the pipeline is
  step,      \* the executor's step
  events,    \* the tool results of this attempt
  tried,     \* the executor's fingerprints: how often each was chosen
  finished,  \* the attempt has an agent.finish observation
  verdict,   \* the attempt's test result
  repaired   \* the task was closed by its repair (history)

evidence == <<step, events, tried, finished, verdict>>
vars == <<task, status, attempt, at, evidence, repaired>>

Fingerprints == (Tools \X (Files \cup {NoFile})) \cup {<<"finish", NoFile>>, <<"unknown", NoFile>>}
Places == {"rest", "claimed", "loop", "finish", "failing", "asking",
           "test", "testing", "review", "rejecting", "approving"}

TypeOK ==
  /\ task \in TaskTexts /\ status \in Status
  /\ attempt \in {"none", "RUNNING", "SUCCEEDED", "FAILED", "CANCELLED"}
  /\ at \in Places /\ step \in 1 .. MaxSteps + 1
  /\ events \subseteq Calls
  /\ DOMAIN tried \subseteq Fingerprints
  /\ finished \in BOOLEAN /\ repaired \in BOOLEAN
  /\ verdict \in {"none", "passed", "failed"}

Init ==
  /\ task \in Tasks
  /\ status = "READY" /\ attempt = "none" /\ at = "rest"
  /\ step = 1 /\ events = {} /\ tried = << >> /\ finished = FALSE /\ verdict = "none"
  /\ repaired = FALSE

-----------------------------------------------------------------------------
(* The executor's reading of the text                                      *)

Says(w) == w \in task.words

taskNeedsPassingTest == Says("passing")
taskNeedsDiagnosticTestRun == Says("tests") /\ ~taskNeedsPassingTest
taskNeedsBrowserRead == Says("browser")
taskNeedsSourceRead == Says("source") /\ ~taskNeedsBrowserRead
taskNeedsEvidenceReport == Says("report") /\ ~Says("interaction")
taskNeedsGeneratedText == Says("text")
taskNeedsMechanicalVerification == Says("format")
taskNeedsCodeChange == Says("change")
taskNeedsReadOnly ==
  /\ Says("readonly")
  /\ ~taskNeedsPassingTest /\ ~taskNeedsDiagnosticTestRun /\ ~taskNeedsCodeChange
  /\ ~taskNeedsMechanicalVerification /\ ~taskNeedsGeneratedText /\ ~taskNeedsBrowserRead

Did(E, t) == \E e \in E : e.tool = t
DidWell(E, t) == \E e \in E : e.tool = t /\ e.result = "ok"
hasBrowserRead(E) == DidWell(E, "browser.open") \/ DidWell(E, "browser.click")
browserInteractionMissing(E) == Says("interaction") /\ ~DidWell(E, "browser.click")
hasResearchEvidence(E) == \E e \in E : e.result = "ok" /\ isResearchEvidenceTool(e.tool)

(* Mutant of finishEvidenceReady: no evidence is asked for by itself.      *)
FinishAlways(E) == E # {}

finishEvidenceReady(E) ==
  /\ (\E e \in E : e.result = "ok") \/ (taskNeedsDiagnosticTestRun /\ Did(E, "test.run"))
  /\ taskNeedsPassingTest => DidWell(E, "test.run")
  /\ taskNeedsDiagnosticTestRun => Did(E, "test.run")
  /\ taskNeedsBrowserRead => hasBrowserRead(E)
  /\ ~browserInteractionMissing(E)
  /\ \/ Says("research") /\ hasResearchEvidence(E)
     \/ /\ taskNeedsSourceRead => Did(E, "file.read")
        /\ Says("named") => DidWell(E, "notes.add")

autoFinishSummary(E) ==
  \/ taskNeedsBrowserRead /\ ~taskNeedsGeneratedText /\ hasBrowserRead(E) /\ ~browserInteractionMissing(E)
  \/ taskNeedsReadOnly /\ DidWell(E, "file.read")
  \/ taskNeedsEvidenceReport /\ hasBrowserRead(E) /\ DidWell(E, "file.read")
  \/ taskNeedsGeneratedText /\ DidWell(E, "file.write")
  \/ taskNeedsCodeChange /\ ~taskNeedsPassingTest /\ ~taskNeedsMechanicalVerification
     /\ (DidWell(E, "file.write") \/ DidWell(E, "file.patch"))
  \/ taskNeedsPassingTest /\ DidWell(E, "test.run")
  \/ /\ taskNeedsDiagnosticTestRun /\ Did(E, "test.run")
     /\ taskNeedsSourceRead => DidWell(E, "file.read")

-----------------------------------------------------------------------------
(* The action loop                                                         *)

Transition(to) == status' = to

Claim ==
  /\ at = "rest" /\ status = "READY"
  /\ Transition("IN_PROGRESS")
  /\ at' = "claimed"
  /\ UNCHANGED <<task, attempt, evidence, repaired>>

(* Everything later is asked of the new attempt's rows only.               *)
CreateTaskAttempt ==
  /\ at = "claimed"
  /\ attempt' = "RUNNING"
  /\ step' = 1 /\ events' = {} /\ tried' = << >> /\ finished' = FALSE /\ verdict' = "none"
  /\ at' = "loop"
  /\ UNCHANGED <<task, status, repaired>>

(* Mutant of Looping: one step more than allowed.                          *)
OneStepMore == at = "loop" /\ step <= MaxSteps + 1

Looping == at = "loop" /\ step <= MaxSteps
Choosing == Looping /\ ~autoFinishSummary(events)

Times(f) == IF f \in DOMAIN tried THEN tried[f] ELSE 0
Repeated(f) == Times(f) >= 2
Try(f) ==
  /\ tried' = [g \in DOMAIN tried \cup {f} |-> IF g = f THEN Times(f) + 1 ELSE tried[g]]
  /\ step' = step + 1

(* What the loop counted is forgotten with it.                             *)
Leave(place) == at' = place /\ step' = 1 /\ tried' = << >>

AutoFinish ==
  /\ Looping /\ autoFinishSummary(events)
  /\ Leave("finish")
  /\ UNCHANGED <<task, status, attempt, events, finished, verdict, repaired>>

(* A file the task names with its directory is found by its last part; if  *)
(* the task names one such file, any other bare name is taken for it too.  *)
normalizeActionArgsForTask(f, bare) ==
  IF bare /\ f \notin task.placed /\ Cardinality(task.placed) = 1
  THEN CHOOSE p \in task.placed : TRUE ELSE f

(* The progress guard: the third time an action is not executed.           *)
RejectRepeated(f) ==
  /\ Choosing /\ Repeated(f)
  /\ Try(f)
  /\ UNCHANGED <<task, status, attempt, at, events, finished, verdict, repaired>>

CallTool(t, file, result) ==
  LET E == events \cup {[tool |-> t, file |-> file, result |-> result]} IN
  /\ Choosing /\ ~Repeated(<<t, file>>)
  /\ result = "lost" => t = "test.run"
  /\ result = "failed" => t \in MayFail
  /\ events' = E
  /\ \/ result = "ok" /\ autoFinishSummary(E) /\ Leave("finish")
     \/ ~(result = "ok" /\ autoFinishSummary(E)) /\ Try(<<t, file>>) /\ UNCHANGED at
  /\ UNCHANGED <<task, status, attempt, finished, verdict, repaired>>

Tool(t) ==
  \E f \in Files, bare \in BOOLEAN, result \in {"ok", "failed", "lost"} :
    CallTool(t, IF t \in FileTools /\ task.required # {} THEN normalizeActionArgsForTask(f, bare) ELSE NoFile, result)

(* The model's own finish; an unsupported action is only noted.            *)
ChooseFinish ==
  /\ Choosing /\ ~Repeated(<<"finish", NoFile>>)
  /\ \/ finishEvidenceReady(events) /\ Leave("finish")
     \/ ~finishEvidenceReady(events) /\ Try(<<"finish", NoFile>>) /\ UNCHANGED at
  /\ UNCHANGED <<task, status, attempt, events, finished, verdict, repaired>>

Unsupported ==
  /\ Choosing /\ ~Repeated(<<"unknown", NoFile>>)
  /\ Try(<<"unknown", NoFile>>)
  /\ UNCHANGED <<task, status, attempt, at, events, finished, verdict, repaired>>

finishWithoutTools ==
  /\ at = "finish"
  /\ finished' = TRUE
  /\ Transition("IMPLEMENTED") /\ at' = "test"
  /\ UNCHANGED <<task, attempt, step, events, tried, verdict, repaired>>

AskUser ==
  /\ Choosing
  /\ Transition("NEED_USER_INPUT") /\ Leave("asking")
  /\ UNCHANGED <<task, attempt, events, finished, verdict, repaired>>

(* No usable answer of the LLM, or no step left.                           *)
Fail ==
  /\ Choosing \/ (at = "loop" /\ step > MaxSteps)
  /\ Transition("FAILED") /\ Leave("failing")
  /\ UNCHANGED <<task, attempt, events, finished, verdict, repaired>>

CompletedAs(place) ==
  CASE place = "failing" -> "FAILED" [] place = "rejecting" -> "FAILED"
    [] place = "asking" -> "CANCELLED" [] place = "approving" -> "SUCCEEDED"

(* The second of the two writes at the end of an attempt.                  *)
CompleteTaskAttempt ==
  /\ at \in {"failing", "rejecting", "asking", "approving"}
  /\ attempt' = CompletedAs(at)
  /\ at' = "rest"
  /\ UNCHANGED <<task, status, evidence, repaired>>

-----------------------------------------------------------------------------
(* The tester: what the attempt's rows say                                 *)

Rows == {e \in events : e.result # "lost"}
taskRequiresDiagnosticTestRun == Says("tests") /\ ~Says("passing")
taskRequiresResearchEvidence == Says("research") \/ Says("reading")
hasTestRun == Did(Rows, "test.run")

(* A patch of a file is not among the calls the tester takes for evidence. *)
requiredFileEvidence ==
  task.required \subseteq
    {e.file : e \in {x \in Rows : x.tool \in {"file.read", "file.write"} /\ x.result = "ok"}}

(* Mutant of genericEvidence: the words about tests are not looked at.     *)
EvidenceOfAnyKind ==
  /\ finished /\ \E e \in Rows : e.result = "ok"
  /\ taskRequiresResearchEvidence => hasResearchEvidence(Rows)
  /\ requiredFileEvidence

genericEvidence ==
  /\ finished
  /\ (\E e \in Rows : e.result = "ok") \/ (taskRequiresDiagnosticTestRun /\ hasTestRun)
  /\ Says("passing") => DidWell(Rows, "test.run")
  /\ taskRequiresDiagnosticTestRun => hasTestRun
  /\ taskRequiresResearchEvidence => hasResearchEvidence(Rows)
  /\ requiredFileEvidence

StartTest ==
  /\ at = "test"
  /\ Transition("TESTING") /\ at' = "testing"
  /\ UNCHANGED <<task, attempt, evidence, repaired>>

(* The failing tester closes the task and leaves the attempt open.         *)
Test ==
  /\ at = "testing"
  /\ \/ genericEvidence /\ verdict' = "passed" /\ Transition("REVIEWING") /\ at' = "review"
     \/ ~genericEvidence /\ verdict' = "failed" /\ Transition("FAILED") /\ at' = "rest"
  /\ UNCHANGED <<task, attempt, step, events, tried, finished, repaired>>

-----------------------------------------------------------------------------
(* The reviewer, the user and the ends nobody planned                      *)

Review ==
  /\ at = "review"
  /\ \/ verdict = "passed" /\ finished /\ Transition("DONE") /\ at' = "approving"
     \/ Transition("REVIEW_FAILED") /\ at' = "rejecting"
  /\ UNCHANGED <<task, attempt, evidence, repaired>>

(* A store or LLM error, or the end of the process, between two writes;    *)
(* createRepairTask marks the task when tester or reviewer erred.          *)
Interrupted ==
  /\ at # "rest"
  /\ \/ UNCHANGED status
     \/ at \in {"test", "testing", "review"} /\ CanTransition(status, "FAILED") /\ Transition("FAILED")
  /\ Leave("rest")
  /\ UNCHANGED <<task, attempt, events, finished, verdict, repaired>>

-----------------------------------------------------------------------------
(* What others do to the task.  There is one pipeline of a task at a time  *)
(* here: a retry and an answer come when the attempt has been closed.      *)

RetryTask ==
  /\ at = "rest" /\ status \in Retryable
  /\ Transition("READY")
  /\ UNCHANGED <<task, attempt, at, evidence, repaired>>

HandleUserConfirmation ==
  /\ at = "rest" /\ status = "NEED_USER_INPUT"
  /\ Transition("READY") \/ Transition("BLOCKED")
  /\ UNCHANGED <<task, attempt, at, evidence, repaired>>

(* completeRepairedTask and completeSupersededRepairTasks, in the pipeline *)
(* of a repair of the same failure: the task becomes DONE, its attempt and *)
(* its rows stay what they are.                                            *)
CompleteRepaired ==
  /\ status \in {"FAILED", "REVIEW_FAILED"}
  /\ Transition("DONE") /\ repaired' = TRUE
  /\ UNCHANGED <<task, attempt, at, evidence>>

Next ==
  \/ Claim \/ CreateTaskAttempt \/ AutoFinish
  \/ \E f \in Fingerprints : RejectRepeated(f)
  \/ \E t \in Tools : Tool(t)
  \/ ChooseFinish \/ Unsupported \/ finishWithoutTools \/ AskUser \/ Fail
  \/ CompleteTaskAttempt \/ StartTest \/ Test \/ Review \/ Interrupted
  \/ RetryTask \/ HandleUserConfirmation \/ CompleteRepaired

Spec == Init /\ [][Next]_vars

-----------------------------------------------------------------------------
(* Properties                                                              *)

(* A task its own pipeline made DONE was finished, passed its test and left *)
(* the evidence its words ask the tester for in that very attempt, although *)
(* the executor's automatic finish skips its own evidence rules and earlier *)
(* attempts of the task left rows too.  A failed task that a repair closed  *)
(* is the exception: the evidence for it is the repair task's.              *)
DoneIsEvidenced ==
  status = "DONE" /\ ~repaired =>
    /\ finished /\ verdict = "passed"
    /\ Says("passing") => DidWell(Rows, "test.run")
    /\ Says("research") => hasResearchEvidence(Rows)
    /\ requiredFileEvidence

(* Two sets of rules, one verdict: what the executor's own rules let a task *)
(* finish with passes the tester.  The exceptions are what those rules do   *)
(* not look at: the evidence of an automatic finish, the research and file  *)
(* evidence the tester asks for, and a call without an audit row.           *)
TesterAgreesWithExecutor ==
  verdict = "failed" =>
    \/ autoFinishSummary(events)
    \/ taskRequiresResearchEvidence \/ task.required # {}
    \/ \E e \in events : e.result = "lost"
=============================================================================
