------------------------------ MODULE TaskQueue ------------------------------
(***************************************************************************)
(* The in-process run queue of internal/runtime/queue.go: Submit marks a   *)
(* project as pending under the mutex and sends it to a bounded channel    *)
(* after unlocking; workers receive projects, call the runner and unmark   *)
(* them; Stop clears `started`, cancels the context and waits.             *)
(*                                                                         *)
(* The runner (RunProjectTasks) is one step between TakeWork and Finish.   *)
(* A queue is started once, as internal/app/web.go does.                   *)
(***************************************************************************)
EXTENDS Naturals, Sequences

CONSTANTS Projects,     \* project ids
          Workers,      \* worker goroutines (NewTaskQueue's count)
          Submitters,   \* goroutines that call Submit (one per channel event)
          Capacity,     \* buffer of the work channel (256 in the code)
          None          \* no project

ASSUME CapacityAssumption == Capacity \in Nat \ {0}
ASSUME NoneAssumption == None \notin Projects

VARIABLES
  started,    \* TaskQueue.started
  cancelled,  \* TaskQueue.ctx is cancelled
  pending,    \* TaskQueue.pending
  work,       \* TaskQueue.work, the buffered channel
  worker,     \* worker[w]: where goroutine w of worker() is, and its project
  submit,     \* submit[s]: where a call of Submit is, and its project
  stopping    \* where the call of Stop is

vars == <<started, cancelled, pending, work, worker, submit, stopping>>

WorkerPC == {"unborn", "select", "running", "exited"}
SubmitPC == {"idle", "sending", "unmarking"}
StopPC   == {"not_called", "cancelling", "waiting", "clean", "timed_out"}

Running(p) == \E w \in Workers : worker[w].pc = "running" /\ worker[w].project = p
Queued(p) == \E i \in DOMAIN work : work[i] = p
InSubmit(p) == \E s \in Submitters : /\ submit[s].pc # "idle"
                                     /\ submit[s].project = p

TypeOK ==
  /\ started \in BOOLEAN
  /\ cancelled \in BOOLEAN
  /\ pending \subseteq Projects
  /\ work \in Seq(Projects)
  /\ worker \in [Workers -> [pc : WorkerPC, project : Projects \cup {None}]]
  /\ submit \in [Submitters -> [pc : SubmitPC, project : Projects \cup {None}]]
  /\ stopping \in StopPC

Init ==
  /\ started = FALSE
  /\ cancelled = FALSE
  /\ pending = {}
  /\ work = <<>>
  /\ worker = [w \in Workers |-> [pc |-> "unborn", project |-> None]]
  /\ submit = [s \in Submitters |-> [pc |-> "idle", project |-> None]]
  /\ stopping = "not_called"

-----------------------------------------------------------------------------
\* Start: the first call only (see the head of the module).
Start ==
  /\ ~started
  /\ stopping = "not_called"
  /\ started' = TRUE
  /\ worker' = [w \in Workers |-> [pc |-> "select", project |-> None]]
  /\ UNCHANGED <<cancelled, pending, work, submit, stopping>>

\* Faulty: a pending project is not deduplicated.
SubmitUndeduplicated(s, p) ==
  /\ submit[s].pc = "idle"
  /\ started
  /\ pending' = pending \cup {p}
  /\ submit' = [submit EXCEPT ![s] = [pc |-> "sending", project |-> p]]
  /\ UNCHANGED <<started, cancelled, work, worker, stopping>>

\* Submit's first critical section: refused when stopped, deduplicated when
\* pending, otherwise marked.
SubmitMark(s, p) ==
  /\ submit[s].pc = "idle"
  /\ \/ /\ started /\ p \notin pending
        /\ pending' = pending \cup {p}
        /\ submit' = [submit EXCEPT ![s] = [pc |-> "sending", project |-> p]]
     \/ /\ started /\ p \in pending
        /\ UNCHANGED <<pending, submit>>
     \/ /\ ~started
        /\ UNCHANGED <<pending, submit>>
  /\ UNCHANGED <<started, cancelled, work, worker, stopping>>

\* The non-blocking send outside the mutex.
SubmitSend(s) ==
  /\ submit[s].pc = "sending"
  /\ \/ /\ Len(work) < Capacity
        /\ work' = Append(work, submit[s].project)
        /\ submit' = [submit EXCEPT ![s] = [pc |-> "idle", project |-> None]]
     \/ /\ Len(work) >= Capacity
        /\ submit' = [submit EXCEPT ![s].pc = "unmarking"]
        /\ UNCHANGED work
  /\ UNCHANGED <<started, cancelled, pending, worker, stopping>>

\* Faulty: a refused submission leaves its mark.
SubmitKeepsMark(s) ==
  /\ submit[s].pc = "unmarking"
  /\ submit' = [submit EXCEPT ![s] = [pc |-> "idle", project |-> None]]
  /\ UNCHANGED <<started, cancelled, pending, work, worker, stopping>>

\* Buffer full: the second critical section unmarks the project.
SubmitUnmark(s) ==
  /\ submit[s].pc = "unmarking"
  /\ pending' = pending \ {submit[s].project}
  /\ submit' = [submit EXCEPT ![s] = [pc |-> "idle", project |-> None]]
  /\ UNCHANGED <<started, cancelled, work, worker, stopping>>

-----------------------------------------------------------------------------
\* Faulty: the worker drops the project it received.
TakeAndDrop(w) ==
  /\ worker[w].pc = "select"
  /\ work # <<>>
  /\ worker' = [worker EXCEPT ![w] = [pc |-> "select", project |-> None]]
  /\ work' = Tail(work)
  /\ pending' = pending \ {Head(work)}
  /\ UNCHANGED <<started, cancelled, submit, stopping>>

\* A worker receives from the channel; select may prefer this case even when
\* the context is already cancelled.
TakeWork(w) ==
  /\ worker[w].pc = "select"
  /\ work # <<>>
  /\ worker' = [worker EXCEPT ![w] = [pc |-> "running", project |-> Head(work)]]
  /\ work' = Tail(work)
  /\ UNCHANGED <<started, cancelled, pending, submit, stopping>>

\* The runner returned: markDone.
Finish(w) ==
  /\ worker[w].pc = "running"
  /\ pending' = pending \ {worker[w].project}
  /\ worker' = [worker EXCEPT ![w] = [pc |-> "select", project |-> None]]
  /\ UNCHANGED <<started, cancelled, work, submit, stopping>>

\* Faulty: the worker heeds its context only while the queue takes submissions.
ExitWhileStarted(w) ==
  /\ worker[w].pc = "select"
  /\ started /\ cancelled
  /\ worker' = [worker EXCEPT ![w].pc = "exited"]
  /\ UNCHANGED <<started, cancelled, pending, work, submit, stopping>>

\* The other case of the select: the context is done.
Exit(w) ==
  /\ worker[w].pc = "select"
  /\ cancelled
  /\ worker' = [worker EXCEPT ![w].pc = "exited"]
  /\ UNCHANGED <<started, cancelled, pending, work, submit, stopping>>

-----------------------------------------------------------------------------
\* Stop: the critical section that refuses further submissions.
StopBegin ==
  /\ stopping = "not_called"
  /\ started
  /\ started' = FALSE
  /\ stopping' = "cancelling"
  /\ UNCHANGED <<cancelled, pending, work, worker, submit>>

StopCancel ==
  /\ stopping = "cancelling"
  /\ cancelled' = TRUE
  /\ stopping' = "waiting"
  /\ UNCHANGED <<started, pending, work, worker, submit>>

\* Stop returns true when every worker exited, false when the timeout fires first.
StopReturn ==
  /\ stopping = "waiting"
  /\ \/ /\ \A w \in Workers : worker[w].pc = "exited"
        /\ stopping' = "clean"
     \/ stopping' = "timed_out"
  /\ UNCHANGED <<started, cancelled, pending, work, worker, submit>>

Next ==
  \/ Start \/ StopBegin \/ StopCancel \/ StopReturn
  \/ \E s \in Submitters :
        \/ \E p \in Projects : SubmitMark(s, p)
        \/ SubmitSend(s)
        \/ SubmitUnmark(s)
  \/ \E w \in Workers : TakeWork(w) \/ Finish(w) \/ Exit(w)

(***************************************************************************)
(* Goroutines that can move do move: a Submit in progress, a worker, and   *)
(* a run in progress (RunProjectTasks is bounded by its task limit).       *)
(* Nobody has to call Start, Submit or Stop.                               *)
(***************************************************************************)
Fairness ==
  /\ \A s \in Submitters : WF_vars(SubmitSend(s) \/ SubmitUnmark(s))
  /\ \A w \in Workers : WF_vars(TakeWork(w) \/ Finish(w) \/ Exit(w))

Spec == Init /\ [][Next]_vars /\ Fairness

-----------------------------------------------------------------------------
\* A project never has two runs in progress, whatever submissions arrive
\* between a worker's receive and its markDone (queue.go:80-88, 107-112).
OneRunPerProject ==
  \A v, w \in Workers :
     worker[v].pc = "running" /\ worker[w].pc = "running" /\ v # w
       => worker[v].project # worker[w].project

\* A project is carried by at most one submission in flight, queue entry or run.
OneCarrier ==
  /\ \A p \in Projects : /\ ~(Running(p) /\ Queued(p))
                         /\ ~(Running(p) /\ InSubmit(p))
                         /\ ~(Queued(p) /\ InSubmit(p))
  /\ \A i, j \in DOMAIN work : work[i] = work[j] => i = j
  /\ \A s, t \in Submitters :
        submit[s].pc # "idle" /\ submit[t].pc # "idle" /\ s # t
          => submit[s].project # submit[t].project

\* The dedup mark is exact: a project is marked as long as, and only as long
\* as, exactly one submission of it is being sent, queued or running. A mark
\* left behind would refuse the project forever (queue.go:107-125, 130-134).
MarkHasOneCarrier ==
  /\ \A p \in Projects : p \in pending <=> Running(p) \/ Queued(p) \/ InSubmit(p)
  /\ OneCarrier

\* A project that entered the channel is run, unless Stop comes first: the
\* worker loop starves no project (queue.go:74-91).
AcceptedProjectRuns == \A p \in Projects : Queued(p) ~> Running(p) \/ cancelled

\* After Stop cancelled the context every worker returns, though its select
\* may keep choosing the work channel while that is not empty (queue.go:77-81).
WorkersExit == cancelled ~> \A w \in Workers : worker[w].pc = "exited"

-----------------------------------------------------------------------------
\* Refinement: the phase of a project, read off the queue's state.
PhaseOf(p) == IF Running(p) THEN "running"
              ELSE IF Queued(p) \/ InSubmit(p) THEN "queued" ELSE "idle"

Phases == INSTANCE ProjectPhases WITH phase <- [p \in Projects |-> PhaseOf(p)]

\* The queue implements the per-project life cycle of ProjectPhases.
ImplementsPhases == Phases!Spec
=============================================================================
