------------------------------- MODULE Sessions -------------------------------
(***************************************************************************)
(* Sessions between command-line runs and the web console, which share one *)
(* database (internal/session/service.go, internal/store/                  *)
(* sqlite_sessions.go, internal/app/app.go, resumeSession of               *)
(* internal/app/web.go, channels/webconsole/api_sessions.go).  A run finds *)
(* or creates a session, binds its project, plans, runs and completes the  *)
(* session; it may crash anywhere.  The console pauses, resumes, expires   *)
(* and deletes sessions by reading a row and writing the whole row back.   *)
(***************************************************************************)
EXTENDS Naturals, FiniteSets

CONSTANTS
  Runs,         \* command-line processes; the project of a run is named after it
  MaxSessions,  \* bound: the sessions they may create
  Handlers,     \* HTTP handlers of the console
  None          \* no session, no project, no row

(* Sessions are numbered in the order in which they are created.           *)
SessionIds == 1 .. MaxSessions

Statuses == {"ACTIVE", "PAUSED", "COMPLETED", "EXPIRED"}
Rows == [status : Statuses, project : Runs \cup {None}]

VARIABLES
  rows,       \* table sessions
  contexts,   \* table session_runtime_contexts: the project of each session
  progress,   \* how far a run is
  session,    \* the session a run works in
  cached,     \* the run's copy of the row (Service.active)
  handler,    \* what an HTTP handler is doing, with the row it read
  kept,       \* the runs whose context was saved (history)
  stale,      \* the sessions whose row lost its project to a handler (history)
  created     \* sessions created so far

vars == <<rows, contexts, progress, session, cached, handler, kept, stale, created>>

Stages == {"start", "keeping", "creating", "found", "bound", "ready", "planned", "done", "lost", "crashed"}
Free == [stage |-> "free", session |-> None, row |-> None, to |-> "ACTIVE"]

TypeOK ==
  /\ rows \in [SessionIds -> Rows \cup {None}]
  /\ contexts \in [SessionIds -> Runs \cup {None}]
  /\ progress \in [Runs -> Stages]
  /\ session \in [Runs -> SessionIds \cup {None}]
  /\ cached \in [Runs -> Rows \cup {None}]
  /\ \A h \in Handlers : handler[h].stage \in {"free", "read", "resume", "resuming", "deleting"} /\ handler[h].to \in Statuses
  /\ kept \subseteq Runs /\ stale \subseteq SessionIds
  /\ created \in 0 .. MaxSessions

Init ==
  /\ rows = [s \in SessionIds |-> None]
  /\ contexts = [s \in SessionIds |-> None]
  /\ progress = [p \in Runs |-> "start"]
  /\ session = [p \in Runs |-> None]
  /\ cached = [p \in Runs |-> None]
  /\ handler = [h \in Handlers |-> Free]
  /\ kept = {} /\ stale = {}
  /\ created = 0

Exists(s) == rows[s] # None
Active(s) == Exists(s) /\ rows[s].status = "ACTIVE"

(* UpdateSession writes every column of the row, if there still is one.    *)
UpdateSession(s, row) == rows' = IF Exists(s) THEN [rows EXCEPT ![s] = row] ELSE rows

-----------------------------------------------------------------------------
(* A command-line run                                                      *)

Enter(p, stage, s, row) ==
  /\ progress' = [progress EXCEPT ![p] = stage]
  /\ session' = [session EXCEPT ![p] = s]
  /\ cached' = [cached EXCEPT ![p] = row]

NewRow == [status |-> "ACTIVE", project |-> None]

(* An active session of the user or of the channel is taken up again;      *)
(* which one is the latest is left open.  Found by its user, its row is    *)
(* written back as it was read; found by its channel, it is only touched.  *)
FindSession(p) ==
  /\ progress[p] = "start"
  /\ \/ \E s \in SessionIds : Active(s) /\ Enter(p, "keeping", s, rows[s])
     \/ /\ \A s \in SessionIds : ~Active(s)
        /\ progress' = [progress EXCEPT ![p] = "creating"]
        /\ UNCHANGED <<session, cached>>
  /\ UNCHANGED <<rows, contexts, handler, kept, stale, created>>

KeepSession(p) ==
  /\ progress[p] = "keeping"
  /\ UpdateSession(session[p], cached[p]) \/ UNCHANGED rows
  /\ progress' = [progress EXCEPT ![p] = "found"]
  /\ UNCHANGED <<contexts, session, cached, handler, kept, stale, created>>

Create(p) ==
  /\ progress[p] = "creating"
  /\ created < MaxSessions
  /\ created' = created + 1
  /\ rows' = [rows EXCEPT ![created'] = NewRow]
  /\ Enter(p, "found", created', NewRow)
  /\ UNCHANGED <<contexts, handler, kept, stale>>

(* Mutant of BindProject: the copy in the cache is bound, the row is not.  *)
BindsTheCopy(p) ==
  /\ progress[p] = "found"
  /\ cached' = [cached EXCEPT ![p] = [@ EXCEPT !.project = p]]
  /\ progress' = [progress EXCEPT ![p] = "bound"]
  /\ UNCHANGED <<rows, contexts, session, handler, kept, stale, created>>

(* Get answers from the cache, so the write puts the cached status back.   *)
BindProject(p) ==
  LET row == [cached[p] EXCEPT !.project = p] IN
  /\ progress[p] = "found"
  /\ UpdateSession(session[p], row)
  /\ cached' = [cached EXCEPT ![p] = row]
  /\ progress' = [progress EXCEPT ![p] = "bound"]
  /\ UNCHANGED <<contexts, session, handler, kept, stale, created>>

(* PlanProject has made a first task READY: from here on there is work to  *)
(* lose.  Messages are sent before it goes on, and one that cannot be sent *)
(* ends the planning, and the run, with an error (Complete).               *)
PlanProject(p) ==
  /\ progress[p] = "bound"
  /\ progress' = [progress EXCEPT ![p] = "ready"]
  /\ UNCHANGED <<rows, contexts, session, cached, handler, kept, stale, created>>

(* The end of PlanProject and of each task.  The foreign key refuses a     *)
(* deleted session; that error, or any other of the save, is only logged.  *)
saveSessionContext(p) ==
  \/ /\ Exists(session[p])
     /\ contexts' = [contexts EXCEPT ![session[p]] = p]
     /\ kept' = kept \cup {p}
  \/ UNCHANGED <<contexts, kept>>

EndPlanning(p) ==
  /\ progress[p] = "ready"
  /\ saveSessionContext(p)
  /\ progress' = [progress EXCEPT ![p] = "planned"]
  /\ UNCHANGED <<rows, session, cached, handler, stale, created>>

RunTask(p) ==
  /\ progress[p] = "planned"
  /\ saveSessionContext(p)
  /\ UNCHANGED <<rows, progress, session, cached, handler, stale, created>>

(* The deferred Complete, after the run or after any error on the way.     *)
Complete(p) ==
  /\ progress[p] \in {"found", "bound", "ready", "planned"}
  /\ UpdateSession(session[p], [cached[p] EXCEPT !.status = "COMPLETED"])
  /\ progress' = [progress EXCEPT ![p] = "done"]
  /\ UNCHANGED <<contexts, session, cached, handler, kept, stale, created>>

(* A crash before a task is READY leaves nothing to run.                   *)
Crash(p) ==
  /\ progress[p] \in {"found", "bound", "ready", "planned"}
  /\ progress' = [progress EXCEPT ![p] = IF @ \in {"ready", "planned"} THEN "crashed" ELSE "lost"]
  /\ UNCHANGED <<rows, contexts, session, cached, handler, kept, stale, created>>

-----------------------------------------------------------------------------
(* The console                                                             *)

(* setSessionStatus: GetSession ...                                        *)
ReadSession(h, s, to) ==
  /\ handler[h].stage = "free" /\ Exists(s)
  /\ handler' = [handler EXCEPT ![h] = [stage |-> "read", session |-> s, row |-> rows[s], to |-> to]]
  /\ UNCHANGED <<rows, contexts, progress, session, cached, kept, stale, created>>

(* ... then UpdateSession, whatever the status was; a status of ACTIVE is  *)
(* the console's resumption, which goes on with resumeSession.             *)
WriteStatus(h) ==
  LET s == handler[h].session
      row == handler[h].row IN
  /\ handler[h].stage \in {"read", "resuming"}
  /\ UpdateSession(s, [row EXCEPT !.status = handler[h].to])
  /\ stale' = IF Exists(s) /\ row.project # rows[s].project THEN stale \cup {s} ELSE stale
  /\ handler' = [handler EXCEPT ![h] = IF @.stage = "read" /\ @.to = "ACTIVE"
                                       THEN [@ EXCEPT !.stage = "resume"] ELSE Free]
  /\ UNCHANGED <<contexts, progress, session, cached, kept, created>>

(* resumeSession reads the row again, refuses one that is neither paused   *)
(* nor active, and writes it back as active; then it queues the project of *)
(* the event, the row or the context (TaskQueue).                          *)
Resumable(s) == Exists(s) /\ rows[s].status \in {"PAUSED", "ACTIVE"}

resumeSession(h) ==
  LET s == handler[h].session IN
  /\ handler[h].stage = "resume"
  /\ handler' = [handler EXCEPT ![h] = IF Resumable(s) THEN [@ EXCEPT !.stage = "resuming", !.row = rows[s]]
                                       ELSE Free]
  /\ UNCHANGED <<rows, contexts, progress, session, cached, kept, stale, created>>

(* Deleting takes two statements: the context first, then the session.     *)
DeleteContext(h, s) ==
  /\ handler[h].stage = "free" /\ Exists(s)
  /\ contexts' = [contexts EXCEPT ![s] = None]
  /\ handler' = [handler EXCEPT ![h] = [Free EXCEPT !.stage = "deleting", !.session = s]]
  /\ UNCHANGED <<rows, progress, session, cached, kept, stale, created>>

DeleteSession(h) ==
  /\ handler[h].stage = "deleting"
  /\ rows' = [rows EXCEPT ![handler[h].session] = None]
  /\ handler' = [handler EXCEPT ![h] = Free]
  /\ UNCHANGED <<contexts, progress, session, cached, kept, stale, created>>

Next ==
  \/ \E p \in Runs :
       FindSession(p) \/ KeepSession(p) \/ Create(p) \/ BindProject(p)
       \/ PlanProject(p) \/ EndPlanning(p) \/ RunTask(p) \/ Complete(p) \/ Crash(p)
  \/ \E h \in Handlers, s \in SessionIds :
       DeleteContext(h, s) \/ \E to \in {"PAUSED", "ACTIVE", "EXPIRED"} : ReadSession(h, s, to)
  \/ \E h \in Handlers : WriteStatus(h) \/ resumeSession(h) \/ DeleteSession(h)

Spec == Init /\ [][Next]_vars

-----------------------------------------------------------------------------
(* Properties                                                              *)

Alone(p) == \A q \in Runs \ {p} : session[q] # session[p]
Deleting(s) == \E h \in Handlers : handler[h].stage = "deleting" /\ handler[h].session = s

(* A run that crashed with tasks READY can be resumed from the console as  *)
(* long as its session was its own and nobody deletes it: the row or the   *)
(* runtime context leads to its project.  A handler may write a row over   *)
(* it that it read before the project was bound, and the context may not   *)
(* be saved, because the run crashed or returned before or the save        *)
(* failed; either alone loses nothing, and both together are the exception.*)
CrashedWorkIsResumable ==
  \A p \in Runs : LET s == session[p] IN
    (/\ progress[p] = "crashed" /\ Alone(p) /\ Exists(s) /\ ~Deleting(s)
     /\ p \in kept \/ s \notin stale)
      => rows[s].project = p \/ contexts[s] = p
=============================================================================
