--------------------------- MODULE ProjectContract ---------------------------
(***************************************************************************)
(* What a project's run promises about the project's tasks, with the loop, *)
(* its goroutines, the users' requests and the crashes hidden: a task      *)
(* starts when what it needs is done, is done by an approval or by one     *)
(* that repairs carry over to it, and stays done; the project is finished  *)
(* when all its tasks are.  More tasks may come at any time, with what     *)
(* they need before they start, and a task may be left where it is for     *)
(* ever.  Two exceptions are part of the contract: a task whose needs came *)
(* too late is not held to them, and tasks that come after the look at the *)
(* project that decides on its end do not hold that end up.                *)
(***************************************************************************)
CONSTANT Tasks

VARIABLES
  phase,      \* "absent", "open", "working", "stuck" or "done"
  needs,      \* <<t, d>>: task t starts after d is done
  waived,     \* tasks not held to their needs
  repairs,    \* <<t, r>>: task t repairs task r
  approved,   \* tasks whose own work was approved
  looked,     \* a look at the whole project found everything done
  late,       \* tasks that came since that look
  finished    \* the project is finished
vars == <<phase, needs, waived, repairs, approved, looked, late, finished>>

\* S holds, with a task, the task it repairs and all repairs of that one.
Closed(S) ==
  \A p \in repairs : p[1] \in S =>
    p[2] \in S /\ \A q \in repairs : q[2] = p[2] => q[1] \in S

\* The approvals there are, carried along repairs, vouch for t.
Vouched(t) == \A S \in SUBSET Tasks : approved \subseteq S /\ Closed(S) => t \in S

Init ==
  /\ phase \in [Tasks -> {"absent", "open"}]
  /\ needs \subseteq Tasks \X Tasks
  /\ waived = {} /\ repairs = {} /\ approved = {} /\ late = {}
  /\ looked = FALSE /\ finished = FALSE

Turns(t, from, to) == phase[t] \in from /\ phase' = [phase EXCEPT ![t] = to]

Add(t) ==
  /\ Turns(t, {"absent"}, "open")
  /\ late' = IF looked THEN late \cup {t} ELSE late
  /\ UNCHANGED <<needs, waived, repairs, approved, looked, finished>>

\* What a task needs is known before it starts; if it is not, the task is not
\* held to its needs.
Need(t, d) ==
  /\ waived' \in {waived, waived \cup {t}}
  /\ phase[t] = "open" \/ t \in waived'
  /\ needs' = needs \cup {<<t, d>>}
  /\ UNCHANGED <<phase, repairs, approved, looked, late, finished>>

Start(S) ==
  /\ \A t \in S : phase[t] = "open"
  /\ \A t \in S \ waived, d \in Tasks : <<t, d>> \in needs => phase[d] = "done"
  /\ phase' = [t \in Tasks |-> IF t \in S THEN "working" ELSE phase[t]]
  /\ UNCHANGED <<needs, waived, repairs, approved, looked, late, finished>>

Stop(t) ==
  /\ Turns(t, {"working"}, "stuck")
  /\ UNCHANGED <<needs, waived, repairs, approved, looked, late, finished>>

\* A retry of a stuck task; a late rejection may hit one that is working again.
Reopen(t) ==
  /\ Turns(t, {"working", "stuck"}, "open")
  /\ UNCHANGED <<needs, waived, repairs, approved, looked, late, finished>>

\* Its own work is approved, although another goroutine may have got stuck on
\* it, or be done with it.
Approve(t) ==
  /\ Turns(t, {"working", "stuck", "done"}, "done")
  /\ approved' = approved \cup {t}
  /\ UNCHANGED <<needs, waived, repairs, looked, late, finished>>

\* A repair is approved, of a task that got stuck and may be working again.
Credit(t) ==
  /\ Turns(t, {"working", "stuck"}, "done") /\ Vouched(t)
  /\ UNCHANGED <<needs, waived, repairs, approved, looked, late, finished>>

\* A task repairs one task, and that is settled once.
Link(t, r) ==
  /\ phase[t] # "absent" /\ \A p \in repairs : p[1] # t
  /\ repairs' = repairs \cup {<<t, r>>}
  /\ UNCHANGED <<phase, needs, waived, approved, looked, late, finished>>

\* What ends the project comes after a look at the whole of it, if anything.
Look ==
  /\ \A t \in Tasks : phase[t] \in {"absent", "done"}
  /\ looked' = TRUE /\ late' = {}
  /\ UNCHANGED <<phase, needs, waived, repairs, approved, finished>>

LookAway ==
  /\ looked' = FALSE /\ late' = {}
  /\ UNCHANGED <<phase, needs, waived, repairs, approved, finished>>

Finish ==
  /\ looked /\ \A t \in Tasks \ late : phase[t] \in {"absent", "done"}
  /\ finished' = TRUE /\ looked' = FALSE /\ late' = {}
  /\ UNCHANGED <<phase, needs, waived, repairs, approved>>

Next ==
  \/ \E t \in Tasks : Add(t) \/ Stop(t) \/ Reopen(t) \/ Approve(t) \/ Credit(t)
  \/ \E S \in SUBSET Tasks : Start(S)
  \/ \E t, r \in Tasks : Need(t, r) \/ Link(t, r)
  \/ Look \/ LookAway \/ Finish

Spec == Init /\ [][Next]_vars
=============================================================================
