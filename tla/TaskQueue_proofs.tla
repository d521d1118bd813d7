--------------------------- MODULE TaskQueue_proofs ---------------------------
(***************************************************************************)
(* Proofs about TaskQueue for any sets of projects, workers and submitters *)
(* and any capacity: the dedup mark has exactly one carrier, a project has *)
(* at most one run in progress, and the queue implements ProjectPhases.    *)
(***************************************************************************)
EXTENDS TaskQueue, SequenceTheorems, TLAPS

\* A worker that runs and a submission in flight name a project.
OwnersNamed ==
  /\ \A w \in Workers : worker[w].pc = "running" => worker[w].project \in Projects
  /\ \A s \in Submitters : submit[s].pc # "idle" => submit[s].project \in Projects

\* No worker goroutine exists before Start.
UnbornUntilStart ==
  stopping = "not_called" /\ ~started => \A w \in Workers : worker[w].pc = "unborn"

\* The inductive invariant: OneRunPerProject alone is not inductive, because a
\* receive is safe only if the received project is queued once and not running.
IInv == /\ TypeOK /\ OwnersNamed /\ UnbornUntilStart
        /\ OneRunPerProject /\ MarkHasOneCarrier

NoRepeats(q) == \A i, j \in DOMAIN q : q[i] = q[j] => i = j
Holds(q, p) == \E i \in DOMAIN q : q[i] = p

-----------------------------------------------------------------------------
\* What sending a project does to the contents of the channel (queue.go:115-117).
LEMMA AppendContents ==
  ASSUME NEW q \in Seq(Projects), NEW e \in Projects
  PROVE  /\ Append(q, e) \in Seq(Projects)
         /\ \A p : Holds(Append(q, e), p) <=> Holds(q, p) \/ p = e
         /\ NoRepeats(q) /\ ~Holds(q, e) => NoRepeats(Append(q, e))
<1> DEFINE r == Append(q, e)
<1>1. /\ r \in Seq(Projects)
      /\ Len(r) = Len(q) + 1
      /\ \A i \in 1 .. Len(q) : r[i] = q[i]
      /\ r[Len(q) + 1] = e
  BY AppendProperties
<1>2. Len(q) \in Nat /\ DOMAIN q = 1 .. Len(q) /\ DOMAIN r = 1 .. Len(q) + 1
  BY <1>1, LenProperties
<1>3. \A p : Holds(r, p) <=> Holds(q, p) \/ p = e
  <2> TAKE p
  <2>1. CASE p = e
    BY <2>1, <1>1, <1>2 DEF Holds
  <2>2. CASE p # e
    BY <2>2, <1>1, <1>2 DEF Holds
  <2> QED BY <2>1, <2>2
<1>4. NoRepeats(q) /\ ~Holds(q, e) => NoRepeats(r)
  BY <1>1, <1>2 DEF NoRepeats, Holds
<1> QED BY <1>1, <1>3, <1>4

\* What a worker's receive does to the contents of the channel (queue.go:80).
LEMMA TailContents ==
  ASSUME NEW q \in Seq(Projects), q # <<>>, NoRepeats(q)
  PROVE  /\ Head(q) \in Projects
         /\ Tail(q) \in Seq(Projects)
         /\ Holds(q, Head(q))
         /\ \A p : Holds(Tail(q), p) <=> Holds(q, p) /\ p # Head(q)
         /\ NoRepeats(Tail(q))
<1>1. /\ Head(q) \in Projects
      /\ Tail(q) \in Seq(Projects)
      /\ Len(Tail(q)) = Len(q) - 1
      /\ \A i \in 1 .. Len(Tail(q)) : Tail(q)[i] = q[i + 1]
  BY HeadTailProperties
<1>2. /\ Len(q) \in Nat \ {0}
      /\ DOMAIN q = 1 .. Len(q)
      /\ DOMAIN Tail(q) = 1 .. Len(q) - 1
      /\ Head(q) = q[1]
  BY <1>1, LenProperties, EmptySeq
<1>3. Holds(q, Head(q))
  BY <1>2 DEF Holds
<1>4. \A p : Holds(Tail(q), p) <=> Holds(q, p) /\ p # Head(q)
  <2> TAKE p
  <2>1. ASSUME Holds(Tail(q), p) PROVE Holds(q, p) /\ p # Head(q)
    <3>1. PICK i \in 1 .. Len(q) - 1 : q[i + 1] = p
      BY <2>1, <1>1, <1>2 DEF Holds
    <3>2. i + 1 \in 1 .. Len(q) /\ i + 1 # 1
      BY <1>2
    <3> QED BY <3>1, <3>2, <1>2 DEF Holds, NoRepeats
  <2>2. ASSUME Holds(q, p), p # Head(q) PROVE Holds(Tail(q), p)
    <3>1. PICK i \in 1 .. Len(q) : q[i] = p
      BY <2>2, <1>2 DEF Holds
    <3>2. i # 1 /\ i - 1 \in 1 .. Len(q) - 1 /\ (i - 1) + 1 = i
      BY <3>1, <2>2, <1>2
    <3> QED BY <3>1, <3>2, <1>1, <1>2 DEF Holds
  <2> QED BY <2>1, <2>2
<1>5. NoRepeats(Tail(q))
  <2> SUFFICES ASSUME NEW i \in 1 .. Len(q) - 1, NEW j \in 1 .. Len(q) - 1,
                      Tail(q)[i] = Tail(q)[j]
               PROVE  i = j
    BY <1>2 DEF NoRepeats
  <2>1. q[i + 1] = q[j + 1] /\ i + 1 \in 1 .. Len(q) /\ j + 1 \in 1 .. Len(q)
    BY <1>1, <1>2
  <2> QED BY <2>1, <1>2 DEF NoRepeats
<1> QED BY <1>1, <1>3, <1>4, <1>5

-----------------------------------------------------------------------------
LEMMA InitIInv == Init => IInv
<1> SUFFICES ASSUME Init PROVE IInv
  OBVIOUS
<1>1. work \in Seq(Projects) /\ DOMAIN work = {}
  BY EmptySeq DEF Init
<1>2. \A p \in Projects : ~Running(p) /\ ~Queued(p) /\ ~InSubmit(p)
  BY <1>1 DEF Init, Running, Queued, InSubmit
<1>3. TypeOK
  BY <1>1 DEF Init, TypeOK, WorkerPC, SubmitPC, StopPC
<1>4. OwnersNamed /\ UnbornUntilStart /\ OneRunPerProject
  BY DEF Init, OwnersNamed, UnbornUntilStart, OneRunPerProject
<1>5. MarkHasOneCarrier
  BY <1>1, <1>2 DEF Init, MarkHasOneCarrier, OneCarrier
<1> QED BY <1>3, <1>4, <1>5 DEF IInv

\* Every step of the queue preserves the invariant.
LEMMA NextIInv == IInv /\ [Next]_vars => IInv'
<1> SUFFICES ASSUME IInv, [Next]_vars PROVE IInv'
  OBVIOUS
<1> USE DEF IInv
<1> DEFINE Same(p) == /\ Running(p)' <=> Running(p)
                      /\ Queued(p)' <=> Queued(p)
                      /\ InSubmit(p)' <=> InSubmit(p)
<1>T. /\ pending \subseteq Projects /\ work \in Seq(Projects)
      /\ worker \in [Workers -> [pc : WorkerPC, project : Projects \cup {None}]]
      /\ submit \in [Submitters -> [pc : SubmitPC, project : Projects \cup {None}]]
      /\ started \in BOOLEAN /\ cancelled \in BOOLEAN
      /\ stopping \in StopPC
  BY DEF TypeOK
<1>N. NoRepeats(work) /\ \A p : Queued(p) <=> Holds(work, p)
  BY DEF MarkHasOneCarrier, OneCarrier, NoRepeats, Holds, Queued
<1>1. CASE Start
  <2>1. UNCHANGED <<work, pending, submit, stopping>> /\ started'
    BY <1>1 DEF Start
  <2>2. TypeOK' /\ OwnersNamed' /\ UnbornUntilStart'
    BY <1>1, <1>T, <2>1 DEF Start, TypeOK, OwnersNamed, UnbornUntilStart, WorkerPC
  <2>3. \A p \in Projects : Same(p)
    BY <1>1, <2>1 DEF Start, Running, Queued, InSubmit, UnbornUntilStart
  <2>4. OneRunPerProject'
    BY <1>1 DEF Start, OneRunPerProject
  <2> QED BY <2>1, <2>2, <2>3, <2>4 DEF MarkHasOneCarrier, OneCarrier
<1>2. ASSUME NEW s \in Submitters, NEW p \in Projects, SubmitMark(s, p) PROVE IInv'
  <2>1. UNCHANGED <<work, worker, stopping, started, cancelled>> /\ submit[s].pc = "idle"
    BY <1>2 DEF SubmitMark
  <2>2. UnbornUntilStart' /\ OneRunPerProject'
    BY <2>1 DEF UnbornUntilStart, OneRunPerProject
  <2>5. TypeOK'
    BY <1>2, <1>T, <2>1 DEF SubmitMark, TypeOK, SubmitPC
  <2>6. OwnersNamed'
    BY <1>2, <1>T, <2>1 DEF SubmitMark, OwnersNamed
  <2>3. CASE UNCHANGED <<pending, submit>>
    BY <2>1, <2>2, <2>3, <2>5, <2>6 DEF MarkHasOneCarrier, OneCarrier, Running, Queued, InSubmit
  <2>4. CASE /\ p \notin pending /\ pending' = pending \cup {p}
             /\ submit' = [submit EXCEPT ![s] = [pc |-> "sending", project |-> p]]
    <3>1. ~Running(p) /\ ~Queued(p) /\ ~InSubmit(p)
      BY <2>4 DEF MarkHasOneCarrier
    <3>2. \A q : /\ Running(q)' <=> Running(q)
                 /\ Queued(q)' <=> Queued(q)
                 /\ InSubmit(q)' <=> InSubmit(q) \/ q = p
      BY <2>1, <2>4, <1>T DEF Running, Queued, InSubmit
    <3>3. \A t, u \in Submitters :
             submit'[t].pc # "idle" /\ submit'[u].pc # "idle" /\ t # u
               => submit'[t].project # submit'[u].project
      BY <2>4, <3>1, <1>T DEF InSubmit, MarkHasOneCarrier, OneCarrier
    <3> QED BY <2>1, <2>2, <2>5, <2>6, <2>4, <3>1, <3>2, <3>3 DEF MarkHasOneCarrier, OneCarrier
  <2> QED BY <1>2, <2>3, <2>4 DEF SubmitMark
<1>3. ASSUME NEW s \in Submitters, SubmitSend(s) PROVE IInv'
  <2> DEFINE p == submit[s].project
  <2>1. /\ UNCHANGED <<pending, worker, stopping, started, cancelled>>
        /\ submit[s].pc = "sending" /\ p \in Projects /\ InSubmit(p)
    BY <1>3 DEF SubmitSend, OwnersNamed, InSubmit
  <2>2. UnbornUntilStart' /\ OneRunPerProject'
    BY <2>1 DEF UnbornUntilStart, OneRunPerProject
  <2>3. CASE /\ work' = Append(work, p)
             /\ submit' = [submit EXCEPT ![s] = [pc |-> "idle", project |-> None]]
    <3>1. ~Running(p) /\ ~Queued(p)
      BY <2>1 DEF MarkHasOneCarrier, OneCarrier
    <3>2. /\ work' \in Seq(Projects)
          /\ \A q : Holds(work', q) <=> Holds(work, q) \/ q = p
          /\ NoRepeats(work')
      BY <2>1, <2>3, <3>1, <1>T, <1>N, AppendContents
    <3>3. \A q : Queued(q)' <=> Queued(q) \/ q = p
      BY <3>2, <1>N DEF Queued, Holds
    <3>4. \A q \in Projects : InSubmit(q)' <=> InSubmit(q) /\ q # p
      <4>1. \A t \in Submitters : t # s => submit'[t] = submit[t]
        BY <2>3, <1>T
      <4>2. submit'[s].pc = "idle"
        BY <2>3, <1>T
      <4>3. \A t \in Submitters : t # s /\ submit[t].pc # "idle" => submit[t].project # p
        BY <2>1 DEF MarkHasOneCarrier, OneCarrier
      <4> QED BY <4>1, <4>2, <4>3, <2>1 DEF InSubmit
    <3>5. \A q : Running(q)' <=> Running(q)
      BY <2>1 DEF Running
    <3>6. TypeOK' /\ OwnersNamed'
      BY <2>1, <2>3, <3>2, <1>T DEF TypeOK, OwnersNamed, SubmitPC
    <3>7. OneCarrier'
      BY <2>1, <2>3, <3>1, <3>2, <3>3, <3>4, <3>5, <1>T
         DEF MarkHasOneCarrier, OneCarrier, NoRepeats
    <3> QED BY <2>1, <2>2, <3>3, <3>4, <3>5, <3>6, <3>7 DEF MarkHasOneCarrier
  <2>4. CASE submit' = [submit EXCEPT ![s].pc = "unmarking"] /\ work' = work
    <3>1. \A q : Same(q)
      BY <2>1, <2>4, <1>T DEF Running, Queued, InSubmit
    <3>2. TypeOK' /\ OwnersNamed'
      BY <2>1, <2>4, <1>T DEF TypeOK, OwnersNamed, SubmitPC
    <3>3. \A t \in Submitters : /\ submit'[t].project = submit[t].project
                                /\ submit'[t].pc # "idle" <=> submit[t].pc # "idle"
      BY <2>1, <2>4, <1>T
    <3>4. OneCarrier'
      BY <2>4, <3>1, <3>3 DEF MarkHasOneCarrier, OneCarrier
    <3> QED BY <2>1, <2>2, <3>1, <3>2, <3>4 DEF MarkHasOneCarrier
  <2> QED BY <1>3, <2>3, <2>4 DEF SubmitSend
<1>4. ASSUME NEW s \in Submitters, SubmitUnmark(s) PROVE IInv'
  <2> DEFINE p == submit[s].project
  <2>1. /\ UNCHANGED <<work, worker, stopping, started, cancelled>>
        /\ submit[s].pc = "unmarking" /\ p \in Projects /\ InSubmit(p)
        /\ pending' = pending \ {p}
        /\ submit' = [submit EXCEPT ![s] = [pc |-> "idle", project |-> None]]
    BY <1>4 DEF SubmitUnmark, OwnersNamed, InSubmit
  <2>2. TypeOK' /\ OwnersNamed' /\ UnbornUntilStart' /\ OneRunPerProject'
    BY <1>4, <2>1, <1>T DEF SubmitUnmark, TypeOK, OwnersNamed, UnbornUntilStart,
         OneRunPerProject, SubmitPC
  <2>3. ~Running(p) /\ ~Queued(p)
    BY <2>1 DEF MarkHasOneCarrier, OneCarrier
  <2>4. \A q \in Projects : InSubmit(q)' <=> InSubmit(q) /\ q # p
    <3>1. \A t \in Submitters : t # s => submit'[t] = submit[t]
      BY <2>1, <1>T
    <3>2. submit'[s].pc = "idle"
      BY <2>1, <1>T
    <3>3. \A t \in Submitters : t # s /\ submit[t].pc # "idle" => submit[t].project # p
      BY <2>1 DEF MarkHasOneCarrier, OneCarrier
    <3> QED BY <3>1, <3>2, <3>3, <2>1 DEF InSubmit
  <2>5. \A q : (Running(q)' <=> Running(q)) /\ (Queued(q)' <=> Queued(q))
    BY <2>1 DEF Running, Queued
  <2>6. OneCarrier'
    BY <2>1, <2>4, <2>5, <1>T DEF MarkHasOneCarrier, OneCarrier
  <2> QED BY <2>1, <2>2, <2>3, <2>4, <2>5, <2>6 DEF MarkHasOneCarrier
<1>5. ASSUME NEW w \in Workers, TakeWork(w) PROVE IInv'
  <2> DEFINE p == Head(work)
  <2>1. /\ UNCHANGED <<pending, submit, stopping, started, cancelled>>
        /\ worker[w].pc = "select" /\ work # <<>> /\ work' = Tail(work)
        /\ worker' = [worker EXCEPT ![w] = [pc |-> "running", project |-> p]]
    BY <1>5 DEF TakeWork
  <2>2. /\ p \in Projects /\ work' \in Seq(Projects) /\ Queued(p)
        /\ \A q : Queued(q)' <=> Queued(q) /\ q # p
        /\ NoRepeats(work')
    <3>1. /\ p \in Projects /\ Tail(work) \in Seq(Projects) /\ Holds(work, p)
          /\ \A q : Holds(Tail(work), q) <=> Holds(work, q) /\ q # p
          /\ NoRepeats(Tail(work))
      BY <2>1, <1>T, <1>N, TailContents
    <3> QED BY <2>1, <3>1, <1>N DEF Queued, Holds
  <2>3. ~Running(p) /\ ~InSubmit(p)
    BY <2>2 DEF MarkHasOneCarrier, OneCarrier
  <2>4. \A q : (Running(q)' <=> Running(q) \/ q = p) /\ (InSubmit(q)' <=> InSubmit(q))
    BY <2>1, <1>T DEF Running, InSubmit
  <2>5. TypeOK' /\ OwnersNamed' /\ UnbornUntilStart'
    BY <1>5, <2>1, <2>2, <1>T DEF TakeWork, TypeOK, OwnersNamed, UnbornUntilStart, WorkerPC
  <2>6. OneRunPerProject'
    BY <2>1, <2>3, <1>T DEF OneRunPerProject, Running
  <2>7. OneCarrier'
    BY <2>1, <2>2, <2>3, <2>4 DEF MarkHasOneCarrier, OneCarrier, NoRepeats
  <2> QED BY <2>1, <2>2, <2>4, <2>5, <2>6, <2>7 DEF MarkHasOneCarrier
<1>6. ASSUME NEW w \in Workers, Finish(w) PROVE IInv'
  <2> DEFINE p == worker[w].project
  <2>1. /\ UNCHANGED <<work, submit, stopping, started, cancelled>>
        /\ worker[w].pc = "running" /\ p \in Projects /\ Running(p)
        /\ pending' = pending \ {p}
        /\ worker' = [worker EXCEPT ![w] = [pc |-> "select", project |-> None]]
    BY <1>6 DEF Finish, OwnersNamed, Running
  <2>2. TypeOK' /\ OwnersNamed' /\ UnbornUntilStart' /\ OneRunPerProject'
    BY <1>6, <2>1, <1>T DEF Finish, TypeOK, OwnersNamed, UnbornUntilStart,
         OneRunPerProject, WorkerPC
  <2>3. \A q \in Projects : Running(q)' <=> Running(q) /\ q # p
    <3>1. \A v \in Workers : v # w => worker'[v] = worker[v]
      BY <2>1, <1>T
    <3>2. worker'[w].pc = "select"
      BY <2>1, <1>T
    <3>3. \A v \in Workers : v # w /\ worker[v].pc = "running" => worker[v].project # p
      BY <2>1 DEF OneRunPerProject
    <3> QED BY <3>1, <3>2, <3>3, <2>1 DEF Running
  <2>4. \A q : (InSubmit(q)' <=> InSubmit(q)) /\ (Queued(q)' <=> Queued(q))
    BY <2>1 DEF InSubmit, Queued
  <2>5. ~InSubmit(p) /\ ~Queued(p)
    BY <2>1 DEF MarkHasOneCarrier, OneCarrier
  <2>6. OneCarrier'
    BY <2>1, <2>3, <2>4 DEF MarkHasOneCarrier, OneCarrier
  <2> QED BY <2>1, <2>2, <2>3, <2>4, <2>5, <2>6 DEF MarkHasOneCarrier
<1>7. ASSUME NEW w \in Workers, Exit(w) PROVE IInv'
  <2>1. UNCHANGED <<work, pending, submit, started, stopping>> /\ worker[w].pc = "select"
    BY <1>7 DEF Exit
  <2>2. TypeOK' /\ OwnersNamed' /\ UnbornUntilStart' /\ OneRunPerProject'
    BY <1>7, <1>T, <2>1 DEF Exit, TypeOK, OwnersNamed, UnbornUntilStart, OneRunPerProject,
         WorkerPC
  <2>3. \A p : Same(p)
    BY <1>7, <2>1, <1>T DEF Exit, Running, Queued, InSubmit
  <2> QED BY <2>1, <2>2, <2>3 DEF MarkHasOneCarrier, OneCarrier
<1>8. CASE StopBegin \/ StopCancel \/ StopReturn
  <2>1. UNCHANGED <<work, pending, submit, worker>>
    BY <1>8 DEF StopBegin, StopCancel, StopReturn
  <2>2. TypeOK' /\ UnbornUntilStart'
    BY <1>8, <1>T, <2>1 DEF StopBegin, StopCancel, StopReturn, TypeOK, UnbornUntilStart, StopPC
  <2> QED BY <2>1, <2>2 DEF OwnersNamed, OneRunPerProject, MarkHasOneCarrier, OneCarrier,
            Running, Queued, InSubmit
<1>9. CASE UNCHANGED vars
  BY <1>9 DEF vars, TypeOK, OwnersNamed, UnbornUntilStart, OneRunPerProject,
       MarkHasOneCarrier, OneCarrier, Running, Queued, InSubmit
<1> QED BY <1>1, <1>2, <1>3, <1>4, <1>5, <1>6, <1>7, <1>8, <1>9 DEF Next

\* For any number of projects, workers, submitters and any buffer, the types hold.
THEOREM TypeCorrect == Spec => []TypeOK
<1>1. IInv => TypeOK
  BY DEF IInv
<1> QED BY <1>1, InitIInv, NextIInv, PTL DEF Spec

\* No project ever has two runs in progress (queue.go:80-88, 107-112).
THEOREM OneRun == Spec => []OneRunPerProject
<1>1. IInv => OneRunPerProject
  BY DEF IInv
<1> QED BY <1>1, InitIInv, NextIInv, PTL DEF Spec

\* The dedup mark is held exactly while one submission, queue entry or run
\* carries the project: no mark leaks and none is dropped early
\* (queue.go:107-125, 130-134).
THEOREM ExactMark == Spec => []MarkHasOneCarrier
<1>1. IInv => MarkHasOneCarrier
  BY DEF IInv
<1> QED BY <1>1, InitIInv, NextIInv, PTL DEF Spec

-----------------------------------------------------------------------------
\* The phase that the refinement mapping gives to project p, read off the mark.
LEMMA PhaseByMark ==
  ASSUME IInv
  PROVE  \A p \in Projects :
            PhaseOf(p) = IF Running(p) THEN "running"
                         ELSE IF p \in pending THEN "queued" ELSE "idle"
  BY DEF IInv, MarkHasOneCarrier, PhaseOf

LEMMA InitPhases == Init => Phases!Init
<1> SUFFICES ASSUME Init PROVE Phases!Init
  OBVIOUS
<1>1. DOMAIN work = {}
  BY EmptySeq DEF Init
<1>2. \A p \in Projects : ~Running(p) /\ ~Queued(p) /\ ~InSubmit(p)
  BY <1>1 DEF Init, Running, Queued, InSubmit
<1> QED BY <1>2 DEF Phases!Init, PhaseOf

\* Every step of the queue is a step of ProjectPhases or leaves the phases alone.
LEMMA NextPhases == IInv /\ IInv' /\ [Next]_vars => [Phases!Next]_(Phases!vars)
<1> DEFINE ph == [p \in Projects |-> PhaseOf(p)]
<1> SUFFICES ASSUME IInv, IInv', [Next]_vars PROVE Phases!Next \/ UNCHANGED ph
  BY DEF Phases!vars
<1>T. /\ worker \in [Workers -> [pc : WorkerPC, project : Projects \cup {None}]]
      /\ work \in Seq(Projects)
  BY DEF IInv, TypeOK
<1>P. \A p \in Projects :
         ph[p] = IF Running(p) THEN "running" ELSE IF p \in pending THEN "queued" ELSE "idle"
  BY PhaseByMark
<1>Q. \A p \in Projects :
         ph'[p] = IF Running(p)' THEN "running"
                  ELSE IF p \in pending' THEN "queued" ELSE "idle"
  BY DEF IInv, MarkHasOneCarrier, PhaseOf
<1>S. (\A p \in Projects : (Running(p)' <=> Running(p)) /\ (p \in pending' <=> p \in pending))
         => UNCHANGED ph
  BY <1>P, <1>Q
<1>R. UNCHANGED worker => \A p : Running(p)' <=> Running(p)
  BY DEF Running
<1> HIDE DEF ph
<1>1. CASE Start
  <2>1. \A p : Running(p)' <=> Running(p)
    BY <1>1 DEF Start, Running, IInv, UnbornUntilStart
  <2> QED BY <1>1, <2>1, <1>S DEF Start
<1>2. ASSUME NEW s \in Submitters, NEW p \in Projects, SubmitMark(s, p)
      PROVE  Phases!Next \/ UNCHANGED ph
  <2>1. CASE UNCHANGED pending
    BY <1>2, <2>1, <1>R, <1>S DEF SubmitMark
  <2>2. CASE p \notin pending /\ pending' = pending \cup {p}
    <3>1. ~Running(p) /\ UNCHANGED worker
      BY <1>2, <2>2 DEF SubmitMark, IInv, MarkHasOneCarrier
    <3>2. Phases!Accept(p)
      BY <2>2, <3>1, <1>P, <1>Q, <1>R DEF Phases!Accept, ph
    <3> QED BY <3>2 DEF Phases!Next
  <2> QED BY <1>2, <2>1, <2>2 DEF SubmitMark
<1>3. ASSUME NEW s \in Submitters, SubmitSend(s) PROVE Phases!Next \/ UNCHANGED ph
  BY <1>3, <1>R, <1>S DEF SubmitSend
<1>4. ASSUME NEW s \in Submitters, SubmitUnmark(s) PROVE Phases!Next \/ UNCHANGED ph
  <2> DEFINE p == submit[s].project
  <2>1. /\ UNCHANGED worker /\ p \in Projects /\ InSubmit(p) /\ pending' = pending \ {p}
    BY <1>4 DEF SubmitUnmark, IInv, OwnersNamed, InSubmit
  <2>2. p \in pending /\ ~Running(p)
    BY <2>1 DEF IInv, MarkHasOneCarrier, OneCarrier
  <2>3. Phases!Refuse(p)
    BY <2>1, <2>2, <1>P, <1>Q, <1>R DEF Phases!Refuse, ph
  <2> QED BY <2>1, <2>3 DEF Phases!Next
<1>5. ASSUME NEW w \in Workers, TakeWork(w) PROVE Phases!Next \/ UNCHANGED ph
  <2> DEFINE p == Head(work)
  <2>1. /\ UNCHANGED pending /\ worker[w].pc = "select" /\ work # <<>>
        /\ worker' = [worker EXCEPT ![w] = [pc |-> "running", project |-> p]]
    BY <1>5 DEF TakeWork
  <2>2. p \in Projects /\ Queued(p)
    <3>1. NoRepeats(work)
      BY DEF IInv, MarkHasOneCarrier, OneCarrier, NoRepeats
    <3> QED BY <2>1, <3>1, <1>T, TailContents DEF Queued, Holds
  <2>3. p \in pending /\ ~Running(p)
    BY <2>2 DEF IInv, MarkHasOneCarrier, OneCarrier
  <2>4. \A q : Running(q)' <=> Running(q) \/ q = p
    BY <2>1, <1>T DEF Running
  <2>5. Phases!Begin(p)
    BY <2>1, <2>2, <2>3, <2>4, <1>P, <1>Q DEF Phases!Begin, ph
  <2> QED BY <2>2, <2>5 DEF Phases!Next
<1>6. ASSUME NEW w \in Workers, Finish(w) PROVE Phases!Next \/ UNCHANGED ph
  <2> DEFINE p == worker[w].project
  <2>1. /\ worker[w].pc = "running" /\ p \in Projects /\ Running(p)
        /\ pending' = pending \ {p}
        /\ worker' = [worker EXCEPT ![w] = [pc |-> "select", project |-> None]]
    BY <1>6 DEF Finish, IInv, OwnersNamed, Running
  <2>2. \A q \in Projects : Running(q)' <=> Running(q) /\ q # p
    <3>1. \A v \in Workers : v # w => worker'[v] = worker[v]
      BY <2>1, <1>T
    <3>2. worker'[w].pc = "select"
      BY <2>1, <1>T
    <3>3. \A v \in Workers : v # w /\ worker[v].pc = "running" => worker[v].project # p
      BY <2>1 DEF IInv, OneRunPerProject
    <3> QED BY <3>1, <3>2, <3>3, <2>1 DEF Running
  <2>3. Phases!Finish(p)
    BY <2>1, <2>2, <1>P, <1>Q DEF Phases!Finish, ph
  <2> QED BY <2>1, <2>3 DEF Phases!Next
<1>7. ASSUME NEW w \in Workers, Exit(w) PROVE Phases!Next \/ UNCHANGED ph
  <2>1. \A p : Running(p)' <=> Running(p)
    BY <1>7, <1>T DEF Exit, Running
  <2> QED BY <1>7, <2>1, <1>S DEF Exit
<1>8. CASE StopBegin \/ StopCancel \/ StopReturn
  BY <1>8, <1>R, <1>S DEF StopBegin, StopCancel, StopReturn
<1>9. CASE UNCHANGED vars
  BY <1>9, <1>R, <1>S DEF vars
<1> QED BY <1>1, <1>2, <1>3, <1>4, <1>5, <1>6, <1>7, <1>8, <1>9 DEF Next

\* The queue implements ProjectPhases: at most one run queued or in progress
\* per project, and no run begins for a project nobody queued.
THEOREM Implements == Spec => ImplementsPhases
<1>1. Spec => []IInv
  BY InitIInv, NextIInv, PTL DEF Spec
<1> QED BY <1>1, InitPhases, NextPhases, PTL DEF Spec, ImplementsPhases, Phases!Spec
=============================================================================
