----------------------------- MODULE ModelProvider -----------------------------
(***************************************************************************)
(* The language model behind every component and its change from the       *)
(* console while it is in use: SwappableLLMProvider holds its read lock    *)
(* over a whole call (internal/provider/swappable.go), the settings        *)
(* request of internal/app/web.go takes the write lock to put in the new   *)
(* provider and then gives the planning components the name of its model.  *)
(* Requests of the console may overlap.  A call sends the name its         *)
(* component has to the provider that is in force.                         *)
(***************************************************************************)
EXTENDS Naturals

CONSTANTS
  Callers,   \* goroutines of runs and plannings that call the model
  Changes,   \* settings requests that change the model, each once
  Nobody

(* Service.UseLLM renames the first three; the components built at start   *)
(* (executor, reviewers, delta planner) keep the name they were given.     *)
Renamed == {"router", "analyzer", "planner"}
Components == Renamed \cup {"executor"}

Initial == 0                        \* the provider of the configuration
Providers == {Initial} \cup Changes \* and the one each request makes

VARIABLES
  inner,    \* SwappableLLMProvider.inner
  writer,   \* the request that has, or waits for, the write lock
  name,     \* the model each component asks for
  caller,   \* what each caller does
  change,   \* what each request does
  overlap   \* history: two requests changed the model at one time

vars == <<inner, writer, name, caller, change, overlap>>

Away == [at |-> "away", asks |-> Initial, of |-> Initial]

TypeOK ==
  /\ inner \in Providers /\ writer \in Changes \cup {Nobody}
  /\ name \in [Components -> Providers]
  /\ caller \in [Callers -> [at : {"away", "waiting", "calling"}, asks : Providers, of : Providers]]
  /\ change \in [Changes -> {"new", "locking", "waiting", "naming", "router", "analyzer", "planner", "done"}]
  /\ overlap \in BOOLEAN

Init ==
  /\ inner = Initial /\ writer = Nobody
  /\ name = [c \in Components |-> Initial]
  /\ caller = [g \in Callers |-> Away]
  /\ change = [r \in Changes |-> "new"]
  /\ overlap = FALSE

-----------------------------------------------------------------------------
(* SwappableLLMProvider.Chat                                               *)

(* A component makes its request, with the name it has at that moment.     *)
Ask(g, c) ==
  /\ caller[g] = Away
  /\ caller' = [caller EXCEPT ![g].at = "waiting", ![g].asks = name[c]]
  /\ UNCHANGED <<inner, writer, name, change, overlap>>

(* RLock: not while a writer has the lock or waits for it.                 *)
Chat(g) ==
  /\ caller[g].at = "waiting" /\ writer = Nobody
  /\ caller' = [caller EXCEPT ![g].at = "calling", ![g].of = inner]
  /\ UNCHANGED <<inner, writer, name, change, overlap>>

(* An answer, an error or the deadline of TimeoutProvider.                 *)
Return(g) ==
  /\ caller[g].at = "calling"
  /\ caller' = [caller EXCEPT ![g] = Away]
  /\ UNCHANGED <<inner, writer, name, change, overlap>>

-----------------------------------------------------------------------------
(* The settings request                                                    *)

InProgress(r) == change[r] \notin {"new", "done"}

(* newLLMFromConfig refuses a change without provider, key or model.       *)
Refuse(r) ==
  /\ change[r] = "new"
  /\ change' = [change EXCEPT ![r] = "done"]
  /\ UNCHANGED <<inner, writer, name, caller, overlap>>

Receive(r) ==
  /\ change[r] = "new"
  /\ change' = [change EXCEPT ![r] = "locking"]
  /\ overlap' = (overlap \/ \E q \in Changes : InProgress(q))
  /\ UNCHANGED <<inner, writer, name, caller>>

(* Lock: one writer at a time announces itself and keeps new readers out.  *)
Lock(r) ==
  /\ change[r] = "locking" /\ writer = Nobody
  /\ writer' = r
  /\ change' = [change EXCEPT ![r] = "waiting"]
  /\ UNCHANGED <<inner, name, caller, overlap>>

(* Faulty: the change does not wait for the calls in progress.             *)
NoneToWaitFor == TRUE

ReadersGone == \A g \in Callers : caller[g].at # "calling"

Swap(r) ==
  /\ change[r] = "waiting" /\ ReadersGone
  /\ inner' = r
  /\ writer' = Nobody
  /\ change' = [change EXCEPT ![r] = "naming"]
  /\ UNCHANGED <<name, caller, overlap>>

(* SetModel takes the lock again; nobody reads what it sets.               *)
SetModel(r) ==
  /\ change[r] = "naming" /\ writer = Nobody /\ ReadersGone
  /\ change' = [change EXCEPT ![r] = "router"]
  /\ UNCHANGED <<inner, writer, name, caller, overlap>>

(* UseLLM: three fields, one after the other, under no lock.               *)
After == [router |-> "analyzer", analyzer |-> "planner", planner |-> "done"]

UseLLM(r) ==
  /\ change[r] \in Renamed
  /\ name' = [name EXCEPT ![change[r]] = r]
  /\ change' = [change EXCEPT ![r] = After[@]]
  /\ UNCHANGED <<inner, writer, caller, overlap>>

Next ==
  \/ \E g \in Callers : (\E c \in Components : Ask(g, c)) \/ Chat(g) \/ Return(g)
  \/ \E r \in Changes : Refuse(r) \/ Receive(r) \/ Lock(r) \/ Swap(r) \/ SetModel(r) \/ UseLLM(r)

Spec == Init /\ [][Next]_vars

-----------------------------------------------------------------------------
(* A change of the model reaches everybody at once (swappable.go: "Swap()  *)
(* is visible to everyone"): no call is still on a provider that was       *)
(* replaced, none asks for the model of one that is not in force yet, and  *)
(* once the request has been answered the planning components ask for the  *)
(* model of the provider in force, unless two changes overlapped.          *)
ModelInForce ==
  /\ \A g \in Callers : caller[g].at = "calling" =>
       /\ caller[g].of = inner
       /\ caller[g].asks \in Changes => change[caller[g].asks] \notin {"new", "locking", "waiting"}
  /\ ~ overlap /\ (\A r \in Changes : ~ InProgress(r)) => \A c \in Renamed : name[c] = inner
=============================================================================
