------------------------------ MODULE MCComponents ------------------------------
(***************************************************************************)
(* The settings, the sessions, the event stream, the MCP client, the work  *)
(* on one task, the browser, the memories, the code index and the intake   *)
(* of plans, for TLC.  They share no state, so one run checks them side by *)
(* side: a behaviour is one of the part it starts as, and the others stay  *)
(* at an initial state.                                                    *)
(***************************************************************************)
EXTENDS Naturals, Sequences, FiniteSets

CONSTANTS
  Posts, Payloads, Absent, MaxRestarts,
  Runs, MaxSessions, Handlers, None,
  MaxConns, MaxEvents, BufferSize, ChannelSize, MaxActivity,
  ToolNumbers, MaxPages, PageLimit, Nobody,
  Tasks, MaxSteps,
  BrowserCalls, MaxChromes, NoCall,
  Memories, Writers, MaxCrashes,
  Edits, IndexKeys, IndexCalls,
  Plans, Size, Needs

VARIABLES
  part,
  file, env, view, policy, inForce, llm, request, newest, author, restarts,
  rows, contexts, progress, session, cached, handler, kept, stale, created,
  appended, subscribers, mapNo, mapped, inMap, channel, closed, publisher, droppers, conn,
  lastId, written, owedFrom, panicked,
  nextID, id, at, lapsed, waiting, inbox, reader, received, alive, result, setup,
  task, status, attempt, place, step, events, tried, finished, verdict, repaired,
  bridge, mutex, cmd, started, chrome, last, browserCall, quit,
  items, memoryFile, mixed, writer, known, saved, removed, crowded, loaded, crashes,
  edit, entries, disk, indexCall,
  stage, next, toStore, taskStatus, stored, seen, candidates, early

settingsVars == <<file, env, view, policy, inForce, llm, request, newest, author, restarts>>
sessionVars == <<rows, contexts, progress, session, cached, handler, kept, stale, created>>
streamVars == <<appended, subscribers, mapNo, mapped, inMap, channel, closed, publisher, droppers, conn,
  lastId, written, owedFrom, panicked>>
mcpVars == <<nextID, id, at, lapsed, waiting, inbox, reader, received, alive, result, setup>>
workVars == <<task, status, attempt, place, step, events, tried, finished, verdict, repaired>>
browserVars == <<bridge, mutex, cmd, started, chrome, last, browserCall, quit>>
memoryVars == <<items, memoryFile, mixed, writer, known, saved, removed, crowded, loaded, crashes>>
indexVars == <<edit, entries, disk, indexCall>>
intakeVars == <<stage, next, toStore, taskStatus, stored, seen, candidates, early>>

Settings == INSTANCE ConsoleSettings
Sessions == INSTANCE Sessions
Stream == INSTANCE EventStream
MCP == INSTANCE MCPClient
Work == INSTANCE TaskWork WITH at <- place
Browser == INSTANCE BrowserBridge WITH Calls <- BrowserCalls, call <- browserCall
Memory == INSTANCE MemoryIndex WITH file <- memoryFile
Code == INSTANCE CodeIndex WITH Calls <- IndexCalls, call <- indexCall
Intake == INSTANCE PlanIntake WITH status <- taskStatus

-----------------------------------------------------------------------------
(* What the constants have in common with every configuration of the code. *)
(* What a console user submits is a value, and a key of his own, not the   *)
(* one the environment holds; an empty string submits nothing.             *)
ASSUME SettingsAssumption ==
  /\ MaxRestarts \in Nat
  /\ Absent \notin Posts \cup {Settings!Default[k] : k \in Settings!Keys} \cup {"env-key", "file-key"}
  /\ \A p \in Payloads :
       /\ DOMAIN p \subseteq Settings!SubmittedKeys /\ \A k \in DOMAIN p : p[k] # Absent
       /\ \A k \in DOMAIN p \cap Settings!Switches : p[k] \in {"on", "off", Settings!Bad}
       /\ "api_key" \in DOMAIN p => p["api_key"] \notin {"env-key", Settings!Bad}
ASSUME SessionAssumption == MaxSessions \in Nat /\ None \notin Sessions!SessionIds \cup Runs \cup Sessions!Rows
ASSUME StreamAssumption == MaxConns \in Nat /\ MaxEvents \in Nat /\ BufferSize \in Nat /\ ChannelSize \in Nat
ASSUME WorkAssumption == MaxSteps \in Nat \ {0} /\ Tasks \subseteq Work!TaskTexts
ASSUME BrowserAssumption == MaxChromes \in Nat /\ NoCall \notin BrowserCalls
ASSUME MCPAssumption ==
  /\ IsFiniteSet(ToolNumbers) /\ MaxPages \in Nat \ {0} /\ PageLimit \in Nat
  /\ PageLimit <= MaxPages
  /\ Nobody \notin MCP!Requests \cup MCP!ReplyTo
ASSUME MemoryAssumption == MaxCrashes \in Nat /\ None \notin Memories /\ \A m \in SUBSET Memories : m # None
ASSUME IndexAssumption == None \notin Code!Index \cup Code!CallRecord
ASSUME IntakeAssumption == Size \in Nat /\ Needs \in [Plans -> SUBSET (Intake!Positions \X Intake!Positions)]

-----------------------------------------------------------------------------
Bad == "not a value"
MCPayloads ==
  { [allow_shell |-> "off", max_chars |-> "c1"], [max_chars |-> "0"],
    [allow_shell |-> "off", confirm |-> Bad], [model |-> "m1"],
    [model |-> "m1", api_key |-> "user-key"] }

(* Any group of words, alone or with one that a rule of the executor or    *)
(* the tester mentions with it; some with two file names.                  *)
Together ==
  ({"passing"} \X {"tests", "readonly", "format", "change", "text"})
  \cup ({"tests"} \X {"source", "readonly", "report"})
  \cup ({"browser"} \X {"source", "text", "interaction", "readonly"})
  \cup ({"text"} \X {"readonly", "change"})
  \cup ({"research"} \X {"source", "named", "reading"})

(* The second of a pair may be the first again: each word alone.           *)
Alone == {<<p[k], p[k]>> : p \in Together, k \in {1, 2}}

MCTasks == { [words |-> {p[1], p[2]}, required |-> {}, placed |-> {}] : p \in Together \cup Alone }
  \cup { [words |-> {w}, required |-> {"a", "b"}, placed |-> p] :
          w \in {"text", "readonly"}, p \in {{}, {"a"}, {"a", "b"}} }

-----------------------------------------------------------------------------
(* A task that depends on one created after it, and one that depends on it. *)
MCNeeds == [p \in Plans |-> {<<1, 2>>, <<3, 1>>}]

-----------------------------------------------------------------------------
(* Requests, runs, calls and writers are interchangeable; each has two     *)
(* members here, and no two parts of them move in one behaviour, so it is  *)
(* enough to swap them all at once.                                        *)
Swapped == {Posts, Runs, BrowserCalls, Writers, Memories, IndexKeys}
Swap == {[x \in UNION Swapped |-> CHOOSE y \in UNION Swapped : y # x /\ \E S \in Swapped : {x, y} \subseteq S]}

-----------------------------------------------------------------------------
Parts == {"settings", "sessions", "stream", "mcp", "work", "browser", "memory", "index", "intake"}

Init ==
  /\ Settings!Init /\ Sessions!Init /\ Stream!Init /\ MCP!Init /\ Work!Init
  /\ Browser!Init /\ Memory!Init /\ Code!Init /\ Intake!Init
  /\ part \in Parts
  /\ part # "settings" => env = Settings!NoVariable /\ file["api_key"] = Absent /\ file["allow_shell"] = Absent
  /\ part # "work" => task.words = {"named"} /\ task.required = {}

SettingsStep ==
  /\ part = "settings" /\ Settings!Next
  /\ UNCHANGED <<part, sessionVars, streamVars, mcpVars, workVars,
                 browserVars, memoryVars, indexVars, intakeVars>>

SessionStep ==
  /\ part = "sessions" /\ Sessions!Next
  /\ UNCHANGED <<part, settingsVars, streamVars, mcpVars, workVars,
                 browserVars, memoryVars, indexVars, intakeVars>>

StreamStep ==
  /\ part = "stream" /\ Stream!Next
  /\ UNCHANGED <<part, settingsVars, sessionVars, mcpVars, workVars,
                 browserVars, memoryVars, indexVars, intakeVars>>

MCPStep ==
  /\ part = "mcp" /\ MCP!Next
  /\ UNCHANGED <<part, settingsVars, sessionVars, streamVars, workVars,
                 browserVars, memoryVars, indexVars, intakeVars>>

WorkStep ==
  /\ part = "work" /\ Work!Next
  /\ UNCHANGED <<part, settingsVars, sessionVars, streamVars, mcpVars,
                 browserVars, memoryVars, indexVars, intakeVars>>

BrowserStep ==
  /\ part = "browser" /\ Browser!Next
  /\ UNCHANGED <<part, settingsVars, sessionVars, streamVars, mcpVars,
                 workVars, memoryVars, indexVars, intakeVars>>

MemoryStep ==
  /\ part = "memory" /\ Memory!Next
  /\ UNCHANGED <<part, settingsVars, sessionVars, streamVars, mcpVars,
                 workVars, browserVars, indexVars, intakeVars>>

IndexStep ==
  /\ part = "index" /\ Code!Next
  /\ UNCHANGED <<part, settingsVars, sessionVars, streamVars, mcpVars,
                 workVars, browserVars, memoryVars, intakeVars>>

IntakeStep ==
  /\ part = "intake" /\ Intake!Next
  /\ UNCHANGED <<part, settingsVars, sessionVars, streamVars, mcpVars,
                 workVars, browserVars, memoryVars, indexVars>>

Next ==
  \/ SettingsStep \/ SessionStep \/ StreamStep \/ MCPStep \/ WorkStep
  \/ BrowserStep \/ MemoryStep \/ IndexStep \/ IntakeStep

vars == <<part, settingsVars, sessionVars, streamVars, mcpVars, workVars,
  browserVars, memoryVars, indexVars, intakeVars>>

Spec == Init /\ [][Next]_vars

-----------------------------------------------------------------------------
(* The variables of the part that moves stay in their types.               *)
TypeOK ==
  /\ part \in Parts
  /\ part = "settings" => Settings!TypeOK
  /\ part = "sessions" => Sessions!TypeOK
  /\ part = "stream" => Stream!TypeOK
  /\ part = "mcp" => MCP!TypeOK
  /\ part = "work" => Work!TypeOK
  /\ part = "browser" => Browser!TypeOK
  /\ part = "memory" => Memory!TypeOK
  /\ part = "index" => Code!TypeOK
  /\ part = "intake" => Intake!TypeOK

(* The properties of the parts, stated and explained in their modules.     *)

(* A key from the environment is never written to config.yaml.             *)
EnvKeyStaysOut == part = "settings" => Settings!EnvKeyStaysOut

(* Accepted settings come back after a restart.                            *)
AcceptedSettingsSurvive == part = "settings" => Settings!AcceptedSettingsSurvive

(* The master switch of config.yaml switches the shell tools off.          *)
FileSwitchesShellOff == part = "settings" => Settings!FileSwitchesShellOff

(* A run that crashed after planning can be resumed from the console.      *)
CrashedWorkIsResumable == part = "sessions" => Sessions!CrashedWorkIsResumable

(* A connection that keeps up misses no event.                             *)
NothingMissed == part = "stream" => Stream!NothingMissed

(* An MCP request takes at most one reply, and before it returns.          *)
RepliesOnce == MCP!RepliesOnce

(* No MCP call returns the reply to another request.                       *)
NoCrossedReplies == part = "mcp" => MCP!NoCrossedReplies

(* A task its own pipeline made DONE has the evidence its words ask for.   *)
DoneIsEvidenced == part = "work" => Work!DoneIsEvidenced

(* What the executor's own rules let finish passes the tester.             *)
TesterAgreesWithExecutor == part = "work" => Work!TesterAgreesWithExecutor

(* The bridge has at most one Chrome, and its Close leaves none.           *)
OneChrome == part = "browser" => Browser!OneChrome

(* Without two saves at a time, what was reported saved is in the file.    *)
SavedMemoriesSurvive == part = "memory" => Memory!SavedMemoriesSurvive

(* An index contains the writes that ended before it was asked for.        *)
IndexCoversWrites == part = "index" => Code!IndexCoversWrites

(* A task starts after the tasks its plan makes it depend on.              *)
StartsAfterItsDependencies == part = "intake" => Intake!StartsAfterItsDependencies
=============================================================================
