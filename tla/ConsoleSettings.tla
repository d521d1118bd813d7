--------------------------- MODULE ConsoleSettings ---------------------------
(***************************************************************************)
(* The settings of the web console process: loaded from config.yaml and    *)
(* the environment at start (internal/config/config.go), changed by        *)
(* POST /api/config and the /config command while HTTP handlers overlap    *)
(* (channels/webconsole/api_config.go), handed to the tool runtime and the *)
(* LLM provider (updateRuntimeConfig, internal/app/web.go), written back   *)
(* and loaded again after a restart.                                       *)
(*                                                                         *)
(* One key stands for each way a setting can travel: allow_shell and       *)
(* confirm (require_confirm_high_risk) for the security section, model for *)
(* the settings every part knows, api_key for the secret, max_chars for    *)
(* the numbers the runtime validates, timeout for those saved under        *)
(* another name, parallel for the ones the console does not know.          *)
(***************************************************************************)
EXTENDS Naturals, FiniteSets

CONSTANTS
  Posts,        \* the HTTP requests that change settings
  Payloads,     \* what they submit: partial functions over SubmittedKeys
  Absent,       \* no value
  MaxRestarts   \* bound: restarts of the process

Switches == {"allow_shell", "confirm"}
Keys == Switches \cup {"model", "api_key", "max_chars", "timeout", "parallel"}
SubmittedKeys == Switches \cup {"model", "api_key", "max_chars"}
FileKeys == Keys \cup {"timeout_seconds"}
Bad == "not a value"          \* text that does not parse
NotPositive == "0"            \* a number, but none the loader takes

(* config.Default and the fallbacks at the end of Load.                    *)
Default == [allow_shell |-> "on", confirm |-> "on", model |-> "m0", api_key |-> "", max_chars |-> "c0",
            timeout |-> "t0", parallel |-> "p1"]

VARIABLES
  file,       \* config.yaml
  env,        \* the environment variables, fixed while the process lives
  view,       \* APIServer.config
  policy,     \* the bridge's copy of the switches
  inForce,    \* the tool runtime's switches
  llm,        \* the model and key of the provider in use
  request,    \* [Posts -> its stage, payload, route and text for the file]
  newest,     \* the request whose text was composed last (history)
  author,     \* the request whose text was written last (history)
  restarts

vars == <<file, env, view, policy, inForce, llm, request, newest, author, restarts>>

Nothing == [k \in FileKeys |-> Absent]

Idle == [stage |-> "idle", payload |-> << >>, route |-> "post", text |-> Nothing]

TypeOK ==
  /\ DOMAIN file = FileKeys /\ DOMAIN env = Keys /\ DOMAIN view = Keys
  /\ policy \in [Switches -> {"on", "off"}] /\ inForce \in [Switches -> {"on", "off"}]
  /\ DOMAIN llm = {"model", "api_key"}
  /\ \A r \in Posts :
       /\ request[r].stage \in {"idle", "shown", "applied", "composed", "accepted", "failed"}
       /\ request[r].route \in {"post", "command"}
       /\ DOMAIN request[r].text = FileKeys
  /\ newest \in Posts \cup {Absent} /\ author \in Posts \cup {Absent}
  /\ restarts \in 0 .. MaxRestarts

-----------------------------------------------------------------------------
(* Start: the file, then the environment, then the defaults.               *)

(* What applyKeyValue assigns.  The keys of the security section are not   *)
(* among them: in its switch over sections the case of "security" is empty *)
(* and its keys belong to the case "shell_timeout" that follows.           *)
ReadFromFile == Keys \ Switches

(* A number that is not positive is dropped (parsePositiveInt).            *)
Sets(k, value) == value # Absent /\ (k \in {"max_chars", "parallel"} => value # NotPositive)

Load(f, e) ==
  [k \in Keys |-> IF Sets(k, e[k]) THEN e[k]
                  ELSE IF k \in ReadFromFile /\ Sets(k, f[k]) THEN f[k] ELSE Default[k]]

InUse(cfg) == [k \in {"model", "api_key"} |-> cfg[k]]

Start(cfg) ==
  /\ view' = cfg
  /\ policy' = [k \in Switches |-> cfg[k]]
  /\ inForce' = [k \in Switches |-> cfg[k]]
  /\ llm' = InUse(cfg)

(* applyEnv reads the key, the model, the shell switch and the number;     *)
(* one of them at a time is set here, or none.                             *)
NoVariable == [k \in Keys |-> Absent]

Environments ==
  {NoVariable}
  \cup {[NoVariable EXCEPT ![o[1]] = o[2]] :
         o \in {<<"api_key", "env-key">>, <<"model", "env-model">>, <<"allow_shell", "off">>,
                <<"max_chars", "env-chars">>, <<"max_chars", NotPositive>>}}

(* A config.yaml somebody wrote, with or without each of the settings.     *)
Files ==
  {[k \in FileKeys |-> CASE k = "allow_shell" -> shell [] k = "api_key" -> key
                         [] k = "timeout" -> "t1" [] k = "parallel" -> "p2" [] OTHER -> Absent]
   : shell \in {"off", Absent}, key \in {"file-key", Absent}}

Init ==
  /\ env \in Environments
  /\ file \in Files
  /\ view = Load(file, env)
  /\ policy = [k \in Switches |-> view[k]]
  /\ inForce = [k \in Switches |-> view[k]]
  /\ llm = InUse(view)
  /\ request = [r \in Posts |-> Idle]
  /\ newest = Absent /\ author = Absent
  /\ restarts = 0

-----------------------------------------------------------------------------
(* handleConfig and handleConfigCommand                                    *)

Submits(r, k) == k \in DOMAIN request[r].payload

Stage(r, s) == request' = [request EXCEPT ![r].stage = s]

(* applyConfigPayload: what does not parse is skipped.                     *)
Shown(v, payload) ==
  [k \in Keys |-> IF k \in DOMAIN payload /\ payload[k] # Bad THEN payload[k] ELSE v[k]]

applyConfigPayload(r, payload, route) ==
  /\ request[r].stage = "idle"
  /\ request' = [request EXCEPT ![r] = [Idle EXCEPT !.stage = "shown", !.payload = payload, !.route = route]]
  /\ view' = Shown(view, payload)
  /\ UNCHANGED <<file, env, policy, inForce, llm, newest, author, restarts>>

Unparsed(r, k) == Submits(r, k) /\ request[r].payload[k] = Bad

(* The provider is rebuilt from the payload alone, and needs all of it.    *)
TouchesLLM(r) == Submits(r, "model") \/ Submits(r, "api_key")
CompleteLLM(r) == Submits(r, "model") /\ Submits(r, "api_key")

(* The number, the shell switch and the confirmation switch are read one   *)
(* after the other; the first that does not parse ends the update with the *)
(* bridge's copy changed up to there.                                      *)
Reached(r, k) ==
  /\ ~Unparsed(r, "max_chars") /\ ~Unparsed(r, k)
  /\ k = "confirm" => ~Unparsed(r, "allow_shell")

(* The runtime gets the bridge's copy when everything parsed; a provider   *)
(* that cannot be built fails the update after that.                       *)
updateRuntimeConfig(r) ==
  LET p == request[r].payload
      read == \A k \in {"max_chars"} \cup Switches : ~Unparsed(r, k)
      copy == [k \in Switches |-> IF Submits(r, k) /\ Reached(r, k) THEN p[k] ELSE policy[k]] IN
  /\ request[r].stage = "shown"
  /\ policy' = copy
  /\ inForce' = IF read THEN copy ELSE inForce
  /\ llm' = IF read /\ CompleteLLM(r) THEN InUse(p) ELSE llm
  /\ Stage(r, IF read /\ (TouchesLLM(r) => CompleteLLM(r)) THEN "applied" ELSE "failed")
  /\ UNCHANGED <<file, env, view, newest, author, restarts>>

(* Mutant of Written: the key is always copied.                            *)
KeyAlwaysWritten(r) ==
  [k \in FileKeys |-> CASE k \in Switches \cup {"model", "max_chars", "api_key"} -> view[k]
                        [] k = "timeout_seconds" -> view["timeout"]
                        [] OTHER -> Absent]

(* Mutant of Written: what the request submitted, not what is shown by now. *)
AsSubmitted(r) ==
  [k \in FileKeys |-> CASE k \in SubmittedKeys /\ Submits(r, k) -> request[r].payload[k]
                        [] k \in Switches \cup {"model", "max_chars"} -> view[k]
                        [] k = "timeout_seconds" -> view["timeout"]
                        [] OTHER -> Absent]

(* The whole file is written from the view; the key only when this request *)
(* submitted one.                                                          *)
Written(r) ==
  [k \in FileKeys |-> CASE k \in Switches \cup {"model", "max_chars"} -> view[k]
                        [] k = "timeout_seconds" -> view["timeout"]
                        [] k = "api_key" /\ Submits(r, k) -> view[k]
                        [] OTHER -> Absent]

(* persistConfig, first half: the text is put together from the view of    *)
(* that moment.  The /config command does not save.                        *)
composeConfig(r) ==
  /\ request[r].stage = "applied" /\ request[r].route = "post"
  /\ request' = [request EXCEPT ![r].stage = "composed", ![r].text = Written(r)]
  /\ newest' = r
  /\ UNCHANGED <<file, env, view, policy, inForce, llm, author, restarts>>

(* persistConfig, second half: no lock is held, so another request may     *)
(* have composed or written its text since; an error of the write is       *)
(* dropped and the request accepted all the same.                          *)
writeConfig(r) ==
  /\ request[r].stage = "composed"
  /\ \/ file' = request[r].text /\ author' = r
     \/ UNCHANGED <<file, author>>
  /\ Stage(r, "accepted")
  /\ UNCHANGED <<env, view, policy, inForce, llm, newest, restarts>>

acceptCommand(r) ==
  /\ request[r].stage = "applied" /\ request[r].route = "command"
  /\ Stage(r, "accepted")
  /\ UNCHANGED <<file, env, view, policy, inForce, llm, newest, author, restarts>>

-----------------------------------------------------------------------------
(* The process ends at any point and starts again; in the middle of        *)
(* os.WriteFile it leaves a file emptied and not yet written.              *)
Restart ==
  /\ restarts < MaxRestarts
  /\ restarts' = restarts + 1
  /\ \/ file' = file
     \/ (\E r \in Posts : request[r].stage = "composed") /\ file' = Nothing
  /\ Start(Load(file', env))
  /\ request' = [r \in Posts |-> Idle]
  /\ newest' = Absent /\ author' = Absent
  /\ UNCHANGED env

Next ==
  \/ \E r \in Posts, p \in Payloads, route \in {"post", "command"} : applyConfigPayload(r, p, route)
  \/ \E r \in Posts :
       updateRuntimeConfig(r) \/ composeConfig(r) \/ writeConfig(r) \/ acceptCommand(r)
  \/ Restart

Spec == Init /\ [][Next]_vars

-----------------------------------------------------------------------------
(* Properties                                                              *)

(* The comment on persistConfig: a key that came from the environment is   *)
(* never copied into config.yaml, whatever requests overlap.               *)
EnvKeyStaysOut == file["api_key"] # "env-key"

Posted == {r \in Posts : request[r].stage # "idle"}

(* When every change was an accepted POST and none is under way, a restart *)
(* brings back what the console shows of the settings it saves and reads   *)
(* under one name, however the handlers' steps overlapped.  Three ways the *)
(* code loses an accepted value are exceptions: the last text composed is  *)
(* not the last one written (a slower request wrote an older text over it, *)
(* or its own write failed); the environment sets the key; the loader      *)
(* drops the number.                                                       *)
AcceptedSettingsSurvive ==
  (/\ restarts = 0 /\ Posted # {}
   /\ \A r \in Posted : request[r].stage = "accepted" /\ request[r].route = "post"
   /\ author = newest)
     => \A k \in {"model", "max_chars"} :
          ~Sets(k, env[k]) /\ Sets(k, view[k]) => Load(file, env)[k] = view[k]

(* What config.example.yaml says of the switch: a process started with     *)
(* allow_shell: false runs no shell tool outside the allowlist.            *)
FileSwitchesShellOff ==
  (restarts = 0 /\ Posted = {} /\ env["allow_shell"] = Absent /\ file["allow_shell"] = "off")
     => inForce["allow_shell"] = "off"
=============================================================================
