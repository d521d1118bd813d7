---------------------- MODULE MCComponentsConsole_proofs ----------------------
(***************************************************************************)
(* Proofs about the parts of MCComponents that the web console shows or    *)
(* changes: the settings, the sessions, the work on one task and the event *)
(* stream, for any number of requests, runs, steps, events and clients.    *)
(***************************************************************************)
EXTENDS MCComponents_proofs

-----------------------------------------------------------------------------
(* The settings                                                            *)

Submitted(r) == "api_key" \in DOMAIN request[r].payload

SettingsRequests ==
  /\ request = [r \in Posts |-> [stage |-> request[r].stage, payload |-> request[r].payload,
                                 route |-> request[r].route, text |-> request[r].text]]
  /\ \A r \in Posts : request[r].payload \in Payloads \cup {<< >>}

(* The text composed last has what the console shows, when every change    *)
(* was a POST that got that far: a later change is composed later.         *)
NewestIsShown ==
  (/\ Settings!Posted # {}
   /\ \A r \in Settings!Posted : request[r].stage \in {"composed", "accepted"} /\ request[r].route = "post")
     => /\ newest \in Posts
        /\ \A k \in {"model", "max_chars"} : request[newest].text[k] = view[k]

(* Once a request has submitted a key, the console shows a submitted key   *)
(* until the process ends, so no text composed since has the environment's.*)
SettingsInv ==
  /\ Settings!TypeOK
  /\ SettingsRequests
  /\ env["allow_shell"] \in {"off", Absent} /\ env["confirm"] = Absent
  /\ file["api_key"] # "env-key"
  /\ \A r \in Posts : request[r].text["api_key"] # "env-key"
  /\ \A r \in Posts : request[r].stage # "idle" /\ Submitted(r) => view["api_key"] # "env-key"
  /\ author # Absent => request[author].stage = "accepted" /\ file = request[author].text
  /\ NewestIsShown

LEMMA LoadTypes ==
  ASSUME NEW f, env["allow_shell"] \in {"off", Absent}, env["confirm"] = Absent,
         NEW cfg, cfg = Settings!Load(f, env)
  PROVE  /\ DOMAIN cfg = Settings!Keys
         /\ [k \in Settings!Switches |-> cfg[k]] \in [Settings!Switches -> {"on", "off"}]
<1>1. Settings!Default["allow_shell"] = "on" /\ Settings!Default["confirm"] = "on"
  BY DEF Settings!Default
<1>2. DOMAIN cfg = Settings!Keys
  BY DEF Settings!Load
<1>3. cfg["allow_shell"] \in {"on", "off"} /\ cfg["confirm"] \in {"on", "off"}
  BY <1>1 DEF Settings!Load, Settings!ReadFromFile, Settings!Keys, Settings!Switches, Settings!Sets
<1> QED
  BY <1>2, <1>3 DEF Settings!Switches

LEMMA EnvironmentTypes ==
  ASSUME env \in Settings!Environments
  PROVE  DOMAIN env = Settings!Keys /\ env["allow_shell"] \in {"off", Absent} /\ env["confirm"] = Absent
<1> DEFINE variables == {<<"api_key", "env-key">>, <<"model", "env-model">>, <<"allow_shell", "off">>,
                         <<"max_chars", "env-chars">>, <<"max_chars", Settings!NotPositive>>}
<1>1. DOMAIN Settings!NoVariable = Settings!Keys /\ \A k \in Settings!Keys : Settings!NoVariable[k] = Absent
  BY DEF Settings!NoVariable
<1>2. "allow_shell" \in Settings!Keys /\ "confirm" \in Settings!Keys
  BY DEF Settings!Keys, Settings!Switches
<1>3. CASE env = Settings!NoVariable
  BY <1>1, <1>2, <1>3
<1>4. CASE env # Settings!NoVariable
  <2>1. PICK o \in variables : env = [Settings!NoVariable EXCEPT ![o[1]] = o[2]]
    BY <1>4 DEF Settings!Environments
  <2>2. o[1] = "allow_shell" => o[2] = "off"
    BY <2>1
  <2>3. o[1] # "confirm"
    BY <2>1
  <2> HIDE DEF variables
  <2> QED
    BY <1>1, <1>2, <2>1, <2>2, <2>3
<1> QED
  BY <1>3, <1>4

LEMMA SettingsInit == Init => SettingsInv
<1> SUFFICES ASSUME Init PROVE SettingsInv
  OBVIOUS
<1>1. Settings!Init
  BY DEF Init
<1> DEFINE cfg == Settings!Load(file, env)
<1>2. /\ view = cfg /\ policy = [k \in Settings!Switches |-> view[k]]
      /\ inForce = [k \in Settings!Switches |-> view[k]]
      /\ llm = Settings!InUse(view)
      /\ request = [r \in Posts |-> Settings!Idle] /\ restarts = 0
      /\ newest = Absent /\ author = Absent
      /\ env \in Settings!Environments /\ file \in Settings!Files
  BY <1>1 DEF Settings!Init
<1>3. DOMAIN env = Settings!Keys /\ env["allow_shell"] \in {"off", Absent} /\ env["confirm"] = Absent
  BY <1>2, EnvironmentTypes
<1>4. /\ DOMAIN cfg = Settings!Keys
      /\ [k \in Settings!Switches |-> cfg[k]] \in [Settings!Switches -> {"on", "off"}]
  BY <1>3, LoadTypes
<1> HIDE DEF cfg
<1>5. PICK shell \in {"off", Absent}, key \in {"file-key", Absent} :
        file = [k \in Settings!FileKeys |->
                  CASE k = "allow_shell" -> shell [] k = "api_key" -> key [] k = "timeout" -> "t1"
                    [] k = "parallel" -> "p2" [] OTHER -> Absent]
  BY <1>2 DEF Settings!Files
<1>6. DOMAIN file = Settings!FileKeys /\ file["api_key"] = key
  BY <1>5 DEF Settings!FileKeys, Settings!Keys
<1>7. file["api_key"] # "env-key"
  BY <1>5, <1>6, SettingsAssumption
<1>8. DOMAIN Settings!Nothing = Settings!FileKeys /\ Settings!Nothing["api_key"] = Absent
  BY DEF Settings!Nothing, Settings!FileKeys, Settings!Keys
<1>9. \A r \in Posts : request[r] = Settings!Idle
  BY <1>2
<1>10. /\ Settings!Idle.stage = "idle" /\ Settings!Idle.payload = << >> /\ Settings!Idle.route = "post"
       /\ Settings!Idle.text = Settings!Nothing
       /\ Settings!Idle = [stage |-> "idle", payload |-> << >>, route |-> "post", text |-> Settings!Nothing]
  BY DEF Settings!Idle
<1>11. SettingsRequests
  BY <1>2, <1>9, <1>10 DEF SettingsRequests
<1>12. Settings!Posted = {}
  BY <1>9, <1>10 DEF Settings!Posted
<1>13. DOMAIN llm = {"model", "api_key"}
  BY <1>2 DEF Settings!InUse
<1>14. Settings!TypeOK
  BY <1>2, <1>3, <1>4, <1>6, <1>8, <1>9, <1>10, <1>13, SettingsAssumption DEF Settings!TypeOK
<1> QED
  BY <1>2, <1>3, <1>7, <1>8, <1>9, <1>10, <1>11, <1>12, <1>14, SettingsAssumption DEF SettingsInv, NewestIsShown

(* A handler's step changes the stage of its request, and one of them the  *)
(* text.                                                                   *)
LEMMA RequestComposed ==
  ASSUME SettingsRequests, NEW r \in Posts, NEW s, NEW t,
         request' = [q \in Posts |-> request'[q]],
         request'[r] = [stage |-> s, payload |-> request[r].payload, route |-> request[r].route, text |-> t],
         \A q \in Posts : q # r => request'[q] = request[q]
  PROVE  /\ SettingsRequests'
         /\ request'[r].stage = s /\ request'[r].text = t
         /\ request'[r].payload = request[r].payload /\ request'[r].route = request[r].route
         /\ \A q \in Posts : q # r => request'[q] = request[q]
<1> DEFINE new == [stage |-> s, payload |-> request[r].payload, route |-> request[r].route, text |-> t]
<1>1. request'[r] = new /\ \A q \in Posts : q # r => request'[q] = request[q]
  OBVIOUS
<1>2. /\ new.stage = s /\ new.text = t /\ new.payload = request[r].payload /\ new.route = request[r].route
      /\ new = [stage |-> new.stage, payload |-> new.payload, route |-> new.route, text |-> new.text]
  OBVIOUS
<1> HIDE DEF new
<1>3. \A q \in Posts : /\ request[q] = [stage |-> request[q].stage, payload |-> request[q].payload,
                                       route |-> request[q].route, text |-> request[q].text]
                       /\ request[q].payload \in Payloads \cup {<< >>}
  BY DEF SettingsRequests
<1>4. SettingsRequests'
  <2>1. \A q \in Posts : request'[q] = [stage |-> request'[q].stage, payload |-> request'[q].payload,
                                        route |-> request'[q].route, text |-> request'[q].text]
    BY <1>1, <1>2, <1>3
  <2>2. \A q \in Posts : request'[q].payload \in Payloads \cup {<< >>}
    BY <1>1, <1>2, <1>3
  <2>3. request' = [q \in Posts |-> request'[q]]
    OBVIOUS
  <2>4. request' = [q \in Posts |-> [stage |-> request'[q].stage, payload |-> request'[q].payload,
                                     route |-> request'[q].route, text |-> request'[q].text]]
    BY <2>1, <2>3
  <2> QED
    BY <2>2, <2>4 DEF SettingsRequests
<1> QED
  BY <1>1, <1>2, <1>4

LEMMA RequestMoves ==
  ASSUME SettingsRequests, NEW r \in Posts, NEW s, request' = [request EXCEPT ![r].stage = s]
  PROVE  /\ SettingsRequests'
         /\ request'[r].stage = s /\ request'[r].text = request[r].text
         /\ request'[r].payload = request[r].payload /\ request'[r].route = request[r].route
         /\ \A q \in Posts : q # r => request'[q] = request[q]
<1>1. PICK t : t = request[r].text
  OBVIOUS
<1>2. request[r] = [stage |-> request[r].stage, payload |-> request[r].payload,
                    route |-> request[r].route, text |-> t]
  BY <1>1 DEF SettingsRequests
<1>3. [request[r] EXCEPT !.stage = s]
        = [stage |-> s, payload |-> request[r].payload, route |-> request[r].route, text |-> t]
  BY <1>2
<1>4. /\ DOMAIN request = Posts /\ request' = [request EXCEPT ![r] = [request[r] EXCEPT !.stage = s]]
  BY DEF SettingsRequests
<1>5. /\ request' = [q \in Posts |-> request'[q]]
      /\ request'[r] = [stage |-> s, payload |-> request[r].payload, route |-> request[r].route, text |-> t]
      /\ \A q \in Posts : q # r => request'[q] = request[q]
  BY <1>3, <1>4
<1>6. /\ SettingsRequests'
      /\ request'[r].stage = s /\ request'[r].text = t
      /\ request'[r].payload = request[r].payload /\ request'[r].route = request[r].route
      /\ \A q \in Posts : q # r => request'[q] = request[q]
  BY ONLY SettingsRequests, r \in Posts, <1>5, RequestComposed
<1> QED
  BY ONLY <1>1, <1>6

(* What a step of the request of r keeps of the rest.                      *)
LEMMA OtherRequests ==
  ASSUME SettingsInv, NEW r \in Posts, request[r].stage # "idle",
         \A q \in Posts : q # r => request'[q] = request[q],
         request'[r].payload = request[r].payload,
         UNCHANGED view
  PROVE  \A q \in Posts : request'[q].stage # "idle" /\ Submitted(q)' => view'["api_key"] # "env-key"
<1> SUFFICES ASSUME NEW q \in Posts, request'[q].stage # "idle", Submitted(q)'
             PROVE  view'["api_key"] # "env-key"
  OBVIOUS
<1>1. Submitted(q)
  BY DEF Submitted
<1> QED
  BY <1>1 DEF SettingsInv

LEMMA ApplyStep ==
  ASSUME SettingsInv, NEW r \in Posts, NEW p \in Payloads, NEW route \in {"post", "command"},
         Settings!applyConfigPayload(r, p, route)
  PROVE  SettingsInv'
<1>1. Settings!TypeOK /\ SettingsRequests /\ request[r].stage = "idle"
  BY DEF SettingsInv, Settings!applyConfigPayload
<1> DEFINE new == [stage |-> "shown", payload |-> p, route |-> route, text |-> Settings!Nothing]
<1>2. /\ request' = [request EXCEPT ![r] = new]
      /\ view' = Settings!Shown(view, p)
      /\ UNCHANGED <<file, env, policy, inForce, llm, newest, author, restarts>>
  <2>1. Settings!Idle = [stage |-> "idle", payload |-> << >>, route |-> "post", text |-> Settings!Nothing]
    BY DEF Settings!Idle
  <2> DEFINE filled == [Settings!Idle EXCEPT !.stage = "shown", !.payload = p, !.route = route]
  <2>2. filled \in [stage : {"shown"}, payload : {p}, route : {route}, text : {Settings!Nothing}]
    BY <2>1
  <2> HIDE DEF filled
  <2>3. filled = new
    BY <2>2
  <2>4. [Settings!Idle EXCEPT !.stage = "shown", !.payload = p, !.route = route] = new
    BY <2>3 DEF filled
  <2> HIDE DEF new
  <2> QED
    BY <2>4 DEF Settings!applyConfigPayload
<1>3. /\ request'[r] = new
      /\ new.stage = "shown" /\ new.payload = p /\ new.route = route /\ new.text = Settings!Nothing
      /\ \A q \in Posts : q # r => request'[q] = request[q]
  BY <1>1, <1>2 DEF SettingsRequests
<1>4. SettingsRequests'
  <2>1. \A q \in Posts : request'[q] = [stage |-> request'[q].stage, payload |-> request'[q].payload,
                                        route |-> request'[q].route, text |-> request'[q].text]
    BY <1>1, <1>3 DEF SettingsRequests
  <2>2. \A q \in Posts : request'[q].payload \in Payloads \cup {<< >>}
    BY <1>1, <1>3 DEF SettingsRequests
  <2>3. request' = [q \in Posts |-> request'[q]]
    BY <1>1, <1>2 DEF SettingsRequests
  <2> QED
    BY <2>1, <2>2, <2>3 DEF SettingsRequests
<1>5. /\ DOMAIN view' = Settings!Keys
      /\ \A k \in Settings!Keys :
           view'[k] = IF k \in DOMAIN p /\ p[k] # Settings!Bad THEN p[k] ELSE view[k]
  BY <1>2 DEF Settings!Shown
<1>6. DOMAIN Settings!Nothing = Settings!FileKeys /\ Settings!Nothing["api_key"] = Absent
  BY DEF Settings!Nothing, Settings!FileKeys, Settings!Keys
<1> HIDE DEF new
<1>7. Settings!TypeOK'
  BY <1>1, <1>2, <1>3, <1>5, <1>6 DEF Settings!TypeOK
<1>8. "api_key" \in Settings!Keys
  BY DEF Settings!Keys
<1>9. \A q \in Posts : request'[q].stage # "idle" /\ Submitted(q)' => view'["api_key"] # "env-key"
  <2>1. "api_key" \in DOMAIN p => view'["api_key"] # "env-key"
    BY <1>5, <1>8, SettingsAssumption
  <2>2. view["api_key"] # "env-key" => view'["api_key"] # "env-key"
    BY <1>5, <1>8, SettingsAssumption
  <2>3. ASSUME NEW q \in Posts, request'[q].stage # "idle", "api_key" \in DOMAIN request'[q].payload
        PROVE  view'["api_key"] # "env-key"
    <3>1. CASE q = r
      BY <1>3, <2>1, <2>3, <3>1
    <3>2. CASE q # r
      BY <1>3, <2>2, <2>3, <3>2 DEF SettingsInv, Submitted
    <3> QED
      BY <3>1, <3>2
  <2> QED
    BY <2>3 DEF Submitted
<1>10. NewestIsShown'
  BY <1>3 DEF NewestIsShown, Settings!Posted
<1>11. author' # Absent => request'[author'].stage = "accepted" /\ file' = request'[author'].text
  BY <1>1, <1>2, <1>3 DEF SettingsInv, Settings!TypeOK
<1>12. \A q \in Posts : request'[q].text["api_key"] # "env-key"
  BY <1>3, <1>6, SettingsAssumption DEF SettingsInv
<1> QED
  BY <1>2, <1>4, <1>7, <1>9, <1>10, <1>11, <1>12 DEF SettingsInv

LEMMA UpdateStep ==
  ASSUME SettingsInv, NEW r \in Posts, Settings!updateRuntimeConfig(r)
  PROVE  SettingsInv'
<1>1. Settings!TypeOK /\ SettingsRequests
  BY DEF SettingsInv
<1>2. PICK s \in {"failed", "applied"} : request' = [request EXCEPT ![r].stage = s]
  BY DEF Settings!updateRuntimeConfig, Settings!Stage
<1>3. request[r].stage = "shown" /\ UNCHANGED <<file, env, view, newest, author, restarts>>
  BY DEF Settings!updateRuntimeConfig
<1>4. /\ SettingsRequests'
      /\ request'[r].stage = s /\ request'[r].text = request[r].text
      /\ request'[r].payload = request[r].payload /\ request'[r].route = request[r].route
      /\ \A q \in Posts : q # r => request'[q] = request[q]
  BY <1>1, <1>2, RequestMoves
<1>5. policy' \in [Settings!Switches -> {"on", "off"}] /\ inForce' \in [Settings!Switches -> {"on", "off"}]
  <2> DEFINE p == request[r].payload
             copy == [k \in Settings!Switches |->
                        IF Settings!Submits(r, k) /\ Settings!Reached(r, k) THEN p[k] ELSE policy[k]]
  <2>1. policy' = copy /\ inForce' \in {copy, inForce}
    BY DEF Settings!updateRuntimeConfig
  <2>2. \A k \in Settings!Switches : copy[k] \in {"on", "off"}
    <3> SUFFICES ASSUME NEW k \in Settings!Switches PROVE copy[k] \in {"on", "off"}
      OBVIOUS
    <3>1. CASE Settings!Submits(r, k) /\ Settings!Reached(r, k)
      <4>1. k \in DOMAIN p /\ p[k] # Settings!Bad
        BY <3>1 DEF Settings!Reached, Settings!Unparsed, Settings!Submits
      <4>2. p \in Payloads \cup {<< >>} /\ DOMAIN << >> = {}
        BY <1>1 DEF SettingsRequests
      <4>3. p[k] \in {"on", "off"}
        BY <4>1, <4>2, SettingsAssumption
      <4> QED
        BY <3>1, <4>3
    <3>2. CASE ~ (Settings!Submits(r, k) /\ Settings!Reached(r, k))
      BY <1>1, <3>2 DEF Settings!TypeOK
    <3> QED
      BY <3>1, <3>2
  <2>3. copy \in [Settings!Switches -> {"on", "off"}]
    BY <2>2
  <2> HIDE DEF copy
  <2> QED
    BY <1>1, <2>1, <2>3 DEF Settings!TypeOK
<1>6. DOMAIN llm' = {"model", "api_key"}
  <2>1. \/ llm' = Settings!InUse(request[r].payload)
        \/ llm' = llm
    BY DEF Settings!updateRuntimeConfig
  <2> QED
    BY <1>1, <2>1 DEF Settings!TypeOK, Settings!InUse
<1>7. Settings!TypeOK'
  BY <1>1, <1>3, <1>4, <1>5, <1>6 DEF Settings!TypeOK
<1>8. \A q \in Posts : request'[q].stage # "idle" /\ Submitted(q)' => view'["api_key"] # "env-key"
  BY <1>3, <1>4, OtherRequests
<1>9. NewestIsShown'
  BY <1>4 DEF NewestIsShown, Settings!Posted
<1>10. author' # Absent => request'[author'].stage = "accepted" /\ file' = request'[author'].text
  BY <1>1, <1>3, <1>4 DEF SettingsInv, Settings!TypeOK
<1> QED
  BY <1>3, <1>4, <1>7, <1>8, <1>9, <1>10 DEF SettingsInv

LEMMA ComposeStep ==
  ASSUME SettingsInv, NEW r \in Posts, Settings!composeConfig(r)
  PROVE  SettingsInv'
<1>1. Settings!TypeOK /\ SettingsRequests
  BY DEF SettingsInv
<1>2. /\ request[r].stage = "applied" /\ newest' = r
      /\ request' = [request EXCEPT ![r].stage = "composed", ![r].text = Settings!Written(r)]
      /\ UNCHANGED <<file, env, view, policy, inForce, llm, author, restarts>>
  BY DEF Settings!composeConfig
<1> DEFINE text == Settings!Written(r)
<1>3. /\ DOMAIN text = Settings!FileKeys
      /\ \A k \in {"model", "max_chars"} : text[k] = view[k]
      /\ text["api_key"] = IF Submitted(r) THEN view["api_key"] ELSE Absent
  BY DEF Settings!Written, Settings!FileKeys, Settings!Keys, Settings!Switches, Settings!Submits, Submitted
<1> HIDE DEF text
<1>4. /\ SettingsRequests'
      /\ request'[r].stage = "composed" /\ request'[r].text = text
      /\ request'[r].payload = request[r].payload /\ request'[r].route = request[r].route
      /\ \A q \in Posts : q # r => request'[q] = request[q]
  <2>1. request[r] = [stage |-> request[r].stage, payload |-> request[r].payload,
                      route |-> request[r].route, text |-> request[r].text]
    BY <1>1 DEF SettingsRequests
  <2> DEFINE new == [request[r] EXCEPT !.stage = "composed", !.text = text]
  <2>2. new \in [stage : {"composed"}, payload : {request[r].payload}, route : {request[r].route}, text : {text}]
    BY <2>1
  <2>3. DOMAIN request = Posts /\ request' = [request EXCEPT ![r] = new]
    BY <1>1, <1>2 DEF SettingsRequests, text
  <2> HIDE DEF new
  <2>4. new = [stage |-> "composed", payload |-> request[r].payload, route |-> request[r].route, text |-> text]
    BY <2>2
  <2>5. /\ request' = [q \in Posts |-> request'[q]]
        /\ request'[r] = new
        /\ \A q \in Posts : q # r => request'[q] = request[q]
    BY <2>3
  <2>6. PICK t : t = text
    OBVIOUS
  <2> QED
    BY <1>1, <2>4, <2>5, <2>6, RequestComposed
<1>5. Settings!TypeOK'
  BY <1>1, <1>2, <1>3, <1>4 DEF Settings!TypeOK
<1>6. text["api_key"] # "env-key"
  BY <1>2, <1>3, SettingsAssumption DEF SettingsInv
<1>7. \A q \in Posts : request'[q].stage # "idle" /\ Submitted(q)' => view'["api_key"] # "env-key"
  BY <1>2, <1>4, OtherRequests
<1>8. NewestIsShown'
  <2>1. newest' = r /\ view' = view /\ r \in Posts
    BY <1>2
  <2>2. \A k \in {"model", "max_chars"} : request'[newest'].text[k] = view'[k]
    BY <1>3, <1>4, <2>1
  <2> QED
    BY <2>1, <2>2 DEF NewestIsShown
<1>9. author' # Absent => request'[author'].stage = "accepted" /\ file' = request'[author'].text
  <2> SUFFICES ASSUME author # Absent
               PROVE  request'[author].stage = "accepted" /\ file = request'[author].text
    BY <1>2
  <2>1. author \in Posts /\ request[author].stage = "accepted" /\ file = request[author].text
    BY <1>1 DEF SettingsInv, Settings!TypeOK
  <2> QED
    BY <1>2, <1>4, <2>1
<1>10. \A q \in Posts : request'[q].text["api_key"] # "env-key"
  BY <1>4, <1>6 DEF SettingsInv
<1> QED
  BY <1>2, <1>4, <1>5, <1>7, <1>8, <1>9, <1>10 DEF SettingsInv

LEMMA WriteConfigStep ==
  ASSUME SettingsInv, NEW r \in Posts, Settings!writeConfig(r) \/ Settings!acceptCommand(r)
  PROVE  SettingsInv'
<1>1. Settings!TypeOK /\ SettingsRequests
  BY DEF SettingsInv
<1>2. /\ request' = [request EXCEPT ![r].stage = "accepted"]
      /\ request[r].stage \in {"composed", "applied"}
      /\ request[r].stage = "applied" => request[r].route = "command"
      /\ (file' = request[r].text /\ author' = r) \/ UNCHANGED <<file, author>>
      /\ UNCHANGED <<env, view, policy, inForce, llm, newest, restarts>>
  BY DEF Settings!writeConfig, Settings!acceptCommand, Settings!Stage
<1>3. /\ SettingsRequests'
      /\ request'[r].stage = "accepted" /\ request'[r].text = request[r].text
      /\ request'[r].payload = request[r].payload /\ request'[r].route = request[r].route
      /\ \A q \in Posts : q # r => request'[q] = request[q]
  BY <1>1, <1>2, RequestMoves
<1>4. Settings!TypeOK'
  BY <1>1, <1>2, <1>3 DEF Settings!TypeOK
<1>5. file'["api_key"] # "env-key"
  BY <1>2 DEF SettingsInv
<1>6. \A q \in Posts : request'[q].stage # "idle" /\ Submitted(q)' => view'["api_key"] # "env-key"
  BY <1>2, <1>3, OtherRequests
<1>7. \A q \in Posts : request'[q].text = request[q].text
  BY <1>3
<1>8. NewestIsShown'
  <2> SUFFICES ASSUME \A q \in Settings!Posted' :
                        request'[q].stage \in {"composed", "accepted"} /\ request'[q].route = "post"
               PROVE  /\ newest \in Posts
                      /\ \A k \in {"model", "max_chars"} : request'[newest].text[k] = view[k]
    BY <1>2 DEF NewestIsShown
  <2>1. \A q \in Posts : q \in Settings!Posted => q \in Settings!Posted'
    BY <1>3 DEF Settings!Posted
  <2>2. r \in Settings!Posted /\ r \in Settings!Posted'
    BY <1>2, <1>3 DEF Settings!Posted
  <2>3. request[r].stage = "composed" /\ request[r].route = "post"
    BY <1>2, <1>3, <2>2
  <2>4. \A q \in Settings!Posted : request[q].stage \in {"composed", "accepted"} /\ request[q].route = "post"
    BY <1>3, <2>1, <2>3 DEF Settings!Posted
  <2> QED
    BY <1>7, <2>2, <2>4 DEF SettingsInv, NewestIsShown
<1>9. author' # Absent => request'[author'].stage = "accepted" /\ file' = request'[author'].text
  <2>1. CASE file' = request[r].text /\ author' = r
    BY <1>3, <2>1
  <2>2. CASE UNCHANGED <<file, author>>
    BY <1>1, <1>3, <1>7, <2>2 DEF SettingsInv, Settings!TypeOK
  <2> QED
    BY <1>2, <2>1, <2>2
<1> QED
  BY <1>2, <1>3, <1>4, <1>5, <1>6, <1>7, <1>8, <1>9 DEF SettingsInv

LEMMA RestartStep ==
  ASSUME SettingsInv, Settings!Restart
  PROVE  SettingsInv'
<1>1. PICK f : f = file' /\ (f = file \/ f = Settings!Nothing)
  BY DEF Settings!Restart
<1> DEFINE cfg == Settings!Load(f, env)
<1>2. /\ restarts < MaxRestarts /\ restarts' = restarts + 1
      /\ view' = cfg
      /\ policy' = [k \in Settings!Switches |-> cfg[k]] /\ inForce' = [k \in Settings!Switches |-> cfg[k]]
      /\ llm' = Settings!InUse(cfg)
      /\ request' = [r \in Posts |-> Settings!Idle]
      /\ newest' = Absent /\ author' = Absent /\ UNCHANGED env
  BY <1>1 DEF Settings!Restart, Settings!Start
<1>3. /\ DOMAIN cfg = Settings!Keys
      /\ [k \in Settings!Switches |-> cfg[k]] \in [Settings!Switches -> {"on", "off"}]
  BY LoadTypes DEF SettingsInv
<1> HIDE DEF cfg
<1>4. DOMAIN Settings!Nothing = Settings!FileKeys /\ Settings!Nothing["api_key"] = Absent
  BY DEF Settings!Nothing, Settings!FileKeys, Settings!Keys
<1>5. \A r \in Posts : request'[r] = Settings!Idle
  BY <1>2
<1>6. /\ Settings!Idle.stage = "idle" /\ Settings!Idle.payload = << >> /\ Settings!Idle.route = "post"
      /\ Settings!Idle.text = Settings!Nothing
      /\ Settings!Idle = [stage |-> "idle", payload |-> << >>, route |-> "post", text |-> Settings!Nothing]
  BY DEF Settings!Idle
<1>7. SettingsRequests'
  BY <1>2, <1>5, <1>6 DEF SettingsRequests
<1>8. Settings!TypeOK
  BY DEF SettingsInv
<1>9. restarts' \in 0 .. MaxRestarts
  BY <1>2, <1>8, SettingsAssumption DEF Settings!TypeOK
<1>10. DOMAIN llm' = {"model", "api_key"}
  BY <1>2 DEF Settings!InUse
<1>11. DOMAIN file' = Settings!FileKeys /\ file'["api_key"] # "env-key"
  BY <1>1, <1>4, <1>8, SettingsAssumption DEF SettingsInv, Settings!TypeOK
<1>12. Settings!TypeOK'
  BY <1>2, <1>3, <1>4, <1>5, <1>6, <1>8, <1>9, <1>10, <1>11 DEF Settings!TypeOK
<1>13. Settings!Posted' = {}
  BY <1>5, <1>6 DEF Settings!Posted
<1>14. NewestIsShown'
  BY <1>13 DEF NewestIsShown
<1> QED
  BY <1>2, <1>4, <1>5, <1>6, <1>7, <1>11, <1>12, <1>14, SettingsAssumption DEF SettingsInv

LEMMA SettingsNext == SettingsInv /\ (Settings!Next \/ UNCHANGED settingsVars) => SettingsInv'
<1>1. ASSUME SettingsInv, Settings!Next PROVE SettingsInv'
  BY <1>1, ApplyStep, UpdateStep, ComposeStep, WriteConfigStep, RestartStep DEF Settings!Next
<1>2. ASSUME SettingsInv, UNCHANGED settingsVars PROVE SettingsInv'
  BY <1>2 DEF SettingsInv, settingsVars, SettingsRequests, NewestIsShown, Settings!TypeOK, Settings!Posted, Submitted
<1> QED
  BY <1>1, <1>2

LEMMA SettingsInvariance == Spec => []SettingsInv
<1>1. SettingsInv /\ [Next]_vars => SettingsInv'
  BY StepOfOne, SettingsNext
<1> QED
  BY <1>1, SettingsInit, PTL DEF Spec

(* However many requests overlap and whenever the process restarts: the    *)
(* key from the environment never reaches config.yaml (persistConfig).     *)
THEOREM EnvironmentKeyIsNotWritten == Spec => []EnvKeyStaysOut
<1>1. SettingsInv => EnvKeyStaysOut
  BY DEF SettingsInv, EnvKeyStaysOut, Settings!EnvKeyStaysOut
<1> QED
  BY <1>1, SettingsInvariance, PTL

(* However many accepted changes overlapped, a restart loads what the      *)
(* console shows of the model and the limits (applyConfigPayload,          *)
(* composeConfig, writeConfig, Load), but for the three ways to lose one   *)
(* that the property names: an older text written over a newer one, a      *)
(* variable of the environment, a number the loader does not take.         *)
THEOREM AcceptedSettingsComeBack == Spec => []AcceptedSettingsSurvive
<1>1. ASSUME SettingsInv, Settings!Posted # {}, author = newest,
             \A r \in Settings!Posted : request[r].stage = "accepted" /\ request[r].route = "post",
             NEW k \in {"model", "max_chars"}, ~ Settings!Sets(k, env[k]), Settings!Sets(k, view[k])
      PROVE  Settings!Load(file, env)[k] = view[k]
  <2>1. newest \in Posts /\ request[newest].text[k] = view[k]
    BY <1>1 DEF SettingsInv, NewestIsShown
  <2>2. file[k] = view[k]
    BY <1>1, <2>1, SettingsAssumption DEF SettingsInv
  <2>3. k \in Settings!Keys /\ k \in Settings!ReadFromFile
    BY DEF Settings!Keys, Settings!ReadFromFile, Settings!Switches
  <2> QED
    BY <1>1, <2>2, <2>3 DEF Settings!Load
<1>2. SettingsInv => AcceptedSettingsSurvive
  BY <1>1 DEF AcceptedSettingsSurvive, Settings!AcceptedSettingsSurvive
<1> QED
  BY <1>2, SettingsInvariance, PTL

-----------------------------------------------------------------------------
(* The sessions                                                            *)

HandlerRecords ==
  [stage : {"free", "read", "resume", "resuming", "deleting"}, session : Sessions!SessionIds \cup {None},
   row : Sessions!Rows \cup {None}, to : Sessions!Statuses]

HandlerFits(h) ==
  /\ handler[h].stage # "free" => handler[h].session \in Sessions!SessionIds
  /\ handler[h].stage \in {"read", "resuming"} => handler[h].row \in Sessions!Rows

RunFits(p) ==
  /\ IF progress[p] \in {"start", "creating"}
     THEN session[p] = None
     ELSE session[p] \in 1 .. created /\ cached[p] \in Sessions!Rows
  /\ p \in kept => progress[p] \in {"planned", "done", "crashed"}

(* The runtime context leads to the project of a run that has saved it, as *)
(* long as the session is that run's only and is not being deleted.        *)
ContextKept(p) ==
  p \in kept /\ Sessions!Alone(p) /\ Sessions!Exists(session[p]) =>
    contexts[session[p]] = p \/ Sessions!Deleting(session[p])

(* The row leads to the project that is bound to it, unless a handler      *)
(* wrote over it what it had read before.                                  *)
Bound == {"bound", "ready", "planned", "crashed"}

RowKept(p) ==
  /\ progress[p] \in Bound /\ Sessions!Alone(p) /\ Sessions!Exists(session[p])
  /\ session[p] \notin stale
  => rows[session[p]].project = p

(* A deleted session does not come back: no run and no handler writes the  *)
(* row of a session that is gone.                                          *)
SessionInv ==
  /\ Sessions!TypeOK
  /\ handler \in [Handlers -> HandlerRecords]
  /\ \A h \in Handlers : HandlerFits(h)
  /\ \A p \in Runs : RunFits(p)
  /\ \A s \in Sessions!SessionIds : s > created => rows[s] = None
  /\ \A p \in Runs : ContextKept(p) /\ RowKept(p)

LEMMA SessionInit == Init => SessionInv
<1> SUFFICES ASSUME Init PROVE SessionInv
  OBVIOUS
<1>1. Sessions!Init
  BY DEF Init
<1>2. Sessions!Free \in HandlerRecords
  BY DEF Sessions!Free, HandlerRecords, Sessions!Statuses
<1>3. handler \in [Handlers -> HandlerRecords] /\ \A h \in Handlers : handler[h].stage = "free"
  BY <1>1, <1>2 DEF Sessions!Init, Sessions!Free
<1>4. Sessions!TypeOK
  BY <1>1, <1>3, SessionAssumption DEF Sessions!Init, Sessions!TypeOK, Sessions!Stages, HandlerRecords
<1> QED
  BY <1>1, <1>3, <1>4 DEF Sessions!Init, SessionInv, HandlerFits, RunFits, ContextKept, RowKept, Bound

(* UPDATE changes no row that is not there and removes none.               *)
LEMMA UpdateKeepsRows ==
  ASSUME rows \in [Sessions!SessionIds -> Sessions!Rows \cup {None}],
         NEW s \in Sessions!SessionIds, NEW row \in Sessions!Rows,
         Sessions!UpdateSession(s, row) \/ UNCHANGED rows
  PROVE  /\ rows' \in [Sessions!SessionIds -> Sessions!Rows \cup {None}]
         /\ \A t \in Sessions!SessionIds : rows'[t] = None <=> rows[t] = None
         /\ \A t \in Sessions!SessionIds : t # s => rows'[t] = rows[t]
BY SessionAssumption DEF Sessions!UpdateSession, Sessions!Exists

(* A session that has one run has no other later: runs only gain sessions. *)
LEMMA AloneBefore ==
  ASSUME NEW p \in Runs, session[p] # None, session'[p] = session[p],
         \A q \in Runs : session'[q] = session[q] \/ session[q] = None,
         Sessions!Alone(p)'
  PROVE  Sessions!Alone(p)
<1>1. ASSUME NEW q \in Runs \ {p} PROVE session[q] # session[p]
  BY <1>1 DEF Sessions!Alone
<1> QED
  BY <1>1 DEF Sessions!Alone

LEMMA ContextStays ==
  ASSUME SessionInv, NEW p \in Runs, session'[p] = session[p],
         p \in kept' => p \in kept,
         \A q \in Runs : session'[q] = session[q] \/ session[q] = None,
         rows[session[p]] = None => rows'[session[p]] = None,
         Sessions!Alone(p) =>
           contexts'[session[p]] = contexts[session[p]] \/ Sessions!Deleting(session[p])',
         Sessions!Deleting(session[p]) => Sessions!Deleting(session[p])' \/ rows'[session[p]] = None
  PROVE  ContextKept(p)'
<1> DEFINE s == session[p]
<1>1. SUFFICES ASSUME p \in kept', Sessions!Alone(p)', rows'[s] # None
               PROVE  contexts'[s] = p \/ Sessions!Deleting(s)'
  BY DEF ContextKept, Sessions!Exists
<1>2. s # None
  BY <1>1, SessionAssumption DEF SessionInv, RunFits, Sessions!TypeOK, Sessions!SessionIds
<1>3. Sessions!Alone(p)
  BY <1>1, <1>2, AloneBefore
<1>4. contexts[s] = p \/ Sessions!Deleting(s)
  BY <1>1, <1>3 DEF SessionInv, ContextKept, Sessions!Exists
<1> QED
  BY <1>1, <1>3, <1>4

LEMMA RowStays ==
  ASSUME SessionInv, NEW p \in Runs, session'[p] = session[p],
         progress'[p] \in Bound => progress[p] \in Bound,
         \A q \in Runs : session'[q] = session[q] \/ session[q] = None,
         stale \subseteq stale',
         rows[session[p]] = None => rows'[session[p]] = None,
         Sessions!Alone(p) =>
           \/ rows'[session[p]] = rows[session[p]] \/ rows'[session[p]] = None
           \/ rows'[session[p]].project = rows[session[p]].project
           \/ session[p] \in stale'
  PROVE  RowKept(p)'
<1> DEFINE s == session[p]
<1>1. SUFFICES ASSUME progress'[p] \in Bound, Sessions!Alone(p)', rows'[s] # None, s \notin stale'
               PROVE  rows'[s].project = p
  BY DEF RowKept, Sessions!Exists
<1>2. s # None
  BY <1>1, SessionAssumption DEF SessionInv, RunFits, Sessions!TypeOK, Sessions!SessionIds, Bound
<1>3. Sessions!Alone(p)
  BY <1>1, <1>2, AloneBefore
<1>4. rows[s].project = p
  BY <1>1, <1>3 DEF SessionInv, RowKept, Sessions!Exists
<1> QED
  BY <1>1, <1>3, <1>4

(* A run changes its own progress, session and copy of the row.            *)
LEMMA RunSteps ==
  ASSUME SessionInv, NEW p \in Runs,
         \/ Sessions!FindSession(p) \/ Sessions!KeepSession(p) \/ Sessions!Create(p)
         \/ Sessions!BindProject(p) \/ Sessions!PlanProject(p) \/ Sessions!EndPlanning(p)
         \/ Sessions!RunTask(p) \/ Sessions!Complete(p) \/ Sessions!Crash(p)
  PROVE  SessionInv'
<1>1. /\ rows \in [Sessions!SessionIds -> Sessions!Rows \cup {None}]
      /\ contexts \in [Sessions!SessionIds -> Runs \cup {None}]
      /\ progress \in [Runs -> Sessions!Stages] /\ session \in [Runs -> Sessions!SessionIds \cup {None}]
      /\ cached \in [Runs -> Sessions!Rows \cup {None}] /\ created \in 0 .. MaxSessions
      /\ RunFits(p)
      /\ kept \subseteq Runs /\ stale \subseteq Sessions!SessionIds
  BY DEF SessionInv, Sessions!TypeOK
<1>2. UNCHANGED <<handler, stale>>
  BY DEF Sessions!FindSession, Sessions!KeepSession, Sessions!Create, Sessions!BindProject,
    Sessions!PlanProject, Sessions!EndPlanning, Sessions!RunTask, Sessions!Complete, Sessions!Crash
<1>3. \A s : Sessions!Deleting(s)' <=> Sessions!Deleting(s)
  BY <1>2 DEF Sessions!Deleting
<1>4. \A h \in Handlers : HandlerFits(h)'
  BY <1>2 DEF SessionInv, HandlerFits
<1>5. CASE Sessions!FindSession(p) \/ Sessions!Create(p)
  <2>1. PICK reached \in {"keeping", "creating", "found"}, s \in Sessions!SessionIds \cup {None},
             row \in Sessions!Rows \cup {None} :
          /\ progress' = [progress EXCEPT ![p] = reached] /\ session' = [session EXCEPT ![p] = s]
          /\ cached' = [cached EXCEPT ![p] = row]
          /\ reached = "creating" => s = None
          /\ reached # "creating" => s \in 1 .. created' /\ row \in Sessions!Rows
    <3>1. CASE Sessions!FindSession(p)
      <4>1. CASE \E s \in Sessions!SessionIds : Sessions!Active(s) /\ Sessions!Enter(p, "keeping", s, rows[s])
        <5>1. PICK s \in Sessions!SessionIds : Sessions!Active(s) /\ Sessions!Enter(p, "keeping", s, rows[s])
          BY <4>1
        <5>2. rows[s] \in Sessions!Rows /\ s \in 1 .. created'
          BY <1>1, <3>1, <5>1 DEF Sessions!Active, Sessions!Exists, SessionInv, Sessions!SessionIds,
            Sessions!FindSession
        <5> QED
          BY <5>1, <5>2 DEF Sessions!Enter
      <4>2. CASE /\ progress' = [progress EXCEPT ![p] = "creating"]
                 /\ UNCHANGED <<session, cached>>
        <5>1. session[p] = None
          BY <1>1, <3>1 DEF RunFits, Sessions!FindSession
        <5>2. session' = [session EXCEPT ![p] = None] /\ cached' = [cached EXCEPT ![p] = cached[p]]
          BY <1>1, <4>2, <5>1
        <5> QED
          BY <1>1, <4>2, <5>2
      <4> QED
        BY <3>1, <4>1, <4>2 DEF Sessions!FindSession
    <3>2. CASE Sessions!Create(p)
      <4>1. created' \in Sessions!SessionIds /\ created' \in 1 .. created' /\ Sessions!NewRow \in Sessions!Rows
        BY <1>1, <3>2, SessionAssumption DEF Sessions!Create, Sessions!SessionIds, Sessions!NewRow,
          Sessions!Rows, Sessions!Statuses
      <4> QED
        BY <3>2, <4>1 DEF Sessions!Create, Sessions!Enter
    <3> QED
      BY <1>5, <3>1, <3>2
  <2>2. /\ progress' \in [Runs -> Sessions!Stages] /\ session' \in [Runs -> Sessions!SessionIds \cup {None}]
        /\ cached' \in [Runs -> Sessions!Rows \cup {None}]
        /\ progress'[p] = reached /\ session'[p] = s /\ cached'[p] = row
        /\ \A q \in Runs : q # p => /\ progress'[q] = progress[q] /\ session'[q] = session[q]
                                    /\ cached'[q] = cached[q]
    BY <1>1, <2>1 DEF Sessions!Stages
  <2>3. progress[p] \in {"start", "creating"} /\ session[p] = None
    BY <1>1, <1>5 DEF RunFits, Sessions!FindSession, Sessions!Create
  <2>4. /\ contexts' = contexts /\ kept' = kept /\ created' \in created .. MaxSessions
        /\ rows' \in [Sessions!SessionIds -> Sessions!Rows \cup {None}]
        /\ \A t \in Sessions!SessionIds : t \in 1 .. created => rows'[t] = rows[t]
        /\ \A t \in Sessions!SessionIds : t > created' => rows'[t] = None
    <3>1. CASE Sessions!FindSession(p)
      BY <1>1, <3>1 DEF SessionInv, Sessions!FindSession
    <3>2. CASE Sessions!Create(p)
      <4>1. created' = created + 1 /\ created' \in created .. MaxSessions
        BY <1>1, <3>2, SessionAssumption DEF Sessions!Create
      <4>2. created' \in Sessions!SessionIds /\ Sessions!NewRow \in Sessions!Rows
        BY <1>1, <4>1 DEF Sessions!SessionIds, Sessions!NewRow, Sessions!Rows, Sessions!Statuses
      <4>3. rows' = [rows EXCEPT ![created'] = Sessions!NewRow] /\ contexts' = contexts /\ kept' = kept
        BY <3>2 DEF Sessions!Create
      <4> QED
        BY <1>1, <4>1, <4>2, <4>3 DEF SessionInv, Sessions!SessionIds
    <3> QED
      BY <1>5, <3>1, <3>2
  <2>5. \A q \in Runs : RunFits(q)'
    <3>1. RunFits(p)'
      BY <1>1, <2>1, <2>2, <2>3, <2>4 DEF RunFits
    <3>2. ASSUME NEW q \in Runs, q # p PROVE RunFits(q)'
      <4>1. RunFits(q)
        BY DEF SessionInv
      <4> QED
        BY <1>1, <2>2, <2>4, <3>2, <4>1 DEF RunFits
    <3> QED
      BY <3>1, <3>2
  <2>6. ASSUME NEW q \in Runs PROVE ContextKept(q)' /\ RowKept(q)'
    <3>1. CASE q = p
      <4>1. q \notin kept' /\ progress'[q] \notin Bound
        BY <1>1, <2>1, <2>2, <2>3, <2>4, <3>1 DEF RunFits, Bound
      <4> QED
        BY <4>1 DEF ContextKept, RowKept
    <3>2. CASE q # p /\ progress[q] \in {"start", "creating"}
      <4>1. q \notin kept' /\ progress'[q] \notin Bound
        BY <2>2, <2>4, <3>2 DEF SessionInv, RunFits, Bound
      <4> QED
        BY <4>1 DEF ContextKept, RowKept
    <3>3. CASE q # p /\ progress[q] \notin {"start", "creating"}
      <4>1. RunFits(q)
        BY DEF SessionInv
      <4>2. session[q] \in 1 .. created /\ session[q] \in Sessions!SessionIds
        BY <1>1, <3>3, <4>1, SessionAssumption DEF RunFits, Sessions!SessionIds
      <4>3. rows'[session[q]] = rows[session[q]]
        BY <2>4, <4>2
      <4>4. progress'[q] = progress[q] /\ session'[q] = session[q]
            /\ \A r \in Runs : session'[r] = session[r] \/ session[r] = None
        BY <2>2, <2>3, <3>3
      <4> QED
        BY <1>2, <1>3, <2>4, <4>3, <4>4, ContextStays, RowStays
    <3> QED
      BY <3>1, <3>2, <3>3
  <2>7. Sessions!TypeOK'
    BY <1>1, <1>2, <2>2, <2>4 DEF SessionInv, Sessions!TypeOK
  <2> QED
    BY <1>2, <1>4, <2>4, <2>5, <2>6, <2>7 DEF SessionInv
<1>6. CASE \/ Sessions!KeepSession(p) \/ Sessions!BindProject(p) \/ Sessions!PlanProject(p)
           \/ Sessions!EndPlanning(p) \/ Sessions!RunTask(p) \/ Sessions!Complete(p) \/ Sessions!Crash(p)
  <2> DEFINE s == session[p]
  <2>1. /\ progress[p] \in {"keeping", "found", "bound", "ready", "planned"}
        /\ UNCHANGED <<session, created>>
    BY <1>6 DEF Sessions!KeepSession, Sessions!BindProject, Sessions!PlanProject, Sessions!EndPlanning,
      Sessions!RunTask, Sessions!Complete, Sessions!Crash
  <2>2. s \in 1 .. created /\ s \in Sessions!SessionIds /\ cached[p] \in Sessions!Rows
    BY <1>1, <2>1, SessionAssumption DEF RunFits, Sessions!SessionIds
  <2>3. PICK row \in Sessions!Rows :
          /\ Sessions!UpdateSession(s, row) \/ UNCHANGED rows
          /\ Sessions!BindProject(p) => Sessions!UpdateSession(s, row) /\ row.project = p
    <3>1. CASE Sessions!KeepSession(p)
      BY <2>2, <3>1 DEF Sessions!KeepSession, Sessions!BindProject
    <3>2. CASE Sessions!BindProject(p)
      <4>1. /\ [cached[p] EXCEPT !.project = p] \in Sessions!Rows
            /\ [cached[p] EXCEPT !.project = p].project = p
        BY <2>2 DEF Sessions!Rows
      <4> QED
        BY <3>2, <4>1 DEF Sessions!BindProject
    <3>3. CASE Sessions!Complete(p) /\ ~ Sessions!BindProject(p)
      <4>1. [cached[p] EXCEPT !.status = "COMPLETED"] \in Sessions!Rows
        BY <2>2 DEF Sessions!Rows, Sessions!Statuses
      <4> QED
        BY <3>3, <4>1 DEF Sessions!Complete
    <3>4. CASE /\ Sessions!PlanProject(p) \/ Sessions!EndPlanning(p) \/ Sessions!RunTask(p) \/ Sessions!Crash(p)
               /\ ~ Sessions!BindProject(p)
      BY <2>2, <3>4 DEF Sessions!PlanProject, Sessions!EndPlanning, Sessions!RunTask, Sessions!Crash
    <3> QED
      BY <1>6, <3>1, <3>2, <3>3, <3>4
  <2>4. /\ rows' \in [Sessions!SessionIds -> Sessions!Rows \cup {None}]
        /\ \A t \in Sessions!SessionIds : rows'[t] = None <=> rows[t] = None
        /\ \A t \in Sessions!SessionIds : t # s => rows'[t] = rows[t]
    BY <1>1, <2>2, <2>3, UpdateKeepsRows
  <2>5. cached' \in [Runs -> Sessions!Rows \cup {None}] /\ cached'[p] \in Sessions!Rows
        /\ \A q \in Runs : q # p => cached'[q] = cached[q]
    <3>1. CASE Sessions!BindProject(p)
      <4>1. [cached[p] EXCEPT !.project = p] \in Sessions!Rows
        BY <2>2 DEF Sessions!Rows
      <4> QED
        BY <1>1, <3>1, <4>1 DEF Sessions!BindProject
    <3>2. CASE ~ Sessions!BindProject(p)
      <4>1. UNCHANGED cached
        BY <1>6, <3>2 DEF Sessions!KeepSession, Sessions!PlanProject, Sessions!EndPlanning,
          Sessions!RunTask, Sessions!Complete, Sessions!Crash
      <4> QED
        BY <1>1, <2>2, <4>1
    <3> QED
      BY <3>1, <3>2
  <2>6. PICK reached \in {"found", "bound", "ready", "planned", "done", "lost", "crashed"} :
          /\ progress' = [progress EXCEPT ![p] = reached]
          /\ reached \in Bound => (progress[p] \in Bound /\ UNCHANGED rows) \/ Sessions!BindProject(p)
          /\ progress[p] \in {"planned", "done", "crashed"} => reached \in {"planned", "done", "crashed"}
    <3>1. CASE Sessions!RunTask(p)
      <4>1. progress' = [progress EXCEPT ![p] = "planned"] /\ progress[p] = "planned" /\ UNCHANGED rows
        BY <1>1, <3>1 DEF Sessions!RunTask
      <4> QED
        BY <4>1 DEF Bound
    <3>2. CASE Sessions!Crash(p)
      BY <3>2 DEF Sessions!Crash, Bound
    <3>3. CASE \/ Sessions!KeepSession(p) \/ Sessions!BindProject(p) \/ Sessions!PlanProject(p)
               \/ Sessions!EndPlanning(p) \/ Sessions!Complete(p)
      BY <3>3 DEF Sessions!KeepSession, Sessions!BindProject, Sessions!PlanProject, Sessions!EndPlanning,
        Sessions!Complete, Bound
    <3> QED
      BY <1>6, <3>1, <3>2, <3>3
  <2>7. /\ progress' \in [Runs -> Sessions!Stages] /\ progress'[p] = reached
        /\ \A q \in Runs : q # p => progress'[q] = progress[q]
    BY <1>1, <2>6 DEF Sessions!Stages
  <2>8. \/ contexts' = contexts /\ kept' = kept
        \/ /\ contexts' = [contexts EXCEPT ![s] = p] /\ kept' = kept \cup {p}
           /\ reached = "planned"
    <3>1. CASE Sessions!EndPlanning(p) \/ Sessions!RunTask(p)
      <4>1. reached = "planned"
        BY <1>1, <2>7, <3>1 DEF Sessions!EndPlanning, Sessions!RunTask
      <4> QED
        BY <3>1, <4>1 DEF Sessions!EndPlanning, Sessions!RunTask, Sessions!saveSessionContext
    <3>2. CASE \/ Sessions!KeepSession(p) \/ Sessions!BindProject(p) \/ Sessions!PlanProject(p)
               \/ Sessions!Complete(p) \/ Sessions!Crash(p)
      BY <3>2 DEF Sessions!KeepSession, Sessions!BindProject, Sessions!PlanProject, Sessions!Complete,
        Sessions!Crash
    <3> QED
      BY <1>6, <3>1, <3>2
  <2>9. contexts' \in [Sessions!SessionIds -> Runs \cup {None}] /\ kept' \subseteq Runs
    BY <1>1, <2>8
  <2>10. \A q \in Runs : RunFits(q)'
    <3>1. RunFits(p)'
      BY <1>1, <2>1, <2>2, <2>5, <2>6, <2>7, <2>8 DEF RunFits
    <3>2. ASSUME NEW q \in Runs, q # p PROVE RunFits(q)'
      <4>1. RunFits(q)
        BY DEF SessionInv
      <4> QED
        BY <2>1, <2>5, <2>7, <2>8, <3>2, <4>1 DEF RunFits
    <3> QED
      BY <3>1, <3>2
  <2>11. ASSUME NEW q \in Runs, progress[q] \in {"start", "creating"} PROVE ContextKept(q)' /\ RowKept(q)'
    <3>1. q # p
      BY <2>1, <2>11
    <3>2. q \notin kept' /\ progress'[q] \notin Bound
      BY <2>7, <2>8, <2>11, <3>1 DEF SessionInv, RunFits, Bound
    <3> QED
      BY <3>2 DEF ContextKept, RowKept
  <2>12. ASSUME NEW q \in Runs, progress[q] \notin {"start", "creating"} PROVE ContextKept(q)'
    <3>1. session[q] \in Sessions!SessionIds
      BY <1>1, <2>12, SessionAssumption DEF SessionInv, RunFits, Sessions!SessionIds
    <3>2. CASE q = p /\ contexts' = [contexts EXCEPT ![s] = p]
      BY <1>1, <2>1, <2>2, <3>2 DEF ContextKept
    <3>3. CASE q = p /\ contexts' = contexts /\ kept' = kept
      BY <1>3, <2>1, <2>4, <3>1, <3>3, ContextStays
    <3>4. CASE q # p
      <4>1. q \in kept' => q \in kept
        BY <2>8, <3>4
      <4>2. Sessions!Alone(q) => contexts'[session[q]] = contexts[session[q]]
        BY <1>1, <2>2, <2>8, <3>1, <3>4 DEF Sessions!Alone
      <4> QED
        BY <1>3, <2>1, <2>4, <3>1, <4>1, <4>2, ContextStays
    <3> QED
      BY <2>8, <3>2, <3>3, <3>4
  <2>13. ASSUME NEW q \in Runs, progress[q] \notin {"start", "creating"} PROVE RowKept(q)'
    <3>1. session[q] \in Sessions!SessionIds
      BY <1>1, <2>13, SessionAssumption DEF SessionInv, RunFits, Sessions!SessionIds
    <3>2. CASE q = p /\ Sessions!BindProject(p)
      <4>1. rows'[s] # None => rows'[s] = row /\ row.project = p
        BY <1>1, <2>2, <2>3, <2>4, <3>2 DEF Sessions!UpdateSession, Sessions!Exists
      <4> QED
        BY <2>1, <3>2, <4>1 DEF RowKept, Sessions!Exists
    <3>3. CASE q = p /\ ~ Sessions!BindProject(p)
      <4>1. CASE progress'[q] \in Bound
        BY <1>2, <2>1, <2>6, <2>7, <3>1, <3>3, <4>1, RowStays
      <4>2. CASE progress'[q] \notin Bound
        BY <4>2 DEF RowKept
      <4> QED
        BY <4>1, <4>2
    <3>4. CASE q # p
      <4>1. Sessions!Alone(q) => rows'[session[q]] = rows[session[q]]
        BY <2>2, <2>4, <3>1, <3>4 DEF Sessions!Alone
      <4>2. progress'[q] = progress[q] /\ (rows[session[q]] = None => rows'[session[q]] = None)
        BY <2>4, <2>7, <3>1, <3>4
      <4> QED
        BY <1>2, <2>1, <4>1, <4>2, RowStays
    <3> QED
      BY <3>2, <3>3, <3>4
  <2>14. Sessions!TypeOK'
    BY <1>1, <1>2, <2>1, <2>4, <2>5, <2>7, <2>9 DEF SessionInv, Sessions!TypeOK
  <2> QED
    BY <1>2, <1>4, <2>1, <2>4, <2>10, <2>11, <2>12, <2>13, <2>14 DEF SessionInv
<1> QED
  BY <1>5, <1>6

(* A handler changes what it does and the row or, when it deletes, the     *)
(* context of its session; a row that loses its project is recorded.       *)
LEMMA HandlerSteps ==
  ASSUME SessionInv, NEW h \in Handlers, NEW new \in HandlerRecords,
         handler' = [handler EXCEPT ![h] = new],
         HandlerFits(h)',
         UNCHANGED <<progress, session, cached, kept, created>>,
         stale \subseteq stale', stale' \subseteq Sessions!SessionIds,
         rows' \in [Sessions!SessionIds -> Sessions!Rows \cup {None}],
         contexts' \in [Sessions!SessionIds -> Runs \cup {None}],
         \A s \in Sessions!SessionIds : rows[s] = None => rows'[s] = None,
         \A s \in Sessions!SessionIds :
           \/ rows'[s] = rows[s] \/ rows'[s] = None
           \/ rows'[s].project = rows[s].project \/ s \in stale',
         \A s \in Sessions!SessionIds :
           contexts'[s] = contexts[s] \/ (new.stage = "deleting" /\ new.session = s),
         handler[h].stage = "deleting" => rows'[handler[h].session] = None
  PROVE  SessionInv'
<1>1. /\ handler \in [Handlers -> HandlerRecords] /\ handler'[h] = new
      /\ handler' \in [Handlers -> HandlerRecords]
      /\ \A g \in Handlers : g # h => handler'[g] = handler[g]
  BY DEF SessionInv
<1>2. Sessions!TypeOK'
  <2>1. Sessions!TypeOK
    BY DEF SessionInv
  <2> QED
    BY <1>1, <2>1 DEF Sessions!TypeOK, HandlerRecords
<1>3. \A g \in Handlers : HandlerFits(g)'
  <2>1. ASSUME NEW g \in Handlers, g # h PROVE HandlerFits(g)'
    BY <1>1, <2>1 DEF SessionInv, HandlerFits
  <2> QED
    BY <2>1
<1>4. \A p \in Runs : RunFits(p)'
  BY DEF SessionInv, RunFits
<1>5. ASSUME NEW p \in Runs PROVE ContextKept(p)' /\ RowKept(p)'
  <2>1. CASE progress[p] \in {"start", "creating"}
    BY <1>4, <2>1 DEF ContextKept, RowKept, RunFits, Bound
  <2>2. CASE progress[p] \notin {"start", "creating"}
    <3>1. session[p] \in Sessions!SessionIds
      BY <2>2, SessionAssumption DEF SessionInv, RunFits, Sessions!TypeOK, Sessions!SessionIds
    <3>2. contexts'[session[p]] = contexts[session[p]] \/ Sessions!Deleting(session[p])'
      BY <1>1, <3>1 DEF Sessions!Deleting
    <3>3. ASSUME Sessions!Deleting(session[p])
          PROVE  Sessions!Deleting(session[p])' \/ rows'[session[p]] = None
      <4>1. PICK g \in Handlers : handler[g].stage = "deleting" /\ handler[g].session = session[p]
        BY <3>3 DEF Sessions!Deleting
      <4>2. CASE g = h
        BY <4>1, <4>2
      <4>3. CASE g # h
        BY <1>1, <4>1, <4>3 DEF Sessions!Deleting
      <4> QED
        BY <4>2, <4>3
    <3>4. ContextKept(p)'
      BY <3>1, <3>2, <3>3, ContextStays
    <3>5. RowKept(p)'
      BY <3>1, RowStays
    <3> QED
      BY <3>4, <3>5
  <2> QED
    BY <2>1, <2>2
<1> QED
  BY <1>1, <1>2, <1>3, <1>4, <1>5 DEF SessionInv

LEMMA ConsoleSteps ==
  ASSUME SessionInv, NEW h \in Handlers,
         \/ \E s \in Sessions!SessionIds :
              Sessions!DeleteContext(h, s)
              \/ \E to \in {"PAUSED", "ACTIVE", "EXPIRED"} : Sessions!ReadSession(h, s, to)
         \/ Sessions!WriteStatus(h) \/ Sessions!resumeSession(h) \/ Sessions!DeleteSession(h)
  PROVE  SessionInv'
<1>1. /\ handler \in [Handlers -> HandlerRecords] /\ HandlerFits(h)
      /\ rows \in [Sessions!SessionIds -> Sessions!Rows \cup {None}]
      /\ contexts \in [Sessions!SessionIds -> Runs \cup {None}]
      /\ stale \subseteq Sessions!SessionIds
  BY DEF SessionInv, Sessions!TypeOK
<1>2. Sessions!Free \in HandlerRecords /\ Sessions!Free.stage = "free"
  BY DEF Sessions!Free, HandlerRecords, Sessions!Statuses
<1>3. ASSUME NEW s \in Sessions!SessionIds, Sessions!DeleteContext(h, s) PROVE SessionInv'
  <2> DEFINE new == [Sessions!Free EXCEPT !.stage = "deleting", !.session = s]
  <2>1. /\ new \in HandlerRecords /\ new.stage = "deleting" /\ new.session = s
    BY DEF Sessions!Free, HandlerRecords, Sessions!Statuses
  <2>2. /\ handler[h].stage = "free" /\ handler' = [handler EXCEPT ![h] = new]
        /\ contexts' = [contexts EXCEPT ![s] = None]
        /\ UNCHANGED <<rows, progress, session, cached, kept, stale, created>>
    BY <1>3 DEF Sessions!DeleteContext
  <2> HIDE DEF new
  <2>3. HandlerFits(h)'
    BY <1>1, <2>1, <2>2 DEF HandlerFits
  <2> QED
    BY <1>1, <2>1, <2>2, <2>3, HandlerSteps
<1>4. ASSUME NEW s \in Sessions!SessionIds, NEW to \in {"PAUSED", "ACTIVE", "EXPIRED"},
             Sessions!ReadSession(h, s, to)
      PROVE  SessionInv'
  <2> DEFINE new == [stage |-> "read", session |-> s, row |-> rows[s], to |-> to]
  <2>1. handler[h].stage = "free" /\ rows[s] \in Sessions!Rows
    BY <1>1, <1>4 DEF Sessions!ReadSession, Sessions!Exists
  <2>2. new \in HandlerRecords /\ new.stage = "read" /\ new.session = s /\ new.row = rows[s]
    BY <2>1 DEF HandlerRecords, Sessions!Statuses
  <2>3. /\ handler' = [handler EXCEPT ![h] = new]
        /\ UNCHANGED <<rows, contexts, progress, session, cached, kept, stale, created>>
    BY <1>4 DEF Sessions!ReadSession
  <2> HIDE DEF new
  <2>4. HandlerFits(h)'
    BY <1>1, <2>1, <2>2, <2>3 DEF HandlerFits
  <2> QED
    BY <1>1, <2>1, <2>2, <2>3, <2>4, HandlerSteps
<1>5. CASE Sessions!WriteStatus(h)
  <2> DEFINE s == handler[h].session
             row == [handler[h].row EXCEPT !.status = handler[h].to]
             resume == [handler[h] EXCEPT !.stage = "resume"]
  <2>1. /\ handler[h].stage \in {"read", "resuming"} /\ Sessions!UpdateSession(s, row)
        /\ handler' = [handler EXCEPT ![h] = IF handler[h].stage = "read" /\ handler[h].to = "ACTIVE"
                                             THEN resume ELSE Sessions!Free]
        /\ UNCHANGED <<contexts, progress, session, cached, kept, created>>
    BY <1>1, <1>5 DEF Sessions!WriteStatus
  <2>2. row \in Sessions!Rows /\ s \in Sessions!SessionIds /\ row.project = handler[h].row.project
    BY <1>1, <2>1 DEF HandlerFits, HandlerRecords, Sessions!Rows
  <2>3. /\ rows' \in [Sessions!SessionIds -> Sessions!Rows \cup {None}]
        /\ \A t \in Sessions!SessionIds : rows'[t] = None <=> rows[t] = None
        /\ \A t \in Sessions!SessionIds : t # s => rows'[t] = rows[t]
    BY <1>1, <2>1, <2>2, UpdateKeepsRows
  <2>4. /\ stale' = IF Sessions!Exists(s) /\ row.project # rows[s].project THEN stale \cup {s} ELSE stale
        /\ stale \subseteq stale' /\ stale' \subseteq Sessions!SessionIds
    BY <1>1, <1>5, <2>2 DEF Sessions!WriteStatus
  <2>5. rows'[s] = None \/ rows'[s].project = rows[s].project \/ s \in stale'
    BY <1>1, <2>1, <2>2, <2>3, <2>4 DEF Sessions!UpdateSession, Sessions!Exists
  <2>6. resume \in HandlerRecords /\ resume.stage = "resume" /\ resume.session = s
    BY <1>1, <2>2 DEF HandlerRecords
  <2>7. PICK new \in {resume, Sessions!Free} : handler' = [handler EXCEPT ![h] = new]
    BY <2>1
  <2>8. new \in HandlerRecords /\ HandlerFits(h)'
    BY <1>1, <1>2, <2>2, <2>6, <2>7 DEF HandlerFits
  <2>9. \A t \in Sessions!SessionIds :
          \/ rows'[t] = rows[t] \/ rows'[t] = None
          \/ rows'[t].project = rows[t].project \/ t \in stale'
    BY <2>3, <2>5
  <2>10. /\ handler[h].stage # "deleting" /\ contexts' \in [Sessions!SessionIds -> Runs \cup {None}]
         /\ \A t \in Sessions!SessionIds : contexts'[t] = contexts[t] /\ (rows[t] = None => rows'[t] = None)
         /\ UNCHANGED <<progress, session, cached, kept, created>>
    BY <1>1, <2>1, <2>3
  <2> HIDE DEF resume, row, s
  <2> QED
    BY ONLY SessionInv, <2>3, <2>4, <2>7, <2>8, <2>9, <2>10, HandlerSteps
<1>6. CASE Sessions!resumeSession(h)
  <2> DEFINE s == handler[h].session
             again == [handler[h] EXCEPT !.stage = "resuming", !.row = rows[s]]
  <2>1. /\ handler[h].stage = "resume"
        /\ handler' = [handler EXCEPT ![h] = IF Sessions!Resumable(s) THEN again ELSE Sessions!Free]
        /\ UNCHANGED <<rows, contexts, progress, session, cached, kept, stale, created>>
    BY <1>1, <1>6 DEF Sessions!resumeSession
  <2>2. s \in Sessions!SessionIds
    BY <1>1, <2>1 DEF HandlerFits
  <2>3. Sessions!Resumable(s) =>
          again \in HandlerRecords /\ again.session = s /\ again.row \in Sessions!Rows /\ again.stage = "resuming"
    BY <1>1, <2>2 DEF HandlerRecords, Sessions!Resumable, Sessions!Exists
  <2>4. PICK new \in HandlerRecords :
          /\ handler' = [handler EXCEPT ![h] = new]
          /\ \/ new.stage = "free"
             \/ new.session = s /\ new.row \in Sessions!Rows /\ new.stage = "resuming"
    BY <1>2, <2>1, <2>3
  <2>5. HandlerFits(h)'
    BY <1>1, <2>2, <2>4 DEF HandlerFits
  <2> HIDE DEF again
  <2> QED
    BY <1>1, <2>1, <2>4, <2>5, HandlerSteps
<1>7. CASE Sessions!DeleteSession(h)
  <2>1. /\ handler[h].stage = "deleting" /\ handler' = [handler EXCEPT ![h] = Sessions!Free]
        /\ rows' = [rows EXCEPT ![handler[h].session] = None]
        /\ UNCHANGED <<contexts, progress, session, cached, kept, stale, created>>
    BY <1>7 DEF Sessions!DeleteSession
  <2>2. handler[h].session \in Sessions!SessionIds
    BY <1>1, <2>1 DEF HandlerFits
  <2>3. HandlerFits(h)'
    BY <1>1, <1>2, <2>1 DEF HandlerFits
  <2> QED
    BY <1>1, <1>2, <2>1, <2>2, <2>3, HandlerSteps
<1> QED
  BY <1>3, <1>4, <1>5, <1>6, <1>7

LEMMA SessionNext == SessionInv /\ (Sessions!Next \/ UNCHANGED sessionVars) => SessionInv'
<1>1. ASSUME SessionInv, Sessions!Next PROVE SessionInv'
  BY <1>1, RunSteps, ConsoleSteps DEF Sessions!Next
<1>2. ASSUME SessionInv, UNCHANGED sessionVars PROVE SessionInv'
  BY <1>2 DEF SessionInv, sessionVars, Sessions!TypeOK, HandlerFits, RunFits, ContextKept, RowKept,
    Sessions!Alone, Sessions!Exists, Sessions!Deleting
<1> QED
  BY <1>1, <1>2

LEMMA SessionInvariance == Spec => []SessionInv
<1>1. SessionInv /\ [Next]_vars => SessionInv'
  BY StepOfOne, SessionNext
<1> QED
  BY <1>1, SessionInit, PTL DEF Spec

(* For any number of runs and handlers, whatever rows they write over each *)
(* other: a run that crashes with tasks READY can be resumed from its own  *)
(* session, unless a handler took the project from the row and the context *)
(* was not saved (PlanProject, saveSessionContext, setSessionStatus).      *)
THEOREM CrashedWorkResumes == Spec => []CrashedWorkIsResumable
<1>1. SessionInv => CrashedWorkIsResumable
  BY DEF SessionInv, ContextKept, RowKept, Bound, CrashedWorkIsResumable, Sessions!CrashedWorkIsResumable
<1> QED
  BY <1>1, SessionInvariance, PTL

-----------------------------------------------------------------------------
(* The work on one task                                                    *)

(* The status of the task at each place of the pipeline; a repair may have *)
(* closed a task whose pipeline has yet to close the attempt.              *)
StatusAt(p) ==
  CASE p \in {"claimed", "loop", "finish"} -> {"IN_PROGRESS"}
    [] p = "failing" -> {"FAILED", "DONE"}
    [] p = "asking" -> {"NEED_USER_INPUT"}
    [] p = "test" -> {"IMPLEMENTED"}
    [] p = "testing" -> {"TESTING"}
    [] p = "review" -> {"REVIEWING"}
    [] p = "rejecting" -> {"REVIEW_FAILED", "DONE"}
    [] p = "approving" -> {"DONE"}
    [] p = "rest" -> Work!Status

(* The executor and the tester read the same rows: nothing is added to     *)
(* them between the finish and the test, nor after a verdict, until the    *)
(* next attempt starts with none.                                          *)
FinishedFor == Work!autoFinishSummary(events) \/ Work!finishEvidenceReady(events)

Excused ==
  \/ Work!autoFinishSummary(events)
  \/ Work!taskRequiresResearchEvidence \/ task.required # {}
  \/ \E e \in events : e.result = "lost"

WorkInv ==
  /\ Work!TypeOK /\ status \in StatusAt(place)
  /\ place \in {"loop", "finish", "failing", "asking", "test", "testing"} => verdict = "none"
  /\ place \in {"finish", "test", "testing"} => FinishedFor
  /\ place \in {"test", "testing"} => finished
  /\ verdict = "passed" => finished /\ Work!genericEvidence
  /\ verdict = "failed" => Excused
  /\ place \in {"review", "rejecting", "approving"} => verdict = "passed"
  /\ status = "DONE" /\ ~repaired => verdict = "passed"

LEMMA WorkInit == Init => WorkInv
<1> SUFFICES ASSUME Init PROVE WorkInv
  OBVIOUS
<1>1. Work!Init
  BY DEF Init
<1>2. Work!TypeOK
  <2>1. tried = << >> /\ DOMAIN << >> = {}
    BY <1>1 DEF Work!Init
  <2>2. task \in Work!TaskTexts /\ step \in 1 .. MaxSteps + 1
    BY <1>1, WorkAssumption DEF Work!Init
  <2> QED
    BY <1>1, <2>1, <2>2 DEF Work!Init, Work!TypeOK, Work!Status, Work!Places
<1> QED
  BY <1>1, <1>2 DEF Work!Init, WorkInv, StatusAt, Work!Status

(* What the rules say does not depend on what else the pipeline does.      *)
LEMMA RulesStay ==
  ASSUME UNCHANGED <<task, events>>
  PROVE  /\ FinishedFor' <=> FinishedFor
         /\ Excused' <=> Excused
         /\ finished' = finished => (Work!genericEvidence' <=> Work!genericEvidence)
         /\ Work!autoFinishSummary(events)' <=> Work!autoFinishSummary(events)
<1>1. /\ \A w : Work!Says(w)' <=> Work!Says(w)
      /\ \A t : Work!Did(events, t)' <=> Work!Did(events, t)
      /\ \A t : Work!DidWell(events, t)' <=> Work!DidWell(events, t)
      /\ Work!Rows' = Work!Rows
  BY DEF Work!Says, Work!Did, Work!DidWell, Work!Rows
<1>2. Work!autoFinishSummary(events)' <=> Work!autoFinishSummary(events)
  BY DEF Work!autoFinishSummary, Work!taskNeedsBrowserRead, Work!taskNeedsGeneratedText, Work!hasBrowserRead,
    Work!browserInteractionMissing, Work!taskNeedsReadOnly, Work!taskNeedsEvidenceReport,
    Work!taskNeedsCodeChange, Work!taskNeedsPassingTest, Work!taskNeedsMechanicalVerification,
    Work!taskNeedsDiagnosticTestRun, Work!taskNeedsSourceRead, Work!Says, Work!Did, Work!DidWell
<1>3. Work!finishEvidenceReady(events)' <=> Work!finishEvidenceReady(events)
  BY DEF Work!finishEvidenceReady, Work!taskNeedsDiagnosticTestRun, Work!taskNeedsPassingTest,
    Work!taskNeedsBrowserRead, Work!hasBrowserRead, Work!browserInteractionMissing,
    Work!hasResearchEvidence, Work!taskNeedsSourceRead, Work!Says, Work!Did, Work!DidWell,
    Work!isResearchEvidenceTool
<1>4. finished' = finished => (Work!genericEvidence' <=> Work!genericEvidence)
  BY DEF Work!genericEvidence, Work!taskRequiresDiagnosticTestRun, Work!hasTestRun,
    Work!taskRequiresResearchEvidence, Work!requiredFileEvidence, Work!hasResearchEvidence, Work!Rows,
    Work!Says, Work!Did, Work!DidWell, Work!isResearchEvidenceTool
<1>5. Excused' <=> Excused
  BY <1>2 DEF Excused, Work!taskRequiresResearchEvidence, Work!Says
<1> QED
  BY <1>2, <1>3, <1>4, <1>5 DEF FinishedFor

(* The tester's rules ask nothing of a task without research or file names *)
(* that the executor's own do not, when every call has its audit row.      *)
LEMMA TesterAsksNoMore ==
  ASSUME finished, FinishedFor, ~ Work!genericEvidence
  PROVE  Excused
<1>1. SUFFICES ASSUME ~ Excused PROVE FALSE
  OBVIOUS
<1>2. Work!finishEvidenceReady(events) /\ ~ Work!taskRequiresResearchEvidence /\ task.required = {}
  BY <1>1 DEF FinishedFor, Excused
<1>3. Work!Rows = events
  BY <1>1 DEF Excused, Work!Rows
<1>4. Work!requiredFileEvidence
  BY <1>2 DEF Work!requiredFileEvidence
<1>5. /\ Work!Says("passing") => Work!DidWell(events, "test.run")
      /\ Work!taskRequiresDiagnosticTestRun => Work!Did(events, "test.run")
      /\ (\E e \in events : e.result = "ok") \/ (Work!taskRequiresDiagnosticTestRun /\ Work!Did(events, "test.run"))
  BY <1>2 DEF Work!finishEvidenceReady, Work!taskRequiresDiagnosticTestRun,
    Work!taskNeedsDiagnosticTestRun, Work!taskNeedsPassingTest
<1>6. Work!genericEvidence
  BY <1>2, <1>3, <1>4, <1>5 DEF Work!genericEvidence, Work!hasTestRun
<1> QED
  BY <1>6

LEMMA NamedFile ==
  ASSUME Work!TypeOK, NEW f \in Work!Files, NEW bare \in BOOLEAN
  PROVE  Work!normalizeActionArgsForTask(f, bare) \in Work!Files
<1>1. task.placed \in SUBSET Work!Files
  BY DEF Work!TypeOK, Work!TaskTexts
<1>2. CASE Work!Cardinality(task.placed) = 1
  <2>1. Work!Cardinality(task.placed) = Cardinality(task.placed)
    BY DEF Work!Cardinality, Cardinality, Work!IsFiniteSet, IsFiniteSet
  <2>2. task.placed # {}
    BY <1>2, <2>1, FS_EmptySet
  <2>3. (CHOOSE p \in task.placed : TRUE) \in task.placed
    BY <2>2
  <2> QED
    BY <1>1, <2>3 DEF Work!normalizeActionArgsForTask
<1>3. CASE Work!Cardinality(task.placed) # 1
  BY <1>3 DEF Work!normalizeActionArgsForTask
<1> QED
  BY <1>2, <1>3

(* In the loop: a step is counted, a call recorded, or the loop is left.   *)
LEMMA LoopStep ==
  ASSUME WorkInv, place = "loop",
         \/ Work!AutoFinish \/ Work!ChooseFinish \/ Work!Unsupported \/ Work!AskUser \/ Work!Fail
         \/ \E f \in Work!Fingerprints : Work!RejectRepeated(f)
         \/ \E t \in Work!Tools : Work!Tool(t)
  PROVE  WorkInv'
<1>1. Work!TypeOK /\ verdict = "none" /\ status = "IN_PROGRESS"
  BY DEF WorkInv, StatusAt
<1>2. UNCHANGED <<task, attempt, finished, verdict, repaired>>
  BY DEF Work!AutoFinish, Work!ChooseFinish, Work!Unsupported, Work!AskUser, Work!Fail,
    Work!RejectRepeated, Work!Tool, Work!CallTool
<1>3. events' \subseteq Work!Calls
  <2>1. CASE \E t \in Work!Tools : Work!Tool(t)
    <3>1. PICK t \in Work!Tools, f \in Work!Files, bare \in BOOLEAN, outcome \in {"ok", "failed", "lost"} :
            Work!CallTool(t, IF t \in Work!FileTools /\ task.required # {}
                             THEN Work!normalizeActionArgsForTask(f, bare) ELSE Work!NoFile, outcome)
      BY <2>1 DEF Work!Tool
    <3>2. PICK file_ \in Work!Files \cup {Work!NoFile} : Work!CallTool(t, file_, outcome)
      BY <1>1, <3>1, NamedFile
    <3>3. [tool |-> t, file |-> file_, result |-> outcome] \in Work!Calls
      BY DEF Work!Calls
    <3>4. events' = events \cup {[tool |-> t, file |-> file_, result |-> outcome]}
      BY <3>2 DEF Work!CallTool
    <3> QED
      BY <1>1, <3>3, <3>4 DEF Work!TypeOK
  <2>2. CASE ~ \E t \in Work!Tools : Work!Tool(t)
    BY <1>1, <2>2 DEF Work!TypeOK, Work!AutoFinish, Work!ChooseFinish, Work!Unsupported, Work!AskUser,
      Work!Fail, Work!RejectRepeated
  <2> QED
    BY <2>1, <2>2
<1>4. \/ /\ place' = "loop" /\ status' = status
         /\ \E f \in Work!Fingerprints : Work!Try(f)
         /\ step <= MaxSteps
      \/ /\ place' \in {"finish", "asking", "failing"} /\ status' \in StatusAt(place') /\ status' # "DONE"
         /\ step' = 1 /\ tried' = << >>
         /\ place' = "finish" => FinishedFor'
  <2>1. CASE Work!AutoFinish
    <3>1. Work!autoFinishSummary(events)'
      BY <2>1, RulesStay DEF Work!AutoFinish
    <3> QED
      BY <1>1, <2>1, <3>1 DEF Work!AutoFinish, Work!Leave, StatusAt, FinishedFor
  <2>2. CASE Work!ChooseFinish
    <3>1. <<"finish", Work!NoFile>> \in Work!Fingerprints
      BY DEF Work!Fingerprints
    <3>2. CASE Work!finishEvidenceReady(events) /\ Work!Leave("finish")
      <4>1. FinishedFor'
        BY <2>2, <3>2, RulesStay DEF Work!ChooseFinish, FinishedFor
      <4> QED
        BY <1>1, <2>2, <3>2, <4>1 DEF Work!ChooseFinish, Work!Leave, StatusAt
    <3>3. CASE Work!Try(<<"finish", Work!NoFile>>) /\ UNCHANGED place
      BY <2>2, <3>1, <3>3 DEF Work!ChooseFinish, Work!Choosing, Work!Looping
    <3> QED
      BY <2>2, <3>2, <3>3 DEF Work!ChooseFinish
  <2>3. CASE Work!Unsupported
    <3>1. <<"unknown", Work!NoFile>> \in Work!Fingerprints
      BY DEF Work!Fingerprints
    <3> QED
      BY <2>3, <3>1 DEF Work!Unsupported, Work!Choosing, Work!Looping
  <2>4. CASE Work!AskUser
    BY <2>4 DEF Work!AskUser, Work!Leave, Work!Transition, StatusAt
  <2>5. CASE Work!Fail
    BY <2>5 DEF Work!Fail, Work!Leave, Work!Transition, StatusAt
  <2>6. CASE \E f \in Work!Fingerprints : Work!RejectRepeated(f)
    BY <2>6 DEF Work!RejectRepeated, Work!Choosing, Work!Looping
  <2>7. CASE \E t \in Work!Tools : Work!Tool(t)
    <3>1. PICK t \in Work!Tools, f \in Work!Files, bare \in BOOLEAN, outcome \in {"ok", "failed", "lost"} :
            Work!CallTool(t, IF t \in Work!FileTools /\ task.required # {}
                             THEN Work!normalizeActionArgsForTask(f, bare) ELSE Work!NoFile, outcome)
      BY <2>7 DEF Work!Tool
    <3>2. PICK file_ \in Work!Files \cup {Work!NoFile} : Work!CallTool(t, file_, outcome)
      BY <1>1, <3>1, NamedFile
    <3> DEFINE E == events \cup {[tool |-> t, file |-> file_, result |-> outcome]}
    <3>3. events' = E /\ UNCHANGED <<task, status>> /\ Work!Choosing
      BY <3>2 DEF Work!CallTool
    <3>4. CASE outcome = "ok" /\ Work!autoFinishSummary(E) /\ Work!Leave("finish")
      <4>1. Work!autoFinishSummary(events)' <=> Work!autoFinishSummary(E)
        BY <3>3 DEF Work!autoFinishSummary, Work!taskNeedsBrowserRead, Work!taskNeedsGeneratedText,
          Work!hasBrowserRead, Work!browserInteractionMissing, Work!taskNeedsReadOnly,
          Work!taskNeedsEvidenceReport, Work!taskNeedsCodeChange, Work!taskNeedsPassingTest,
          Work!taskNeedsMechanicalVerification, Work!taskNeedsDiagnosticTestRun,
          Work!taskNeedsSourceRead, Work!Says, Work!Did, Work!DidWell
      <4> QED
        BY <1>1, <3>3, <3>4, <4>1 DEF FinishedFor, Work!Leave, StatusAt
    <3>5. CASE Work!Try(<<t, file_>>) /\ UNCHANGED place
      <4>1. <<t, file_>> \in Work!Fingerprints
        BY DEF Work!Fingerprints
      <4> QED
        BY <3>3, <3>5, <4>1 DEF Work!Choosing, Work!Looping
    <3> QED
      BY <3>2, <3>4, <3>5 DEF Work!CallTool
  <2> QED
    BY <2>1, <2>2, <2>3, <2>4, <2>5, <2>6, <2>7
<1>5. Work!TypeOK'
  <2>1. step' \in 1 .. MaxSteps + 1 /\ DOMAIN tried' \subseteq Work!Fingerprints
    <3>1. CASE step' = 1 /\ tried' = << >>
      <4>1. DOMAIN << >> = {}
        OBVIOUS
      <4> QED
        BY <3>1, <4>1, WorkAssumption
    <3>2. CASE step <= MaxSteps /\ \E f \in Work!Fingerprints : Work!Try(f)
      BY <1>1, <3>2, WorkAssumption DEF Work!Try, Work!TypeOK
    <3> QED
      BY <1>4, <3>1, <3>2
  <2>2. status' \in Work!Status /\ place' \in Work!Places
    BY <1>1, <1>4 DEF StatusAt, Work!Status, Work!Places
  <2> QED
    BY <1>1, <1>2, <1>3, <2>1, <2>2 DEF Work!TypeOK
<1> QED
  BY <1>1, <1>2, <1>4, <1>5 DEF WorkInv, StatusAt

(* Elsewhere the rows of the attempt stay, or a new attempt starts.        *)
LEMMA PipelineStep ==
  ASSUME WorkInv,
         \/ Work!Claim \/ Work!CreateTaskAttempt \/ Work!finishWithoutTools \/ Work!CompleteTaskAttempt
         \/ Work!StartTest \/ Work!Test \/ Work!Review \/ Work!Interrupted
         \/ Work!RetryTask \/ Work!HandleUserConfirmation \/ Work!CompleteRepaired
  PROVE  WorkInv'
<1>1. Work!TypeOK /\ status \in StatusAt(place)
  BY DEF WorkInv
<1>2. CASE Work!CreateTaskAttempt
  <2>1. DOMAIN << >> = {} /\ 1 \in 1 .. MaxSteps + 1
    BY WorkAssumption
  <2>2. Work!TypeOK'
    BY <1>1, <1>2, <2>1 DEF Work!CreateTaskAttempt, Work!TypeOK, Work!Places
  <2> QED
    BY <1>1, <1>2, <2>2 DEF WorkInv, Work!CreateTaskAttempt, StatusAt
<1>3. CASE Work!finishWithoutTools
  <2>1. UNCHANGED <<task, events, attempt, verdict, repaired>> /\ place = "finish" /\ place' = "test" /\ finished'
        /\ status' = "IMPLEMENTED"
    BY <1>3 DEF Work!finishWithoutTools, Work!Transition
  <2>2. verdict = "none" /\ FinishedFor'
    BY <2>1, RulesStay DEF WorkInv
  <2>3. Work!TypeOK'
    BY <1>1, <1>3 DEF Work!finishWithoutTools, Work!TypeOK, Work!Places, Work!Status, Work!Transition
  <2> QED
    BY <2>1, <2>2, <2>3 DEF WorkInv, StatusAt
<1>4. CASE \/ Work!Claim \/ Work!CompleteTaskAttempt \/ Work!StartTest \/ Work!Test \/ Work!Review
           \/ Work!Interrupted \/ Work!RetryTask \/ Work!HandleUserConfirmation \/ Work!CompleteRepaired
  <2>1. UNCHANGED <<task, events, finished>>
    BY <1>4 DEF Work!Claim, Work!CompleteTaskAttempt, Work!StartTest, Work!Test, Work!Review,
      Work!Interrupted, Work!RetryTask, Work!HandleUserConfirmation, Work!CompleteRepaired, Work!evidence
  <2>2. /\ FinishedFor' <=> FinishedFor
        /\ Excused' <=> Excused
        /\ Work!genericEvidence' <=> Work!genericEvidence
    BY <2>1, RulesStay
  <2>3. CASE Work!Claim
    <3>1. Work!TypeOK'
      BY <1>1, <2>3 DEF Work!Claim, Work!TypeOK, Work!evidence, Work!Transition, Work!Places, Work!Status
    <3> QED
      BY <2>2, <2>3, <3>1 DEF WorkInv, Work!Claim, Work!evidence, Work!Transition, StatusAt
  <2>4. CASE Work!CompleteTaskAttempt
    <3>1. Work!CompletedAs(place) \in {"SUCCEEDED", "FAILED", "CANCELLED"}
      BY <2>4 DEF Work!CompleteTaskAttempt, Work!CompletedAs
    <3>2. Work!TypeOK'
      BY <1>1, <2>4, <3>1 DEF Work!CompleteTaskAttempt, Work!TypeOK, Work!evidence, Work!Places
    <3> QED
      BY <1>1, <2>2, <2>4, <3>2 DEF WorkInv, Work!CompleteTaskAttempt, Work!evidence, StatusAt, Work!TypeOK
  <2>5. CASE Work!StartTest
    <3>1. Work!TypeOK'
      BY <1>1, <2>5 DEF Work!StartTest, Work!TypeOK, Work!evidence, Work!Transition, Work!Places, Work!Status
    <3> QED
      BY <2>2, <2>5, <3>1 DEF WorkInv, Work!StartTest, Work!evidence, Work!Transition, StatusAt
  <2>6. CASE Work!Test
    <3>1. Work!TypeOK'
      BY <1>1, <2>6 DEF Work!Test, Work!TypeOK, Work!Transition, Work!Places, Work!Status
    <3>2. ~ Work!genericEvidence => Excused
      BY <2>6, TesterAsksNoMore DEF WorkInv, Work!Test
    <3>3. finished' /\ UNCHANGED repaired
      BY <2>6 DEF WorkInv, Work!Test
    <3>4. CASE Work!genericEvidence
      <4>1. verdict' = "passed" /\ status' = "REVIEWING" /\ place' = "review"
        BY <2>6, <3>4 DEF Work!Test, Work!Transition
      <4> QED
        BY <2>2, <3>1, <3>3, <3>4, <4>1 DEF WorkInv, StatusAt
    <3>5. CASE ~ Work!genericEvidence
      <4>1. verdict' = "failed" /\ status' = "FAILED" /\ place' = "rest"
        BY <2>6, <3>5 DEF Work!Test, Work!Transition
      <4> QED
        BY <2>2, <3>1, <3>2, <3>3, <3>5, <4>1 DEF WorkInv, StatusAt, Work!Status
    <3> QED
      BY <3>4, <3>5
  <2>7. CASE Work!Review
    <3>1. Work!TypeOK'
      BY <1>1, <2>7 DEF Work!Review, Work!TypeOK, Work!evidence, Work!Transition, Work!Places, Work!Status
    <3> QED
      BY <2>2, <2>7, <3>1 DEF WorkInv, Work!Review, Work!evidence, Work!Transition, StatusAt
  <2>8. CASE Work!Interrupted
    <3>1. /\ place' = "rest" /\ step' = 1 /\ tried' = << >>
          /\ UNCHANGED <<attempt, verdict, repaired>> /\ status' \in {status, "FAILED"}
      BY <2>8 DEF Work!Interrupted, Work!Leave, Work!Transition
    <3>2. DOMAIN << >> = {} /\ 1 \in 1 .. MaxSteps + 1
      BY WorkAssumption
    <3>3. Work!TypeOK'
      BY <1>1, <2>1, <3>1, <3>2 DEF Work!TypeOK, Work!Places, Work!Status
    <3> QED
      BY <2>1, <2>2, <3>1, <3>3 DEF WorkInv, StatusAt, Work!TypeOK
  <2>9. CASE Work!RetryTask \/ Work!HandleUserConfirmation
    <3>1. /\ place = "rest" /\ status' \in {"READY", "BLOCKED"}
          /\ UNCHANGED <<task, attempt, place, step, events, tried, finished, verdict, repaired>>
      BY <2>9 DEF Work!RetryTask, Work!HandleUserConfirmation, Work!Transition, Work!evidence
    <3>2. Work!TypeOK'
      BY <1>1, <3>1 DEF Work!TypeOK, Work!Status
    <3> QED
      BY <2>2, <3>1, <3>2 DEF WorkInv, StatusAt, Work!TypeOK
  <2>10. CASE Work!CompleteRepaired
    <3>1. /\ status \in {"FAILED", "REVIEW_FAILED"} /\ status' = "DONE" /\ repaired' = TRUE
          /\ UNCHANGED <<task, attempt, place, step, events, tried, finished, verdict>>
      BY <2>10 DEF Work!CompleteRepaired, Work!Transition, Work!evidence
    <3>2. Work!TypeOK'
      BY <1>1, <3>1 DEF Work!TypeOK, Work!Status
    <3>3. place \in {"failing", "rejecting", "rest"} /\ status' \in StatusAt(place)'
      BY <1>1, <3>1 DEF StatusAt, Work!TypeOK, Work!Places, Work!Status
    <3> QED
      BY <2>2, <3>1, <3>2, <3>3 DEF WorkInv
  <2> QED
    BY <1>4, <2>3, <2>4, <2>5, <2>6, <2>7, <2>8, <2>9, <2>10
<1> QED
  BY <1>2, <1>3, <1>4

LEMMA WorkNext == WorkInv /\ (Work!Next \/ UNCHANGED workVars) => WorkInv'
<1>1. ASSUME WorkInv, Work!Next PROVE WorkInv'
  <2>1. CASE place = "loop"
    BY <1>1, <2>1, LoopStep, PipelineStep DEF Work!Next
  <2>2. CASE place # "loop"
    BY <1>1, <2>2, PipelineStep DEF Work!Next, Work!AutoFinish, Work!ChooseFinish, Work!Unsupported,
      Work!AskUser, Work!Fail, Work!RejectRepeated, Work!Tool, Work!CallTool, Work!Choosing, Work!Looping
  <2> QED
    BY <2>1, <2>2
<1>2. ASSUME WorkInv, UNCHANGED workVars PROVE WorkInv'
  <2>1. UNCHANGED <<task, status, attempt, place, step, events, tried, finished, verdict, repaired>>
    BY <1>2 DEF workVars
  <2>2. /\ FinishedFor' <=> FinishedFor
        /\ Excused' <=> Excused
        /\ Work!genericEvidence' <=> Work!genericEvidence
    BY <2>1, RulesStay
  <2> QED
    BY <1>2, <2>1, <2>2 DEF WorkInv, Work!TypeOK, StatusAt
<1> QED
  BY <1>1, <1>2

LEMMA WorkInvariance == Spec => []WorkInv
<1>1. WorkInv /\ [Next]_vars => WorkInv'
  BY StepOfOne, WorkNext
<1> QED
  BY <1>1, WorkInit, PTL DEF Spec

(* For any task text and number of steps: a task that its own pipeline,    *)
(* and not a repair of it, made DONE finished, passed the test and left    *)
(* the evidence its words ask the tester for in its last attempt (Test,    *)
(* Review, genericEvidence).                                               *)
THEOREM DoneHasEvidence == Spec => []DoneIsEvidenced
<1>1. WorkInv => DoneIsEvidenced
  BY DEF WorkInv, DoneIsEvidenced, Work!DoneIsEvidenced, Work!genericEvidence,
    Work!taskRequiresResearchEvidence
<1> QED
  BY <1>1, WorkInvariance, PTL

(* For any task text: what finishEvidenceReady lets a task finish with     *)
(* passes genericEvidence, but for the four exceptions the property names. *)
THEOREM ExecutorAndTesterAgree == Spec => []TesterAgreesWithExecutor
<1>1. WorkInv => TesterAgreesWithExecutor
  BY DEF WorkInv, Excused, TesterAgreesWithExecutor, Work!TesterAgreesWithExecutor
<1> QED
  BY <1>1, WorkInvariance, PTL

-----------------------------------------------------------------------------
(* The event stream                                                        *)

PublisherRecords ==
  [stage : {"idle", "sending", "done"}, map : Nat, visited : SUBSET Stream!Conns,
   must : SUBSET Stream!Conns, picked : SUBSET Stream!Conns]

AtMostOnePicked(e) == \A c, d \in publisher[e].picked : c = d

(* Nothing happens to a connection before it subscribes.                   *)
Untouched(c) ==
  c \notin subscribers \cup closed
  /\ \A e \in Stream!Events : <<e, c>> \notin droppers /\ c \notin publisher[e].picked

(* A subscriber the publisher of e does not have to visit subscribed after *)
(* e was appended: if e is owed to it, it is by the replay.                *)
ReplayedTo(c, e) ==
  publisher[e].stage = "sending" /\ c \notin publisher[e].must =>
    e <= owedFrom[c] \/ (conn[c] # "subscribed" /\ e \in written[c])

(* What is owed is written or on its way.                                  *)
Served(c) ==
  conn[c] \in {"subscribed", "streaming"} /\ ~ Stream!TooSlow(c) =>
    \A e \in owedFrom[c] + 1 .. appended : e \in written[c] \/ Stream!OnItsWay(e, c)

StreamTypes ==
  /\ appended \in 0 .. MaxEvents
  /\ subscribers \subseteq Stream!Conns /\ closed \subseteq Stream!Conns
  /\ mapNo \in Nat /\ inMap \in [Stream!Conns -> Nat]
  /\ channel \in [Stream!Conns -> Seq(Stream!Events)]
  /\ publisher \in [Stream!Events -> PublisherRecords]
  /\ droppers \subseteq Stream!Events \X Stream!Conns
  /\ conn \in [Stream!Conns -> {"new", "subscribed", "streaming", "leaving", "gone"}]
  /\ lastId \in [Stream!Conns -> Stream!Events \cup {Stream!NoEvent}]
  /\ written \in [Stream!Conns -> SUBSET Stream!Events]
  /\ owedFrom \in [Stream!Conns -> Nat]
  /\ panicked \in BOOLEAN

StreamInv ==
  /\ StreamTypes
  /\ \A c \in Stream!Conns : Len(channel[c]) <= ChannelSize
  /\ \A e \in Stream!Events : AtMostOnePicked(e) /\ (publisher[e].stage = "sending" => e <= appended)
  /\ \A c \in Stream!Conns : conn[c] = "new" => Untouched(c)
  /\ \A c \in Stream!Conns : conn[c] \in {"new", "subscribed"} => written[c] = {}
  /\ subscribers \cap closed = {}
  /\ \A c \in subscribers : Served(c) /\ \A e \in Stream!Events : ReplayedTo(c, e)

LEMMA StreamInit == Init => StreamInv
<1> SUFFICES ASSUME Init PROVE StreamInv
  OBVIOUS
<1>1. Stream!Init
  BY DEF Init
<1>2. Stream!Idle \in PublisherRecords /\ Stream!Idle.stage = "idle" /\ Stream!Idle.picked = {}
  BY DEF Stream!Idle, PublisherRecords
<1>3. publisher \in [Stream!Events -> PublisherRecords]
      /\ \A e \in Stream!Events : publisher[e].stage = "idle" /\ publisher[e].picked = {}
  BY <1>1, <1>2 DEF Stream!Init
<1>4. channel \in [Stream!Conns -> Seq(Stream!Events)] /\ \A c \in Stream!Conns : Len(channel[c]) = 0
  BY <1>1 DEF Stream!Init
<1>5. StreamTypes
  <2>1. /\ inMap \in [Stream!Conns -> Nat] /\ owedFrom \in [Stream!Conns -> Nat]
        /\ lastId \in [Stream!Conns -> Stream!Events \cup {Stream!NoEvent}]
        /\ written \in [Stream!Conns -> SUBSET Stream!Events]
        /\ conn \in [Stream!Conns -> {"new", "subscribed", "streaming", "leaving", "gone"}]
    BY <1>1 DEF Stream!Init
  <2>2. appended \in 0 .. MaxEvents /\ mapNo \in Nat
    BY <1>1, StreamAssumption DEF Stream!Init
  <2>3. subscribers = {} /\ closed = {} /\ droppers = {} /\ panicked \in BOOLEAN
    BY <1>1 DEF Stream!Init
  <2> QED
    BY <1>3, <1>4, <2>1, <2>2, <2>3 DEF StreamTypes
<1> QED
  BY <1>1, <1>3, <1>4, <1>5, StreamAssumption DEF Stream!Init, StreamInv, AtMostOnePicked, Untouched

(* What is written or on its way stays so, when neither shrinks.           *)
LEMMA StaysServed ==
  ASSUME NEW c \in Stream!Conns, Served(c), appended' = appended, owedFrom'[c] = owedFrom[c],
         conn'[c] \in {"subscribed", "streaming"} => conn[c] \in {"subscribed", "streaming"},
         Stream!TooSlow(c) => Stream!TooSlow(c)',
         \A e \in owedFrom[c] + 1 .. appended :
           e \in written[c] \/ Stream!OnItsWay(e, c) => e \in written'[c] \/ Stream!OnItsWay(e, c)'
  PROVE  Served(c)'
BY DEF Served

LEMMA PublishStep ==
  ASSUME StreamInv, NEW e \in Stream!Events, Stream!Publish(e)
  PROVE  StreamInv'
<1> DEFINE new == [Stream!Idle EXCEPT !.stage = "sending", !.map = mapNo, !.must = subscribers]
<1>1. /\ e = appended + 1 /\ appended' = e /\ publisher' = [publisher EXCEPT ![e] = new]
      /\ UNCHANGED <<subscribers, mapNo, inMap, channel, closed, droppers, conn, lastId, written, owedFrom,
                     panicked>>
  BY DEF Stream!Publish
<1>2. StreamTypes
  BY DEF StreamInv
<1>3. /\ new \in PublisherRecords /\ new.stage = "sending" /\ new.must = subscribers
      /\ new.picked = {} /\ new.visited = {}
  BY <1>2 DEF Stream!Idle, PublisherRecords, StreamTypes
<1> HIDE DEF new
<1>4. publisher' \in [Stream!Events -> PublisherRecords] /\ publisher'[e] = new
      /\ \A f \in Stream!Events : f # e => publisher'[f] = publisher[f]
  BY <1>1, <1>2, <1>3 DEF StreamTypes
<1>5. e \in 1 .. MaxEvents
  BY DEF Stream!Events
<1>6. StreamTypes'
  BY <1>1, <1>2, <1>4, <1>5, StreamAssumption DEF StreamTypes
<1>7. \A f \in Stream!Events : AtMostOnePicked(f)' /\ (publisher'[f].stage = "sending" => f <= appended')
  <2>1. AtMostOnePicked(e)' /\ e <= appended'
    BY <1>1, <1>3, <1>4, <1>5 DEF AtMostOnePicked
  <2>2. ASSUME NEW f \in Stream!Events, f # e
        PROVE  AtMostOnePicked(f)' /\ (publisher'[f].stage = "sending" => f <= appended')
    BY <1>1, <1>2, <1>4, <2>2, StreamAssumption DEF StreamInv, AtMostOnePicked, StreamTypes, Stream!Events
  <2> QED
    BY <2>1, <2>2
<1>8. \A c \in Stream!Conns : conn'[c] = "new" => Untouched(c)'
  BY <1>1, <1>3, <1>4 DEF StreamInv, Untouched
<1>9. ASSUME NEW c \in subscribers PROVE Served(c)' /\ \A f \in Stream!Events : ReplayedTo(c, f)'
  <2>1. c \in Stream!Conns /\ owedFrom[c] \in Nat
    BY <1>2 DEF StreamTypes
  <2>2. Served(c)'
    <3>1. SUFFICES ASSUME conn[c] \in {"subscribed", "streaming"}, ~ Stream!TooSlow(c),
                          NEW f \in owedFrom[c] + 1 .. e
                   PROVE  f \in written[c] \/ Stream!OnItsWay(f, c)'
      BY <1>1 DEF Served, Stream!TooSlow
    <3>2. CASE f = e
      BY <1>3, <1>4, <3>2 DEF Stream!OnItsWay
    <3>3. CASE f # e
      <4>1. f \in owedFrom[c] + 1 .. appended /\ f \in Stream!Events
        BY <1>1, <1>2, <1>5, <2>1, <3>1, <3>3, StreamAssumption DEF StreamTypes, Stream!Events
      <4>2. f \in written[c] \/ Stream!OnItsWay(f, c)
        BY <3>1, <4>1 DEF StreamInv, Served
      <4>3. Stream!OnItsWay(f, c)' <=> Stream!OnItsWay(f, c)
        BY <1>1, <1>4, <3>3, <4>1 DEF Stream!OnItsWay, Stream!Contains
      <4> QED
        BY <4>2, <4>3
    <3> QED
      BY <3>2, <3>3
  <2>3. ASSUME NEW f \in Stream!Events PROVE ReplayedTo(c, f)'
    <3>1. CASE f = e
      BY <1>3, <1>4, <3>1 DEF ReplayedTo
    <3>2. CASE f # e
      <4>1. ReplayedTo(c, f)
        BY DEF StreamInv
      <4> QED
        BY <1>1, <1>4, <3>2, <4>1 DEF ReplayedTo
    <3> QED
      BY <3>1, <3>2
  <2> QED
    BY <2>2, <2>3
<1> QED
  BY <1>1, <1>6, <1>7, <1>8, <1>9 DEF StreamInv

LEMMA VisitStep ==
  ASSUME StreamInv, NEW e \in Stream!Events, NEW c \in Stream!Conns, Stream!Visit(e, c)
  PROVE  StreamInv'
<1> DEFINE new == [publisher[e] EXCEPT !.picked = {c}]
<1>1. /\ c \in subscribers /\ publisher' = [publisher EXCEPT ![e].picked = {c}]
      /\ UNCHANGED <<appended, subscribers, mapNo, inMap, channel, closed, droppers, conn, lastId, written,
                     owedFrom, panicked>>
  BY DEF Stream!Visit, Stream!hubVars
<1>2. StreamTypes
  BY DEF StreamInv
<1>3. /\ new \in PublisherRecords /\ new.picked = {c} /\ new.stage = publisher[e].stage
      /\ new.must = publisher[e].must /\ new.visited = publisher[e].visited
  <2>1. publisher[e] \in PublisherRecords /\ {c} \in SUBSET Stream!Conns
    BY <1>2 DEF StreamTypes
  <2> QED
    BY <2>1 DEF PublisherRecords
<1>4. publisher' = [publisher EXCEPT ![e] = new]
  BY <1>1, <1>2 DEF StreamTypes
<1> HIDE DEF new
<1>5. publisher' \in [Stream!Events -> PublisherRecords] /\ publisher'[e] = new
      /\ \A f \in Stream!Events : f # e => publisher'[f] = publisher[f]
  BY <1>2, <1>3, <1>4 DEF StreamTypes
<1>6. StreamTypes'
  BY <1>1, <1>2, <1>5 DEF StreamTypes
<1>7. \A f \in Stream!Events : /\ publisher'[f].stage = publisher[f].stage
                               /\ publisher'[f].must = publisher[f].must
                               /\ publisher'[f].visited = publisher[f].visited
                               /\ publisher'[f].picked \in {publisher[f].picked, {c}}
  BY <1>3, <1>5
<1>8. \A f \in Stream!Events : AtMostOnePicked(f)' /\ (publisher'[f].stage = "sending" => f <= appended')
  BY <1>1, <1>7 DEF StreamInv, AtMostOnePicked
<1>9. \A d \in Stream!Conns : conn'[d] = "new" => Untouched(d)'
  BY <1>1, <1>7 DEF StreamInv, Untouched
<1>10. ASSUME NEW d \in subscribers PROVE Served(d)' /\ \A f \in Stream!Events : ReplayedTo(d, f)'
  <2>1. d \in Stream!Conns /\ Served(d) /\ \A f \in Stream!Events : ReplayedTo(d, f)
    BY <1>2 DEF StreamInv, StreamTypes
  <2>2. \A f \in owedFrom[d] + 1 .. appended : Stream!OnItsWay(f, d) => Stream!OnItsWay(f, d)'
    <3>1. ASSUME NEW f \in owedFrom[d] + 1 .. appended, Stream!OnItsWay(f, d) PROVE Stream!OnItsWay(f, d)'
      <4>1. f \in Stream!Events
        BY <1>2, <2>1, <3>1, StreamAssumption DEF StreamTypes, Stream!Events
      <4> QED
        BY <1>1, <1>7, <3>1, <4>1 DEF Stream!OnItsWay, Stream!Contains
    <3> QED
      BY <3>1
  <2>3. Served(d)'
    BY <1>1, <2>1, <2>2, StaysServed DEF Stream!TooSlow
  <2>4. \A f \in Stream!Events : ReplayedTo(d, f)'
    BY <1>1, <1>7, <2>1 DEF ReplayedTo
  <2> QED
    BY <2>3, <2>4
<1> QED
  BY <1>1, <1>6, <1>8, <1>9, <1>10 DEF StreamInv

LEMMA SendStep ==
  ASSUME StreamInv, NEW e \in Stream!Events, NEW c \in Stream!Conns, Stream!Send(e, c)
  PROVE  StreamInv'
<1> DEFINE new == [publisher[e] EXCEPT !.picked = {}, !.visited = publisher[e].visited \cup {c}]
<1>1. /\ publisher[e].picked = {c}
      /\ publisher' = [publisher EXCEPT ![e].picked = {}, ![e].visited = publisher[e].visited \cup {c}]
      /\ panicked' = (c \in closed)
      /\ channel' = IF c \notin closed /\ Len(channel[c]) < ChannelSize
                    THEN [channel EXCEPT ![c] = Append(channel[c], e)] ELSE channel
      /\ droppers' = IF Len(channel[c]) >= ChannelSize THEN droppers \cup {<<e, c>>} ELSE droppers
      /\ UNCHANGED <<appended, subscribers, mapNo, inMap, closed, conn, lastId, written, owedFrom>>
  BY DEF Stream!Send
<1>2. StreamTypes
  BY DEF StreamInv
<1>3. /\ new \in PublisherRecords /\ new.picked = {} /\ new.stage = publisher[e].stage
      /\ new.must = publisher[e].must /\ new.visited = publisher[e].visited \cup {c}
  BY <1>2 DEF PublisherRecords, StreamTypes
<1>4. publisher' = [publisher EXCEPT ![e] = new]
  BY <1>1, <1>2 DEF StreamTypes
<1> HIDE DEF new
<1>5. publisher' \in [Stream!Events -> PublisherRecords] /\ publisher'[e] = new
      /\ \A f \in Stream!Events : f # e => publisher'[f] = publisher[f]
  BY <1>2, <1>3, <1>4 DEF StreamTypes
<1>6. /\ channel' \in [Stream!Conns -> Seq(Stream!Events)]
      /\ \A d \in Stream!Conns : Len(channel'[d]) <= ChannelSize
      /\ \A d \in Stream!Conns : d # c => channel'[d] = channel[d]
      /\ c \notin closed /\ Len(channel[c]) < ChannelSize => channel'[c] = Append(channel[c], e)
  <2>1. channel[c] \in Seq(Stream!Events) /\ channel \in [Stream!Conns -> Seq(Stream!Events)]
    BY <1>2 DEF StreamTypes
  <2>2. CASE c \notin closed /\ Len(channel[c]) < ChannelSize
    <3> DEFINE q == Append(channel[c], e)
    <3>1. q \in Seq(Stream!Events) /\ Len(q) <= ChannelSize
      BY <2>1, <2>2, StreamAssumption
    <3>2. channel' = [channel EXCEPT ![c] = q]
      BY <1>1, <2>2
    <3> HIDE DEF q
    <3>3. /\ channel' \in [Stream!Conns -> Seq(Stream!Events)] /\ channel'[c] = q
          /\ \A d \in Stream!Conns : d # c => channel'[d] = channel[d]
      BY <2>1, <3>1, <3>2
    <3> QED
      BY <3>1, <3>3 DEF StreamInv, q
  <2>3. CASE ~ (c \notin closed /\ Len(channel[c]) < ChannelSize)
    <3>1. channel' = channel
      BY <1>1, <2>3
    <3> QED
      BY <2>1, <2>3, <3>1 DEF StreamInv
  <2> QED
    BY <2>2, <2>3
<1>7. StreamTypes'
  <2>1. droppers' \subseteq Stream!Events \X Stream!Conns
    BY <1>1, <1>2 DEF StreamTypes
  <2>2. panicked' \in BOOLEAN
    BY <1>1
  <2> QED
    BY <1>1, <1>2, <1>5, <1>6, <2>1, <2>2 DEF StreamTypes
<1>8. \A f \in Stream!Events : /\ publisher'[f].stage = publisher[f].stage
                               /\ publisher'[f].must = publisher[f].must
                               /\ publisher'[f].visited \subseteq publisher[f].visited \cup {c}
                               /\ f # e => publisher'[f].visited = publisher[f].visited
                               /\ publisher'[f].picked \in {publisher[f].picked, {}}
  BY <1>3, <1>5
<1>9. \A f \in Stream!Events : AtMostOnePicked(f)' /\ (publisher'[f].stage = "sending" => f <= appended')
  <2>1. ASSUME NEW f \in Stream!Events
        PROVE  AtMostOnePicked(f)' /\ (publisher'[f].stage = "sending" => f <= appended')
    <3>1. AtMostOnePicked(f) /\ (publisher[f].stage = "sending" => f <= appended)
      BY DEF StreamInv
    <3>2. publisher'[f].picked \subseteq publisher[f].picked /\ publisher'[f].stage = publisher[f].stage
      BY <1>8
    <3> QED
      BY <1>1, <3>1, <3>2 DEF AtMostOnePicked
  <2> QED
    BY <2>1
<1>10. ASSUME NEW d \in Stream!Conns, conn'[d] = "new" PROVE Untouched(d)'
  <2>1. Untouched(d) /\ d # c
    BY <1>1, <1>10 DEF StreamInv, Untouched
  <2> QED
    BY <1>1, <1>8, <2>1 DEF Untouched
<1>11. ASSUME NEW d \in subscribers PROVE Served(d)' /\ \A f \in Stream!Events : ReplayedTo(d, f)'
  <2>1. d \in Stream!Conns /\ Served(d) /\ d \notin closed /\ \A f \in Stream!Events : ReplayedTo(d, f)
    BY <1>2 DEF StreamInv, StreamTypes
  <2>2. Served(d)'
    <3>1. CASE d = c /\ Len(channel[c]) >= ChannelSize
      BY <1>1, <3>1 DEF Served, Stream!TooSlow
    <3>2. ASSUME ~ (d = c /\ Len(channel[c]) >= ChannelSize),
                 NEW f \in owedFrom[d] + 1 .. appended, Stream!OnItsWay(f, d)
          PROVE  Stream!OnItsWay(f, d)'
      <4>1. f \in Stream!Events /\ channel[d] \in Seq(Stream!Events) /\ Len(channel[c]) \in Nat
        BY <1>2, <2>1, <3>2, StreamAssumption DEF StreamTypes, Stream!Events
      <4>2. CASE d # c
        BY <1>6, <1>8, <2>1, <3>2, <4>1, <4>2 DEF Stream!OnItsWay, Stream!Contains
      <4>3. CASE d = c
        <5>1. channel'[d] = Append(channel[d], e)
          BY <1>6, <2>1, <3>2, <4>1, <4>3, StreamAssumption
        <5>2. CASE f = e
          <6>1. channel'[d][Len(channel[d]) + 1] = e /\ Len(channel[d]) + 1 \in 1 .. Len(channel'[d])
            BY <4>1, <5>1
          <6> QED
            BY <5>2, <6>1 DEF Stream!OnItsWay, Stream!Contains
        <5>3. CASE f # e
          <6>1. Stream!Contains(channel[d], f) => Stream!Contains(channel'[d], f)
            BY <4>1, <5>1 DEF Stream!Contains
          <6> QED
            BY <1>8, <3>2, <4>1, <5>3, <6>1 DEF Stream!OnItsWay
        <5> QED
          BY <5>2, <5>3
      <4> QED
        BY <4>2, <4>3
    <3>3. CASE ~ (d = c /\ Len(channel[c]) >= ChannelSize)
      <4>1. Stream!TooSlow(d) => Stream!TooSlow(d)'
        BY <1>1 DEF Stream!TooSlow
      <4> QED
        BY <1>1, <2>1, <3>2, <3>3, <4>1, StaysServed
    <3> QED
      BY <3>1, <3>3
  <2>3. \A f \in Stream!Events : ReplayedTo(d, f)'
    BY <1>1, <1>8, <2>1 DEF ReplayedTo
  <2> QED
    BY <2>2, <2>3
<1> QED
  BY <1>1, <1>6, <1>7, <1>9, <1>10, <1>11 DEF StreamInv

(* A subscriber that was not visited subscribed after the event.           *)
LEMMA PublishedStep ==
  ASSUME StreamInv, NEW e \in Stream!Events, Stream!Published(e)
  PROVE  StreamInv'
<1> DEFINE new == [Stream!Idle EXCEPT !.stage = "done"]
<1>1. /\ publisher[e].stage = "sending"
      /\ (publisher[e].must \cap subscribers) \subseteq publisher[e].visited
      /\ publisher' = [publisher EXCEPT ![e] = new]
      /\ UNCHANGED <<appended, subscribers, mapNo, inMap, channel, closed, droppers, conn, lastId, written,
                     owedFrom, panicked>>
  BY DEF Stream!Published, Stream!hubVars
<1>2. StreamTypes
  BY DEF StreamInv
<1>3. new \in PublisherRecords /\ new.picked = {} /\ new.stage = "done"
  BY DEF Stream!Idle, PublisherRecords
<1> HIDE DEF new
<1>4. publisher' \in [Stream!Events -> PublisherRecords] /\ publisher'[e] = new
      /\ \A f \in Stream!Events : f # e => publisher'[f] = publisher[f]
  BY <1>1, <1>2, <1>3 DEF StreamTypes
<1>5. StreamTypes'
  BY <1>1, <1>2, <1>4 DEF StreamTypes
<1>6. \A f \in Stream!Events : AtMostOnePicked(f)' /\ (publisher'[f].stage = "sending" => f <= appended')
  BY <1>1, <1>3, <1>4 DEF StreamInv, AtMostOnePicked
<1>7. \A d \in Stream!Conns : conn'[d] = "new" => Untouched(d)'
  BY <1>1, <1>3, <1>4 DEF StreamInv, Untouched
<1>8. ASSUME NEW d \in subscribers PROVE Served(d)' /\ \A f \in Stream!Events : ReplayedTo(d, f)'
  <2>1. d \in Stream!Conns /\ Served(d) /\ \A f \in Stream!Events : ReplayedTo(d, f)
    BY <1>2 DEF StreamInv, StreamTypes
  <2>2. Served(d)'
    <3>1. ASSUME NEW f \in owedFrom[d] + 1 .. appended, Stream!OnItsWay(f, d)
          PROVE  f \in written[d] \/ Stream!OnItsWay(f, d)'
      <4>1. f \in Stream!Events /\ owedFrom[d] \in Nat /\ f > owedFrom[d]
        BY <1>2, <2>1, <3>1, StreamAssumption DEF StreamTypes, Stream!Events
      <4>2. CASE f = e /\ ~ Stream!Contains(channel[d], f)
        <5>1. d \notin publisher[e].must
          BY <1>1, <1>8, <3>1, <4>2 DEF Stream!OnItsWay
        <5> QED
          BY <1>1, <2>1, <4>1, <4>2, <5>1 DEF ReplayedTo
      <4>3. CASE f # e \/ Stream!Contains(channel[d], f)
        BY <1>1, <1>4, <3>1, <4>1, <4>3 DEF Stream!OnItsWay, Stream!Contains
      <4> QED
        BY <4>2, <4>3
    <3> QED
      BY <1>1, <2>1, <3>1, StaysServed DEF Stream!TooSlow
  <2>3. ASSUME NEW f \in Stream!Events PROVE ReplayedTo(d, f)'
    BY <1>1, <1>3, <1>4, <2>1 DEF ReplayedTo
  <2> QED
    BY <2>2, <2>3
<1> QED
  BY <1>1, <1>5, <1>6, <1>7, <1>8 DEF StreamInv

(* A slow consumer is dropped: it is no subscriber any more.               *)
LEMMA DropStep ==
  ASSUME StreamInv, NEW e \in Stream!Events, NEW c \in Stream!Conns, Stream!DropSlow(e, c)
  PROVE  StreamInv'
<1>1. /\ <<e, c>> \in droppers /\ droppers' = droppers \ {<<e, c>>}
      /\ subscribers' = subscribers \ {c} /\ panicked' = (c \in closed) /\ closed' = closed \cup {c}
      /\ UNCHANGED <<appended, mapNo, inMap, channel, publisher, conn, lastId, written, owedFrom>>
  BY DEF Stream!DropSlow
<1>2. StreamTypes
  BY DEF StreamInv
<1>3. StreamTypes'
  <2>1. panicked' \in BOOLEAN
    BY <1>1
  <2> QED
    BY <1>1, <1>2, <2>1 DEF StreamTypes
<1>4. \A f \in Stream!Events : AtMostOnePicked(f)' /\ (publisher'[f].stage = "sending" => f <= appended')
  BY <1>1 DEF StreamInv, AtMostOnePicked
<1>5. ASSUME NEW d \in Stream!Conns, conn'[d] = "new" PROVE Untouched(d)'
  <2>1. Untouched(d) /\ d # c
    BY <1>1, <1>5 DEF StreamInv, Untouched
  <2> QED
    BY <1>1, <2>1 DEF Untouched
<1>6. ASSUME NEW d \in subscribers \ {c} PROVE Served(d)' /\ \A f \in Stream!Events : ReplayedTo(d, f)'
  <2>1. d \in Stream!Conns /\ Served(d) /\ \A f \in Stream!Events : ReplayedTo(d, f)
    BY <1>2 DEF StreamInv, StreamTypes
  <2>2. Stream!TooSlow(d) => Stream!TooSlow(d)'
    BY <1>1, <1>6 DEF Stream!TooSlow
  <2>3. Served(d)'
    BY <1>1, <2>1, <2>2, StaysServed DEF Stream!OnItsWay, Stream!Contains
  <2>4. \A f \in Stream!Events : ReplayedTo(d, f)'
    BY <1>1, <2>1 DEF ReplayedTo
  <2> QED
    BY <2>3, <2>4
<1> QED
  BY <1>1, <1>3, <1>4, <1>5, <1>6 DEF StreamInv

LEMMA SubscribeStep ==
  ASSUME StreamInv, NEW c \in Stream!Conns, NEW sid \in 0 .. appended, Stream!Subscribe(c, sid)
  PROVE  StreamInv'
<1>1. /\ conn[c] = "new" /\ conn' = [conn EXCEPT ![c] = "subscribed"]
      /\ lastId' = [lastId EXCEPT ![c] = sid]
      /\ mapNo' = IF mapped THEN mapNo ELSE mapNo + 1
      /\ mapped' = TRUE
      /\ inMap' = [inMap EXCEPT ![c] = mapNo']
      /\ subscribers' = subscribers \cup {c}
      /\ owedFrom' = [owedFrom EXCEPT ![c] = appended]
      /\ UNCHANGED <<appended, channel, closed, droppers, publisher, written, panicked>>
  BY DEF Stream!Subscribe
<1>2. StreamTypes
  BY DEF StreamInv
<1>3. StreamTypes'
  <2>1. appended \in Nat /\ sid \in Stream!Events \cup {Stream!NoEvent} /\ mapNo' \in Nat
    BY <1>1, <1>2, StreamAssumption DEF StreamTypes, Stream!Events, Stream!NoEvent
  <2>2. /\ conn' \in [Stream!Conns -> {"new", "subscribed", "streaming", "leaving", "gone"}]
        /\ lastId' \in [Stream!Conns -> Stream!Events \cup {Stream!NoEvent}]
        /\ inMap' \in [Stream!Conns -> Nat] /\ owedFrom' \in [Stream!Conns -> Nat]
        /\ subscribers' \subseteq Stream!Conns
    BY <1>1, <1>2, <2>1 DEF StreamTypes
  <2> QED
    BY <1>1, <1>2, <2>1, <2>2 DEF StreamTypes
<1>4. \A f \in Stream!Events : AtMostOnePicked(f)' /\ (publisher'[f].stage = "sending" => f <= appended')
  BY <1>1 DEF StreamInv, AtMostOnePicked
<1>5. /\ conn'[c] = "subscribed" /\ owedFrom'[c] = appended
      /\ \A d \in Stream!Conns : d # c => conn'[d] = conn[d] /\ owedFrom'[d] = owedFrom[d]
  BY <1>1, <1>2 DEF StreamTypes
<1>6. ASSUME NEW d \in Stream!Conns, conn'[d] = "new" PROVE Untouched(d)'
  <2>1. Untouched(d) /\ d # c
    BY <1>5, <1>6 DEF StreamInv
  <2> QED
    BY <1>1, <2>1 DEF Untouched
<1>7. \A d \in Stream!Conns : conn'[d] \in {"new", "subscribed"} => written'[d] = {}
  BY <1>1, <1>5 DEF StreamInv
<1>8. subscribers' \cap closed' = {}
  BY <1>1 DEF StreamInv, Untouched
<1>9. Served(c)' /\ \A f \in Stream!Events : ReplayedTo(c, f)'
  <2>1. Served(c)'
    <3>1. owedFrom'[c] + 1 .. appended' = {}
      BY <1>1, <1>2, <1>5, StreamAssumption DEF StreamTypes
    <3> QED
      BY <3>1 DEF Served
  <2>2. \A f \in Stream!Events : ReplayedTo(c, f)'
    BY <1>1, <1>5 DEF StreamInv, ReplayedTo
  <2> QED
    BY <2>1, <2>2
<1>10. ASSUME NEW d \in subscribers, d # c PROVE Served(d)' /\ \A f \in Stream!Events : ReplayedTo(d, f)'
  <2>1. d \in Stream!Conns /\ Served(d) /\ \A f \in Stream!Events : ReplayedTo(d, f)
    BY <1>2 DEF StreamInv, StreamTypes
  <2>2. Served(d)'
    BY <1>1, <1>5, <1>10, <2>1, StaysServed DEF Stream!OnItsWay, Stream!Contains, Stream!TooSlow
  <2>3. \A f \in Stream!Events : ReplayedTo(d, f)'
    BY <1>1, <1>5, <1>10, <2>1 DEF ReplayedTo
  <2> QED
    BY <2>2, <2>3
<1> QED
  BY <1>1, <1>3, <1>4, <1>6, <1>7, <1>8, <1>9, <1>10 DEF StreamInv

(* What the buffer still holds after the event named is written at once;   *)
(* when it holds that event no longer, no more is owed than before.        *)
LEMMA ReplayStep ==
  ASSUME StreamInv, NEW c \in Stream!Conns, Stream!Replay(c)
  PROVE  StreamInv'
<1> DEFINE sent == Stream!Replayed(lastId[c])
<1>1. /\ conn[c] = "subscribed" /\ conn' = [conn EXCEPT ![c] = "streaming"]
      /\ written' = [written EXCEPT ![c] = sent]
      /\ owedFrom' = IF lastId[c] \in Stream!Buffer THEN [owedFrom EXCEPT ![c] = lastId[c]] ELSE owedFrom
      /\ UNCHANGED <<appended, subscribers, mapNo, inMap, channel, closed, droppers, publisher, lastId, panicked>>
  BY DEF Stream!Replay, Stream!hubVars
<1>2. StreamTypes
  BY DEF StreamInv
<1>3. sent \in SUBSET Stream!Events /\ Stream!Buffer \subseteq Stream!Events
  BY DEF Stream!Replayed, Stream!Buffer
<1> HIDE DEF sent
<1>0. /\ \A f \in Stream!Events : f \in Nat /\ f > 0
      /\ lastId[c] \in Stream!Buffer => lastId[c] \in Stream!Events
  <2>1. \A f \in Stream!Events : f \in Nat /\ f > 0
    BY StreamAssumption DEF Stream!Events
  <2> QED
    BY <1>3, <2>1
<1>4. StreamTypes'
  <2>1. /\ conn' \in [Stream!Conns -> {"new", "subscribed", "streaming", "leaving", "gone"}]
        /\ written' \in [Stream!Conns -> SUBSET Stream!Events]
    BY <1>1, <1>2, <1>3 DEF StreamTypes
  <2>2. owedFrom' \in [Stream!Conns -> Nat]
    <3>1. lastId[c] \in Stream!Buffer => lastId[c] \in Nat
      BY <1>0
    <3> QED
      BY <1>1, <1>2, <3>1 DEF StreamTypes
  <2> QED
    BY <1>1, <1>2, <2>1, <2>2 DEF StreamTypes
<1>5. /\ conn'[c] = "streaming" /\ written'[c] = sent
      /\ owedFrom'[c] = IF lastId[c] \in Stream!Buffer THEN lastId[c] ELSE owedFrom[c]
      /\ \A d \in Stream!Conns : d # c => /\ conn'[d] = conn[d] /\ owedFrom'[d] = owedFrom[d]
                                          /\ written'[d] = written[d]
  BY <1>1, <1>2 DEF StreamTypes
<1>6. \A f \in Stream!Events : AtMostOnePicked(f)' /\ (publisher'[f].stage = "sending" => f <= appended')
  BY <1>1 DEF StreamInv, AtMostOnePicked
<1>7. ASSUME NEW d \in Stream!Conns, conn'[d] = "new" PROVE Untouched(d)'
  <2>1. Untouched(d)
    BY <1>5, <1>7 DEF StreamInv
  <2> QED
    BY <1>1, <2>1 DEF Untouched
<1>8. \A d \in Stream!Conns : conn'[d] \in {"new", "subscribed"} => written'[d] = {}
  BY <1>1, <1>5 DEF StreamInv
<1>9. ASSUME lastId[c] \in Stream!Buffer, NEW f \in Stream!Events, f > lastId[c], f <= appended
      PROVE  f \in sent
  <2>1. lastId[c] \in Stream!Events /\ lastId[c] \in Nat /\ f \in Nat /\ appended \in Nat
    BY <1>0, <1>2, <1>9, StreamAssumption DEF StreamTypes
  <2>2. f \in Stream!Buffer
    BY <1>9, <2>1, StreamAssumption DEF Stream!Buffer
  <2>3. lastId[c] # Stream!NoEvent
    BY <1>0, <2>1 DEF Stream!NoEvent
  <2>4. sent = {g \in Stream!Buffer : g >= Stream!AfterEvent(lastId[c])}
    BY <1>9, <2>3 DEF sent, Stream!Replayed
  <2> QED
    BY <1>9, <2>1, <2>2, <2>4 DEF Stream!AfterEvent
<1>10. ASSUME c \in subscribers PROVE Served(c)' /\ \A f \in Stream!Events : ReplayedTo(c, f)'
  <2>1. Served(c) /\ written[c] = {} /\ \A f \in Stream!Events : ReplayedTo(c, f)
    BY <1>1, <1>10 DEF StreamInv
  <2>2. CASE lastId[c] \in Stream!Buffer
    <3>1. Served(c)'
      <4>1. ASSUME NEW f \in lastId[c] + 1 .. appended PROVE f \in sent
        <5>1. f \in Stream!Events /\ f > lastId[c] /\ f <= appended
          <6>1. lastId[c] \in Nat /\ appended \in 0 .. MaxEvents
            BY <1>0, <1>2, <2>2 DEF StreamTypes
          <6> QED
            BY <4>1, <6>1, StreamAssumption DEF Stream!Events
        <5> QED
          BY <1>9, <2>2, <5>1
      <4> QED
        BY <1>1, <1>5, <2>2, <4>1 DEF Served
    <3>2. ASSUME NEW f \in Stream!Events PROVE ReplayedTo(c, f)'
      <4>1. SUFFICES ASSUME publisher[f].stage = "sending", f > lastId[c] PROVE f \in sent
        <5>1. lastId[c] \in Nat /\ f \in Nat
          BY <1>0, <2>2
        <5>2. f > lastId[c] \/ f <= lastId[c]
          BY <5>1
        <5> QED
          BY <1>1, <1>5, <2>2, <5>2 DEF ReplayedTo
      <4>2. f <= appended
        BY <4>1 DEF StreamInv
      <4> QED
        BY <1>9, <2>2, <4>1, <4>2
    <3> QED
      BY <3>1, <3>2
  <2>3. CASE lastId[c] \notin Stream!Buffer
    <3>1. owedFrom'[c] = owedFrom[c]
      BY <1>5, <2>3
    <3>2. Served(c)'
      BY <1>1, <1>5, <2>1, <3>1 DEF Served, Stream!OnItsWay, Stream!Contains, Stream!TooSlow
    <3>3. \A f \in Stream!Events : ReplayedTo(c, f)'
      BY <1>1, <1>5, <2>1, <3>1 DEF ReplayedTo
    <3> QED
      BY <3>2, <3>3
  <2> QED
    BY <2>2, <2>3
<1>11. ASSUME NEW d \in subscribers, d # c PROVE Served(d)' /\ \A f \in Stream!Events : ReplayedTo(d, f)'
  <2>1. d \in Stream!Conns /\ Served(d) /\ \A f \in Stream!Events : ReplayedTo(d, f)
    BY <1>2 DEF StreamInv, StreamTypes
  <2>2. Served(d)'
    BY <1>1, <1>5, <1>11, <2>1, StaysServed DEF Stream!OnItsWay, Stream!Contains, Stream!TooSlow
  <2>3. \A f \in Stream!Events : ReplayedTo(d, f)'
    BY <1>1, <1>5, <1>11, <2>1 DEF ReplayedTo
  <2> QED
    BY <2>2, <2>3
<1> QED
  BY <1>1, <1>4, <1>6, <1>7, <1>8, <1>10, <1>11 DEF StreamInv

LEMMA WriteStep ==
  ASSUME StreamInv, NEW c \in Stream!Conns, channel[c] # << >>,
         conn[c] = "streaming",
         written' = [written EXCEPT ![c] = written[c] \cup {Head(channel[c])}],
         channel' = [channel EXCEPT ![c] = Tail(channel[c])],
         UNCHANGED <<appended, subscribers, mapNo, inMap, closed, droppers, publisher, conn, lastId, owedFrom,
                     panicked>>
  PROVE  StreamInv'
<1> DEFINE q == channel[c]
<1>1. StreamTypes /\ q \in Seq(Stream!Events) /\ q # << >>
  BY DEF StreamInv, StreamTypes
<1>2. /\ Head(q) \in Stream!Events /\ Tail(q) \in Seq(Stream!Events) /\ Len(Tail(q)) = Len(q) - 1
      /\ Len(q) \in Nat /\ Len(q) > 0
      /\ \A i \in 1 .. Len(Tail(q)) : Tail(q)[i] = q[i + 1]
      /\ Head(q) = q[1]
  BY <1>1
<1>3. /\ written'[c] = written[c] \cup {Head(q)} /\ channel'[c] = Tail(q)
      /\ \A d \in Stream!Conns : d # c => written'[d] = written[d] /\ channel'[d] = channel[d]
      /\ written' \in [Stream!Conns -> SUBSET Stream!Events]
      /\ channel' \in [Stream!Conns -> Seq(Stream!Events)]
  BY <1>1, <1>2 DEF StreamTypes
<1>4. \A f : Stream!Contains(q, f) => f = Head(q) \/ Stream!Contains(Tail(q), f)
  <2>1. ASSUME NEW f, NEW i \in 1 .. Len(q), q[i] = f PROVE f = Head(q) \/ Stream!Contains(Tail(q), f)
    <3>1. CASE i = 1
      BY <1>2, <2>1, <3>1
    <3>2. CASE i # 1
      <4>1. i - 1 \in 1 .. Len(Tail(q)) /\ Tail(q)[i - 1] = f
        BY <1>2, <2>1, <3>2
      <4> QED
        BY <4>1 DEF Stream!Contains
    <3> QED
      BY <3>1, <3>2
  <2> QED
    BY <2>1 DEF Stream!Contains
<1>5. StreamTypes'
  BY <1>1, <1>3 DEF StreamTypes
<1>6. \A d \in Stream!Conns : Len(channel'[d]) <= ChannelSize
  <2>1. Len(Tail(q)) <= ChannelSize
    BY <1>2, StreamAssumption DEF StreamInv
  <2> QED
    BY <1>3, <2>1 DEF StreamInv
<1>7. \A f \in Stream!Events : AtMostOnePicked(f)' /\ (publisher'[f].stage = "sending" => f <= appended')
  BY DEF StreamInv, AtMostOnePicked
<1>8. \A d \in Stream!Conns : conn'[d] = "new" => Untouched(d)'
  BY DEF StreamInv, Untouched
<1>9. \A d \in Stream!Conns : conn'[d] \in {"new", "subscribed"} => written'[d] = {}
  BY <1>3 DEF StreamInv
<1>10. ASSUME NEW d \in subscribers PROVE Served(d)' /\ \A f \in Stream!Events : ReplayedTo(d, f)'
  <2>1. d \in Stream!Conns /\ Served(d) /\ \A f \in Stream!Events : ReplayedTo(d, f)
    BY <1>1, <1>10 DEF StreamInv, StreamTypes
  <2>2. \A f \in owedFrom[d] + 1 .. appended :
          f \in written[d] \/ Stream!OnItsWay(f, d) => f \in written'[d] \/ Stream!OnItsWay(f, d)'
    <3>1. CASE d = c
      BY <1>3, <1>4, <3>1 DEF Stream!OnItsWay
    <3>2. CASE d # c
      <4>1. written'[d] = written[d] /\ channel'[d] = channel[d]
        BY <1>3, <2>1, <3>2
      <4> QED
        BY <4>1 DEF Stream!OnItsWay
    <3> QED
      BY <3>1, <3>2
  <2>3. Served(d)'
    BY <2>1, <2>2, StaysServed DEF Stream!TooSlow
  <2>4. written[d] \subseteq written'[d]
    BY <1>3, <2>1
  <2>5. \A f \in Stream!Events : ReplayedTo(d, f)'
    BY <2>1, <2>4 DEF ReplayedTo
  <2> QED
    BY <2>3, <2>5
<1> QED
  BY <1>5, <1>6, <1>7, <1>8, <1>9, <1>10 DEF StreamInv

(* A connection ends: it stops streaming, and then is no subscriber.       *)
LEMMA LeaveStep ==
  ASSUME StreamInv, NEW c \in Stream!Conns, NEW to \in {"leaving", "gone"},
         conn[c] # "new", conn' = [conn EXCEPT ![c] = to],
         \/ UNCHANGED <<subscribers, closed>>
         \/ subscribers' = subscribers \ {c} /\ closed' = closed \cup {c},
         UNCHANGED <<appended, mapNo, inMap, channel, droppers, publisher, lastId, written, owedFrom, panicked>>
  PROVE  StreamInv'
<1>1. StreamTypes
  BY DEF StreamInv
<1>2. /\ conn'[c] = to /\ \A d \in Stream!Conns : d # c => conn'[d] = conn[d]
      /\ conn' \in [Stream!Conns -> {"new", "subscribed", "streaming", "leaving", "gone"}]
      /\ subscribers' \subseteq subscribers /\ closed' \subseteq closed \cup {c}
  BY <1>1 DEF StreamTypes
<1>3. StreamTypes'
  BY <1>1, <1>2 DEF StreamTypes
<1>4. \A f \in Stream!Events : AtMostOnePicked(f)' /\ (publisher'[f].stage = "sending" => f <= appended')
  BY DEF StreamInv, AtMostOnePicked
<1>5. ASSUME NEW d \in Stream!Conns, conn'[d] = "new" PROVE Untouched(d)'
  <2>1. Untouched(d) /\ d # c
    BY <1>2, <1>5 DEF StreamInv
  <2> QED
    BY <1>2, <2>1 DEF Untouched
<1>6. \A d \in Stream!Conns : conn'[d] \in {"new", "subscribed"} => written'[d] = {}
  BY <1>2 DEF StreamInv
<1>7. ASSUME NEW d \in subscribers' PROVE Served(d)' /\ \A f \in Stream!Events : ReplayedTo(d, f)'
  <2>1. d \in Stream!Conns /\ Served(d) /\ \A f \in Stream!Events : ReplayedTo(d, f)
    BY <1>1, <1>2, <1>7 DEF StreamInv, StreamTypes
  <2>2. Served(d)'
    BY <1>2, <2>1, StaysServed DEF Stream!OnItsWay, Stream!Contains, Stream!TooSlow
  <2>3. \A f \in Stream!Events : ReplayedTo(d, f)'
    <3>1. conn[d] = "subscribed" \/ conn'[d] # "subscribed"
      BY <1>2, <2>1
    <3>2. ASSUME NEW f \in Stream!Events PROVE ReplayedTo(d, f)'
      <4>1. conn[d] # "subscribed" => conn'[d] # "subscribed"
        BY <3>1
      <4>2. conn[d] = "subscribed" => conn'[d] = "subscribed" \/ written'[d] = written[d]
        OBVIOUS
      <4> QED
        BY <1>2, <2>1, <4>1 DEF ReplayedTo
    <3> QED
      BY <3>2
  <2> QED
    BY <2>2, <2>3
<1>8. subscribers' \cap closed' = {}
  BY DEF StreamInv
<1> QED
  BY <1>3, <1>4, <1>5, <1>6, <1>7, <1>8 DEF StreamInv

LEMMA ConnectionSteps ==
  ASSUME StreamInv, NEW c \in Stream!Conns, Stream!Stream(c) \/ Stream!Disconnect(c) \/ Stream!Unsubscribe(c)
  PROVE  StreamInv'
<1>1. CASE Stream!Stream(c)
  <2>1. CASE channel[c] # << >> /\ UNCHANGED conn
    BY <1>1, <2>1, WriteStep DEF Stream!Stream
  <2>2. CASE conn' = [conn EXCEPT ![c] = "leaving"] /\ UNCHANGED <<channel, written>>
    BY <1>1, <2>2, LeaveStep DEF Stream!Stream
  <2> QED
    BY <1>1, <2>1, <2>2 DEF Stream!Stream
<1>2. CASE Stream!Disconnect(c)
  BY <1>2, LeaveStep DEF Stream!Disconnect, Stream!hubVars
<1>3. CASE Stream!Unsubscribe(c)
  BY <1>3, LeaveStep DEF Stream!Unsubscribe
<1> QED
  BY <1>1, <1>2, <1>3

LEMMA StreamNext == StreamInv /\ (Stream!Next \/ UNCHANGED streamVars) => StreamInv'
<1>1. ASSUME StreamInv, Stream!Next PROVE StreamInv'
  BY <1>1, PublishStep, VisitStep, SendStep, PublishedStep, DropStep, SubscribeStep, ReplayStep,
    ConnectionSteps DEF Stream!Next
<1>2. ASSUME StreamInv, UNCHANGED streamVars PROVE StreamInv'
  <2>1. UNCHANGED <<appended, subscribers, mapNo, inMap, channel, closed, publisher, droppers, conn, lastId,
                    written, owedFrom, panicked>>
    BY <1>2 DEF streamVars
  <2>2. StreamTypes'
    BY <1>2, <2>1 DEF StreamInv, StreamTypes
  <2>3. \A c \in Stream!Conns : (Served(c)' <=> Served(c)) /\ (Untouched(c)' <=> Untouched(c))
    BY <2>1 DEF Served, Untouched, Stream!OnItsWay, Stream!Contains, Stream!TooSlow
  <2>4. \A c \in Stream!Conns, e \in Stream!Events : ReplayedTo(c, e)' <=> ReplayedTo(c, e)
    BY <2>1 DEF ReplayedTo
  <2>5. subscribers \subseteq Stream!Conns
    BY <1>2 DEF StreamInv, StreamTypes
  <2> QED
    BY <1>2, <2>1, <2>2, <2>3, <2>4, <2>5 DEF StreamInv, AtMostOnePicked
<1> QED
  BY <1>1, <1>2

LEMMA StreamInvariance == Spec => []StreamInv
<1>1. StreamInv /\ [Next]_vars => StreamInv'
  BY StepOfOne, StreamNext
<1> QED
  BY <1>1, StreamInit, PTL DEF Spec

(* For any number of clients and events, and any sizes of the buffer and   *)
(* of the channels: a client that is neither dropped nor gone misses no    *)
(* event after the one it named or its subscription (Publish, handleSSE,   *)
(* AfterEvent), although publishers read the subscribers without the lock. *)
THEOREM ClientsMissNothing == Spec => []NothingMissed
<1>1. StreamInv => NothingMissed
  BY DEF StreamInv, Served, NothingMissed, Stream!NothingMissed
<1> QED
  BY <1>1, StreamInvariance, PTL

-----------------------------------------------------------------------------
(* The types of all parts                                                  *)

LEMMA MappedInvariance == Spec => [](mapped \in BOOLEAN)
<1>1. Init => mapped \in BOOLEAN
  <2>1. Init => Stream!Init
    BY DEF Init
  <2>2. Stream!Init => mapped = FALSE
    BY DEF Stream!Init
  <2> QED
    BY <2>1, <2>2, Zenon
<1>2. ASSUME mapped \in BOOLEAN, [Next]_vars PROVE (mapped \in BOOLEAN)'
  <2>1. CASE Stream!Next
    <3>1. CASE UNCHANGED mapped
      BY <1>2, <3>1
    <3>2. CASE \E c \in Stream!Conns : Stream!Unsubscribe(c)
      <4>1. mapped' = (mapped /\ subscribers' # {})
        BY <3>2 DEF Stream!Unsubscribe
      <4> QED
        BY <4>1, Zenon
    <3>3. CASE \E c \in Stream!Conns, since \in 0 .. appended : Stream!Subscribe(c, since)
      <4>1. mapped' = TRUE
        BY <3>3 DEF Stream!Subscribe
      <4> QED
        BY <4>1, Zenon
    <3>4. CASE \/ \E e \in Stream!Events :
                    \/ Stream!Publish(e) \/ Stream!Published(e)
                    \/ \E c \in Stream!Conns : Stream!Visit(e, c) \/ Stream!Send(e, c) \/ Stream!DropSlow(e, c)
               \/ \E c \in Stream!Conns : Stream!Replay(c) \/ Stream!Stream(c) \/ Stream!Disconnect(c)
      BY <3>1, <3>4 DEF Stream!Publish, Stream!Published, Stream!Visit, Stream!Send, Stream!DropSlow,
        Stream!Replay, Stream!Stream, Stream!Disconnect, Stream!hubVars
    <3> QED
      BY <2>1, <3>2, <3>3, <3>4 DEF Stream!Next
  <2>2. CASE UNCHANGED streamVars
    BY <1>2, <2>2 DEF streamVars
  <2> QED
    BY <1>2, <2>1, <2>2, StepOfOne
<1> QED
  BY <1>1, <1>2, PTL DEF Spec

LEMMA StreamTypeCorrect == StreamInv /\ mapped \in BOOLEAN => Stream!TypeOK
<1> SUFFICES ASSUME StreamInv, mapped \in BOOLEAN PROVE Stream!TypeOK
  OBVIOUS
<1>1. StreamTypes
  BY DEF StreamInv
<1>2. ASSUME NEW e \in Stream!Events PROVE Stream!Cardinality(publisher[e].picked) <= 1
  <2> DEFINE S == publisher[e].picked
  <2>1. Stream!Cardinality(S) = Cardinality(S)
    BY DEF Stream!Cardinality, Cardinality, Stream!IsFiniteSet, IsFiniteSet
  <2>2. CASE S = {}
    BY <2>1, <2>2, FS_EmptySet
  <2>3. CASE S # {}
    <3>1. PICK c : S = {c}
      <4>1. PICK c \in S : TRUE
        BY <2>3
      <4>2. \A d \in S : d = c
        BY <4>1 DEF StreamInv, AtMostOnePicked
      <4> QED
        BY <4>1, <4>2
    <3>2. Cardinality(S) = 1
      BY <3>1, FS_Singleton
    <3> QED
      BY <2>1, <3>2
  <2> QED
    BY <2>2, <2>3
<1>3. \A e \in Stream!Events : publisher[e].stage \in {"idle", "sending", "done"}
  BY <1>1 DEF StreamTypes, PublisherRecords
<1> QED
  BY <1>1, <1>2, <1>3 DEF StreamInv, StreamTypes, Stream!TypeOK

(* The variables of every part stay in their types, for any values of the  *)
(* constants.                                                              *)
THEOREM PartsKeepTheirTypes == Spec => []TypeOK
<1>1. Init => part \in Parts
  BY DEF Init
<1>2. part \in Parts /\ [Next]_vars => (part \in Parts)'
  BY DEF Next, vars, SettingsStep, SessionStep, StreamStep, MCPStep, WorkStep, BrowserStep, MemoryStep,
    IndexStep, IntakeStep
<1>3. Spec => [](part \in Parts)
  BY <1>1, <1>2, PTL DEF Spec
<1>4. /\ part \in Parts /\ SettingsInv /\ SessionInv /\ StreamInv /\ mapped \in BOOLEAN /\ MCPInv /\ WorkInv
      /\ BrowserInv /\ MemoryInv /\ IndexInv /\ IntakeInv
      => TypeOK
  BY StreamTypeCorrect DEF TypeOK, SettingsInv, SessionInv, MCPInv, WorkInv, BrowserInv, MemoryInv, IndexInv,
    IntakeInv
<1> QED
  BY <1>3, <1>4, SettingsInvariance, SessionInvariance, StreamInvariance, MappedInvariance, MCPInvariance, WorkInvariance,
    BrowserInvariance, MemoryInvariance, IndexInvariance, IntakeInvariance, PTL

=============================================================================
