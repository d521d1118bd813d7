--------------------------- MODULE MCPlanning_proofs ---------------------------
(***************************************************************************)
(* Proofs about what a planning uses: the skills and personas of its       *)
(* context, the model its components ask, and what the planner adds to the *)
(* LLM's list of tasks.  What becomes of the dependencies of that list is  *)
(* the subject of PlanDependencies_proofs.                                 *)
(***************************************************************************)
EXTENDS MCPlanning, PlanDependencies_proofs, SequenceTheorems

(* A step is a step of one part, and a stutter of the others.              *)
LEMMA StepOfOne ==
  ASSUME [PlanningNext]_<<part, vars, assetVars, modelVars, walkVars>>
  PROVE  /\ Assets!Next \/ UNCHANGED assetVars
         /\ Model!Next \/ UNCHANGED modelVars
         /\ Walk!Next \/ UNCHANGED walkVars
BY DEF PlanningNext, PlanStep, AssetStep, ModelStep, WalkStep

-----------------------------------------------------------------------------
(* The model in force                                                      *)

(* A request that has not put its provider in yet.                         *)
Early == {"new", "locking", "waiting"}

(* The write lock is announced by the one request that waits for it.       *)
LockIsHeld ==
  /\ writer # Nobody => change[writer] = "waiting"
  /\ \A r \in Changes : change[r] = "waiting" => writer = r

(* A name is given out only by a request whose provider is in.             *)
NamesAreIn ==
  /\ \A c \in Model!Components : name[c] \in Changes => change[name[c]] \notin Early
  /\ \A g \in Callers : caller[g].asks \in Changes => change[caller[g].asks] \notin Early

CallsAreInForce == \A g \in Callers : caller[g].at = "calling" => caller[g].of = inner

(* What a request has done when no other changes the model: first the      *)
(* provider, then the names one after the other.                           *)
Progress(r) ==
  CASE change[r] \in {"locking", "waiting"} -> \A c \in Model!Renamed : name[c] = inner
    [] change[r] \in {"naming", "router"} -> inner = r
    [] change[r] = "analyzer" -> inner = r /\ name["router"] = r
    [] change[r] = "planner" -> inner = r /\ name["router"] = r /\ name["analyzer"] = r
    [] OTHER -> TRUE

OneAtATime ==
  ~ overlap =>
    /\ \A r, q \in Changes : Model!InProgress(r) /\ Model!InProgress(q) => r = q
    /\ (\A r \in Changes : ~ Model!InProgress(r)) => \A c \in Model!Renamed : name[c] = inner
    /\ \A r \in Changes : Progress(r)

ModelInv ==
  /\ Model!TypeOK
  /\ LockIsHeld /\ NamesAreIn /\ CallsAreInForce /\ OneAtATime


LEMMA ModelInit == PlanningInit => ModelInv
<1> SUFFICES ASSUME Model!Init PROVE ModelInv
  BY DEF PlanningInit
<1>1. /\ inner = Model!Initial /\ writer = Nobody
      /\ name = [c \in Model!Components |-> Model!Initial]
      /\ caller = [g \in Callers |-> Model!Away]
      /\ change = [r \in Changes |-> "new"]
      /\ overlap = FALSE
  BY DEF Model!Init
<1>2. Model!Initial \in Model!Providers /\ Model!Initial \notin Changes /\ Nobody \notin Changes
  BY ModelAssumption DEF Model!Providers
<1>3. /\ Model!Away.asks = Model!Initial /\ Model!Away.at = "away"
      /\ Model!Away \in [at : {"away", "waiting", "calling"}, asks : Model!Providers, of : Model!Providers]
  BY <1>2 DEF Model!Away
<1>4. Model!TypeOK
  BY <1>1, <1>2, <1>3 DEF Model!TypeOK
<1>5. LockIsHeld /\ NamesAreIn /\ CallsAreInForce
  BY <1>1, <1>2, <1>3 DEF LockIsHeld, NamesAreIn, CallsAreInForce
<1>6. OneAtATime
  BY <1>1 DEF OneAtATime, Progress, Model!InProgress, Model!Renamed, Model!Components
<1> QED
  BY <1>4, <1>5, <1>6 DEF ModelInv

(* A step of a caller changes nothing else.                                *)
LEMMA CallerStep ==
  ASSUME ModelInv, NEW g \in Callers, UNCHANGED <<inner, writer, name, change, overlap>>,
         NEW new \in [at : {"away", "waiting", "calling"}, asks : Model!Providers, of : Model!Providers],
         caller' = [caller EXCEPT ![g] = new],
         new.asks \in Changes => change[new.asks] \notin Early,
         new.at = "calling" => new.of = inner
  PROVE  ModelInv'
<1>1. Model!TypeOK' /\ LockIsHeld' /\ CallsAreInForce'
  BY DEF ModelInv, Model!TypeOK, LockIsHeld, CallsAreInForce
<1>2. NamesAreIn'
  BY DEF ModelInv, Model!TypeOK, NamesAreIn
<1>3. OneAtATime'
  BY DEF ModelInv, OneAtATime, Progress, Model!InProgress
<1> QED
  BY <1>1, <1>2, <1>3 DEF ModelInv

LEMMA CallerSteps ==
  ASSUME ModelInv, NEW g \in Callers,
         (\E c \in Model!Components : Model!Ask(g, c)) \/ Model!Chat(g) \/ Model!Return(g)
  PROVE  ModelInv'
<1> DEFINE Records == [at : {"away", "waiting", "calling"}, asks : Model!Providers, of : Model!Providers]
<1>1. caller[g] \in Records /\ inner \in Model!Providers /\ caller \in [Callers -> Records]
  BY DEF ModelInv, Model!TypeOK
<1>2. Model!Away \in Records /\ Model!Away.asks \notin Changes /\ Model!Away.at # "calling"
  BY ModelAssumption DEF Model!Away, Model!Providers
<1>3. ASSUME NEW c \in Model!Components, Model!Ask(g, c) PROVE ModelInv'
  <2> DEFINE new == [caller[g] EXCEPT !.at = "waiting", !.asks = name[c]]
  <2>1. name[c] \in Model!Providers /\ (name[c] \in Changes => change[name[c]] \notin Early)
    BY DEF ModelInv, Model!TypeOK, NamesAreIn
  <2>2. new \in Records /\ new.asks = name[c] /\ new.at = "waiting"
    BY <1>1, <2>1
  <2>3. caller' = [caller EXCEPT ![g] = new]
    BY <1>1, <1>3 DEF Model!Ask
  <2>4. UNCHANGED <<inner, writer, name, change, overlap>>
    BY <1>3 DEF Model!Ask
  <2> HIDE DEF new
  <2> QED
    BY <2>1, <2>2, <2>3, <2>4, CallerStep
<1>4. CASE Model!Chat(g)
  <2> DEFINE new == [caller[g] EXCEPT !.at = "calling", !.of = inner]
  <2>1. new \in Records /\ new.asks = caller[g].asks /\ new.of = inner
    BY <1>1
  <2>2. caller' = [caller EXCEPT ![g] = new]
    BY <1>1, <1>4 DEF Model!Chat
  <2>3. UNCHANGED <<inner, writer, name, change, overlap>>
    BY <1>4 DEF Model!Chat
  <2>4. new.asks \in Changes => change[new.asks] \notin Early
    BY <2>1 DEF ModelInv, NamesAreIn
  <2> HIDE DEF new
  <2> QED
    BY <2>1, <2>2, <2>3, <2>4, CallerStep
<1>5. CASE Model!Return(g)
  <2>1. UNCHANGED <<inner, writer, name, change, overlap>> /\ caller' = [caller EXCEPT ![g] = Model!Away]
    BY <1>5 DEF Model!Return
  <2> QED
    BY <1>2, <2>1, CallerStep
<1> QED
  BY <1>3, <1>4, <1>5

(* What the steps of a request keep of names and calls: nobody goes back   *)
(* to an early stage.                                                      *)
LEMMA NamesStayIn ==
  ASSUME NamesAreIn, UNCHANGED <<name, caller>>, \A r \in Changes : change[r] \notin Early => change'[r] \notin Early
  PROVE  NamesAreIn'
BY DEF NamesAreIn

LEMMA RequestStep ==
  ASSUME ModelInv, NEW r \in Changes,
         \/ Model!Refuse(r) \/ Model!Receive(r) \/ Model!Lock(r)
         \/ Model!Swap(r) \/ Model!SetModel(r) \/ Model!UseLLM(r)
  PROVE  ModelInv'
<1>1. Model!TypeOK /\ LockIsHeld /\ NamesAreIn /\ CallsAreInForce /\ OneAtATime
  BY DEF ModelInv
<1>2. change \in [Changes -> {"new", "locking", "waiting", "naming", "router", "analyzer", "planner", "done"}]
  BY <1>1 DEF Model!TypeOK
<1>3. r # Nobody /\ r \in Model!Providers
  BY ModelAssumption DEF Model!Providers
<1>4. CASE Model!Refuse(r)
  <2>1. change' = [change EXCEPT ![r] = "done"] /\ change[r] = "new" /\ UNCHANGED <<inner, writer, name, caller, overlap>>
    BY <1>4 DEF Model!Refuse
  <2>2. Model!TypeOK' /\ LockIsHeld' /\ CallsAreInForce'
    BY <1>1, <1>2, <2>1 DEF Model!TypeOK, LockIsHeld, CallsAreInForce
  <2>3. NamesAreIn'
    BY <1>1, <1>2, <2>1, NamesStayIn DEF Early
  <2>4. OneAtATime'
    BY <1>1, <1>2, <2>1 DEF OneAtATime, Progress, Model!InProgress
  <2> QED
    BY <2>2, <2>3, <2>4 DEF ModelInv
<1>5. CASE Model!Receive(r)
  <2>1. change' = [change EXCEPT ![r] = "locking"] /\ change[r] = "new" /\ UNCHANGED <<inner, writer, name, caller>>
    BY <1>5 DEF Model!Receive
  <2>2. overlap' = (overlap \/ \E q \in Changes : Model!InProgress(q)) /\ overlap' \in BOOLEAN
    BY ONLY <1>5, Zenon DEF Model!Receive
  <2>3. Model!TypeOK' /\ LockIsHeld' /\ CallsAreInForce'
    BY <1>1, <1>2, <2>1, <2>2 DEF Model!TypeOK, LockIsHeld, CallsAreInForce
  <2>4. NamesAreIn'
    BY <1>1, <1>2, <2>1, NamesStayIn DEF Early
  <2>5. OneAtATime'
    <3>1. SUFFICES ASSUME ~ overlap, \A q \in Changes : ~ Model!InProgress(q) PROVE OneAtATime'
      BY <2>2 DEF OneAtATime
    <3>2. \A c \in Model!Renamed : name[c] = inner
      BY <1>1, <3>1 DEF OneAtATime
    <3> QED
      BY <1>2, <2>1, <3>1, <3>2 DEF OneAtATime, Progress, Model!InProgress
  <2> QED
    BY <2>3, <2>4, <2>5 DEF ModelInv
<1>6. CASE Model!Lock(r)
  <2>1. /\ change' = [change EXCEPT ![r] = "waiting"] /\ change[r] = "locking" /\ writer = Nobody /\ writer' = r
        /\ UNCHANGED <<inner, name, caller, overlap>>
    BY <1>6 DEF Model!Lock
  <2>2. Model!TypeOK' /\ LockIsHeld' /\ CallsAreInForce'
    BY <1>1, <1>2, <1>3, <2>1, ModelAssumption DEF Model!TypeOK, LockIsHeld, CallsAreInForce
  <2>3. NamesAreIn'
    BY <1>1, <1>2, <2>1, NamesStayIn DEF Early
  <2>4. OneAtATime'
    BY <1>1, <1>2, <2>1 DEF OneAtATime, Progress, Model!InProgress
  <2> QED
    BY <2>2, <2>3, <2>4 DEF ModelInv
<1>7. CASE Model!Swap(r)
  <2>1. /\ change' = [change EXCEPT ![r] = "naming"] /\ change[r] = "waiting" /\ inner' = r /\ writer' = Nobody
        /\ UNCHANGED <<name, caller, overlap>>
    BY <1>7 DEF Model!Swap
  <2>2. CallsAreInForce'
    BY <1>7, <2>1 DEF Model!Swap, Model!ReadersGone, CallsAreInForce
  <2>3. Model!TypeOK' /\ LockIsHeld'
    BY <1>1, <1>2, <1>3, <2>1 DEF Model!TypeOK, LockIsHeld
  <2>4. NamesAreIn'
    BY <1>1, <1>2, <2>1, NamesStayIn DEF Early
  <2>5. OneAtATime'
    BY <1>1, <1>2, <2>1 DEF OneAtATime, Progress, Model!InProgress
  <2> QED
    BY <2>2, <2>3, <2>4, <2>5 DEF ModelInv
<1>8. CASE Model!SetModel(r)
  <2>1. change' = [change EXCEPT ![r] = "router"] /\ change[r] = "naming" /\ UNCHANGED <<inner, writer, name, caller, overlap>>
    BY <1>8 DEF Model!SetModel
  <2>2. Model!TypeOK' /\ LockIsHeld' /\ CallsAreInForce'
    BY <1>1, <1>2, <2>1 DEF Model!TypeOK, LockIsHeld, CallsAreInForce
  <2>3. NamesAreIn'
    BY <1>1, <1>2, <2>1, NamesStayIn DEF Early
  <2>4. OneAtATime'
    BY <1>1, <1>2, <2>1 DEF OneAtATime, Progress, Model!InProgress
  <2> QED
    BY <2>2, <2>3, <2>4 DEF ModelInv
<1>9. CASE Model!UseLLM(r)
  <2>1. /\ change[r] \in Model!Renamed
        /\ name' = [name EXCEPT ![change[r]] = r]
        /\ change' = [change EXCEPT ![r] = Model!After[change[r]]]
        /\ UNCHANGED <<inner, writer, caller, overlap>>
    BY <1>9 DEF Model!UseLLM
  <2>2. /\ change[r] = "router" => Model!After[change[r]] = "analyzer"
        /\ change[r] = "analyzer" => Model!After[change[r]] = "planner"
        /\ change[r] = "planner" => Model!After[change[r]] = "done"
    BY DEF Model!After
  <2>3. Model!After[change[r]] \in {"analyzer", "planner", "done"}
    BY <2>1, <2>2 DEF Model!Renamed
  <2>4. name \in [Model!Components -> Model!Providers]
    BY <1>1 DEF Model!TypeOK
  <2>5. Model!TypeOK' /\ LockIsHeld' /\ CallsAreInForce'
    BY <1>1, <1>2, <1>3, <2>1, <2>3 DEF Model!TypeOK, LockIsHeld, CallsAreInForce, Model!Renamed, Model!Components
  <2>6. \A q \in Changes : change[q] \notin Early => change'[q] \notin Early
    BY <1>2, <2>1, <2>3 DEF Early
  <2>7. change'[r] \notin Early
    BY <1>2, <2>1, <2>3 DEF Early
  <2>8. NamesAreIn'
    BY <1>1, <2>1, <2>4, <2>6, <2>7 DEF NamesAreIn
  <2>9. OneAtATime'
    <3> SUFFICES ASSUME ~ overlap PROVE OneAtATime'
      BY <2>1 DEF OneAtATime
    <3>1. \A q \in Changes : q # r => ~ Model!InProgress(q)
      BY <1>1, <2>1 DEF OneAtATime, Model!InProgress, Model!Renamed
    <3>2. \A q \in Changes : q # r => change'[q] \in {"new", "done"}
      BY <1>2, <2>1, <3>1 DEF Model!InProgress
    <3>3. Progress(r)
      BY <1>1 DEF OneAtATime
    <3>4. change[r] = "router" => Progress(r)' /\ change'[r] = "analyzer"
      BY <1>2, <2>1, <2>2, <2>4, <3>3 DEF Progress, Model!Renamed, Model!Components
    <3>5. change[r] = "analyzer" => Progress(r)' /\ change'[r] = "planner"
      BY <1>2, <2>1, <2>2, <2>4, <3>3 DEF Progress, Model!Renamed, Model!Components
    <3>6. change[r] = "planner" => change'[r] = "done" /\ \A c \in Model!Renamed : name'[c] = inner'
      BY <1>2, <2>1, <2>2, <2>4, <3>3 DEF Progress, Model!Renamed, Model!Components
    <3>7. \A q \in Changes : Progress(q)'
      BY <2>1, <3>2, <3>4, <3>5, <3>6 DEF Progress, Model!Renamed
    <3> QED
      BY <2>1, <3>2, <3>4, <3>5, <3>6, <3>7 DEF OneAtATime, Model!InProgress, Model!Renamed
  <2> QED
    BY <2>5, <2>8, <2>9 DEF ModelInv
<1> QED
  BY <1>4, <1>5, <1>6, <1>7, <1>8, <1>9

LEMMA ModelNext ==
  ASSUME ModelInv, [PlanningNext]_<<part, vars, assetVars, modelVars, walkVars>>
  PROVE  ModelInv'
<1>1. ASSUME Model!Next PROVE ModelInv'
  BY <1>1, CallerSteps, RequestStep DEF Model!Next
<1>2. ASSUME UNCHANGED modelVars PROVE ModelInv'
  BY <1>2 DEF modelVars, ModelInv, Model!TypeOK, LockIsHeld, NamesAreIn, CallsAreInForce, OneAtATime, Progress,
    Model!InProgress
<1> QED
  BY <1>1, <1>2, StepOfOne

(* internal/provider/swappable.go, internal/app/web.go: a change of the    *)
(* model is in force at once for every call, and the planning components   *)
(* end with its name, whatever callers and requests there are.             *)
THEOREM ModelChangesAtOnce == PlanningSpec => []ModelInForce
<1>1. ModelInv => ModelInForce
  BY DEF ModelInv, ModelInForce, Model!ModelInForce, CallsAreInForce, NamesAreIn, OneAtATime, Early
<1> QED
  BY <1>1, ModelInit, ModelNext, PTL DEF PlanningSpec

-----------------------------------------------------------------------------
(* The registry                                                            *)

(* Only one request at a time has an asset that is not spoiled in hand,    *)
(* and between its two steps it knows what the file and the card are.      *)
EditorFits(e) ==
  LET i == editor[e].id
  IN  /\ editor[e].at = "write" => editor[e].text # Unparsed
      /\ editor[e].at = "away" => i = Unparsed
      /\ editor[e].at # "away" => i \in Ids
      /\ i \in Ids \ spoiled =>
           /\ \A f \in Editors : editor[f].id = i => f = e
           /\ editor[e].at \in {"write", "remove"} => cards[i] = paths[i]
           /\ editor[e].at = "parse" => paths[i] # Unparsed
           /\ editor[e].at = "register" => paths[i] = editor[e].text
           /\ editor[e].at = "unregister" => paths[i] = Unparsed

(* What a planning found is there until somebody touches it.               *)
FoundIsThere ==
  \A i \in planning.found \ (planning.touched \cup spoiled) : cards[i] # Unparsed /\ ~ Assets!InHand(i)

AssetsInv ==
  /\ Assets!TypeOK
  /\ \A e \in Editors : EditorFits(e)
  /\ Assets!CardsMatchFiles
  /\ planning.at \in {"loading", "reading"} => FoundIsThere
  /\ planning.at = "reading" => planning.id \in planning.found
  /\ Assets!FailsForAReason

LEMMA AssetsInit == PlanningInit => AssetsInv
<1> SUFFICES ASSUME Assets!Init PROVE AssetsInv
  BY DEF PlanningInit
<1>1. /\ kind \in {"skills", "personas"} /\ paths \in [Ids -> Texts \cup {Unparsed}] /\ cards = paths
      /\ editor = [e \in Editors |-> Assets!Away]
      /\ spoiled = {} /\ planning = Assets!NoPlanning
  BY DEF Assets!Init
<1>2. /\ Assets!Away.at = "away" /\ Assets!Away.id = Unparsed
      /\ Assets!Away \in [at : {"away", "write", "parse", "register", "remove", "unregister"},
                          id : Ids \cup {Unparsed}, text : Assets!Contents]
  BY DEF Assets!Away, Assets!Contents
<1>3. /\ Assets!NoPlanning.at = "away"
      /\ Assets!NoPlanning \in [at : {"away", "loading", "reading", "failed"}, found : SUBSET Ids,
                                id : Ids \cup {Unparsed}, touched : SUBSET Ids]
  BY DEF Assets!NoPlanning
<1>4. paths \in [Ids -> Assets!Contents]
  BY <1>1 DEF Assets!Contents
<1>5. Assets!TypeOK
  BY <1>1, <1>2, <1>3, <1>4 DEF Assets!TypeOK
<1>6. \A e \in Editors : EditorFits(e)
  BY <1>1, <1>2, AssetsAssumption DEF EditorFits
<1> QED
  BY <1>1, <1>3, <1>5, <1>6 DEF AssetsInv, Assets!CardsMatchFiles, Assets!FailsForAReason

(* What every state of the invariant says in terms of one record.          *)
EditorRecords == [at : {"away", "write", "parse", "register", "remove", "unregister"},
                  id : Ids \cup {Unparsed}, text : Assets!Contents]
PlanningRecords == [at : {"away", "loading", "reading", "failed"}, found : SUBSET Ids,
                    id : Ids \cup {Unparsed}, touched : SUBSET Ids]

LEMMA AssetTypes ==
  ASSUME AssetsInv
  PROVE  /\ kind \in {"skills", "personas"}
         /\ cards \in [Ids -> Assets!Contents] /\ paths \in [Ids -> Assets!Contents]
         /\ editor \in [Editors -> EditorRecords]
         /\ spoiled \subseteq Ids
         /\ planning \in PlanningRecords
BY DEF AssetsInv, Assets!TypeOK, EditorRecords, PlanningRecords

(* A planning is told of everything a request starts to change: what the   *)
(* handlers leave untouched and unspoiled stays.                           *)
PlanningFits ==
  /\ planning.at \in {"loading", "reading"} => FoundIsThere
  /\ planning.at = "reading" => planning.id \in planning.found
  /\ Assets!FailsForAReason

(* A request's step on an asset i that the planning knows of, or that it   *)
(* never found, leaves the planning in order.                              *)
LEMMA PlanningKept ==
  ASSUME AssetsInv,
         NEW gone \in SUBSET Ids, Assets!Touch(gone), spoiled \subseteq spoiled',
         \A i \in Ids \ (gone \cup spoiled') :
           ~ Assets!InHand(i) => cards'[i] = cards[i] /\ ~ Assets!InHand(i)'
  PROVE  PlanningFits'
<1>1. planning \in PlanningRecords
  BY AssetTypes
<1>2. /\ planning'.at = planning.at /\ planning'.found = planning.found /\ planning'.id = planning.id
      /\ planning'.touched = planning.touched \cup (gone \cap planning.found)
  BY <1>1 DEF Assets!Touch, PlanningRecords
<1>3. planning.found \subseteq Ids
  BY <1>1 DEF PlanningRecords
<1>4. ASSUME FoundIsThere PROVE FoundIsThere'
  BY <1>2, <1>3, <1>4 DEF FoundIsThere
<1> QED
  BY <1>2, <1>4 DEF AssetsInv, PlanningFits, Assets!FailsForAReason

(* What a step of one request keeps of the others: it changes the file and *)
(* the card of the asset it has in hand, and of no other that is not       *)
(* spoiled by it.                                                          *)
LEMMA RequestKept ==
  ASSUME AssetsInv, NEW e \in Editors, NEW new \in EditorRecords,
         editor' = [editor EXCEPT ![e] = new], UNCHANGED kind,
         cards' \in [Ids -> Assets!Contents], paths' \in [Ids -> Assets!Contents],
         spoiled \subseteq spoiled', spoiled' \subseteq Ids,
         \A i \in Ids \ spoiled' : i # editor[e].id => cards'[i] = cards[i] /\ paths'[i] = paths[i],
         new.id \in Ids \ spoiled' => \A f \in Editors \ {e} : editor[f].id # new.id,
         new.id # editor[e].id /\ editor[e].id \in Ids \ spoiled' => cards'[editor[e].id] = paths'[editor[e].id],
         EditorFits(e)',
         PlanningFits', planning' \in PlanningRecords
  PROVE  AssetsInv'
<1>1. editor \in [Editors -> EditorRecords] /\ editor' \in [Editors -> EditorRecords]
  BY AssetTypes
<1>2. editor'[e] = new /\ \A f \in Editors \ {e} : editor'[f] = editor[f]
  BY <1>1
<1>3. Assets!TypeOK'
  BY <1>1, AssetTypes DEF Assets!TypeOK, EditorRecords, PlanningRecords
<1>4. ASSUME NEW f \in Editors \ {e} PROVE EditorFits(f)'
  <2>1. EditorFits(f) /\ editor'[f] = editor[f]
    BY <1>2 DEF AssetsInv
  <2>2. ASSUME editor[f].id \in Ids \ spoiled'
        PROVE  /\ editor[f].id # new.id /\ editor[f].id # editor[e].id
               /\ \A g \in Editors : editor'[g].id = editor[f].id => g = f
               /\ cards'[editor[f].id] = cards[editor[f].id] /\ paths'[editor[f].id] = paths[editor[f].id]
    BY <1>2, <2>1, <2>2 DEF EditorFits
  <2> QED
    BY <2>1, <2>2 DEF EditorFits
<1>5. Assets!CardsMatchFiles'
  <2>1. ASSUME NEW i \in Ids \ spoiled', ~ Assets!InHand(i)' PROVE cards'[i] = paths'[i]
    <3>1. i # new.id /\ \A f \in Editors \ {e} : editor[f].id # i
      BY <1>2, <2>1 DEF Assets!InHand
    <3>2. CASE i = editor[e].id
      BY <2>1, <3>1, <3>2
    <3>3. CASE i # editor[e].id
      BY <2>1, <3>1, <3>3 DEF AssetsInv, Assets!CardsMatchFiles, Assets!InHand
    <3> QED
      BY <3>2, <3>3
  <2> QED
    BY <2>1 DEF Assets!CardsMatchFiles
<1> QED
  BY <1>3, <1>4, <1>5 DEF AssetsInv, PlanningFits

LEMMA StartKept ==
  ASSUME AssetsInv, NEW e \in Editors, NEW i \in Ids, NEW first \in {"write", "remove"}, NEW text \in Assets!Contents,
         first = "write" => text # Unparsed, Assets!Start(e, i, first, text)
  PROVE  AssetsInv'
<1> DEFINE new == [at |-> first, id |-> i, text |-> text]
<1>1. new \in EditorRecords /\ new.id = i /\ new.at = first /\ new.text = text
  BY DEF EditorRecords
<1>2. /\ editor' = [editor EXCEPT ![e] = new] /\ editor[e] = Assets!Away
      /\ spoiled' = (IF Assets!InHand(i) THEN spoiled \cup {i} ELSE spoiled)
      /\ Assets!Touch({i}) /\ UNCHANGED <<kind, cards, paths>>
  BY DEF Assets!Start
<1>3. editor[e].id = Unparsed /\ Unparsed \notin Ids
  BY <1>2, AssetsAssumption DEF Assets!Away
<1>4. editor \in [Editors -> EditorRecords] /\ planning \in PlanningRecords
  BY AssetTypes
<1> HIDE DEF new
<1>5. editor'[e] = new /\ \A f \in Editors \ {e} : editor'[f] = editor[f]
  BY <1>2, <1>4
<1>6. spoiled \subseteq spoiled' /\ spoiled' \subseteq Ids
  BY <1>2, AssetTypes
<1>7. i \notin spoiled' => ~ Assets!InHand(i) /\ i \notin spoiled
  BY <1>2
<1>8. i \notin spoiled' => (\A f \in Editors \ {e} : editor[f].id # i) /\ cards[i] = paths[i]
  BY <1>7 DEF Assets!InHand, AssetsInv, Assets!CardsMatchFiles
<1>9. EditorFits(e)'
  BY <1>1, <1>2, <1>5, <1>8 DEF EditorFits
<1>10. PlanningFits'
  <2>1. \A j \in Ids \ {i} : Assets!InHand(j)' => Assets!InHand(j)
    BY <1>1, <1>5 DEF Assets!InHand
  <2> QED
    BY <1>2, <1>6, <2>1, PlanningKept
<1>11. planning' \in PlanningRecords
  BY <1>2, <1>4 DEF Assets!Touch, PlanningRecords
<1> QED
  BY <1>1, <1>2, <1>3, <1>6, <1>8, <1>9, <1>10, <1>11, AssetTypes, RequestKept

(* The steps on an asset in hand are no news to a planning.                *)
LEMMA PlanningStays ==
  ASSUME AssetsInv, UNCHANGED planning, spoiled \subseteq spoiled',
         \A i \in Ids \ spoiled' : ~ Assets!InHand(i) => cards'[i] = cards[i] /\ ~ Assets!InHand(i)'
  PROVE  PlanningFits' /\ planning' \in PlanningRecords
<1>1. planning \in PlanningRecords /\ planning.found \subseteq Ids
  BY AssetTypes DEF PlanningRecords
<1>2. ASSUME FoundIsThere PROVE FoundIsThere'
  BY <1>1, <1>2 DEF FoundIsThere
<1> QED
  BY <1>1, <1>2 DEF AssetsInv, PlanningFits, Assets!FailsForAReason

LEMMA HandlerKept ==
  ASSUME AssetsInv, NEW e \in Editors, NEW new \in EditorRecords,
         editor[e].id \in Ids, new.id \in {editor[e].id, Unparsed},
         editor' = [editor EXCEPT ![e] = new], UNCHANGED kind,
         cards' \in [Ids -> Assets!Contents], paths' \in [Ids -> Assets!Contents],
         spoiled \subseteq spoiled', spoiled' \subseteq Ids,
         \A i \in Ids \ spoiled' : i # editor[e].id => cards'[i] = cards[i] /\ paths'[i] = paths[i],
         new.id # editor[e].id /\ editor[e].id \notin spoiled' => cards'[editor[e].id] = paths'[editor[e].id],
         EditorFits(e)',
         PlanningFits', planning' \in PlanningRecords
  PROVE  AssetsInv'
<1>1. new.id \in Ids \ spoiled' => \A f \in Editors \ {e} : editor[f].id # new.id
  BY AssetsAssumption DEF AssetsInv, EditorFits
<1> QED
  BY <1>1, RequestKept

LEMMA HandlerQuiet ==
  ASSUME AssetsInv, NEW e \in Editors, NEW new \in EditorRecords,
         editor[e].id \in Ids, new.id \in {editor[e].id, Unparsed},
         editor' = [editor EXCEPT ![e] = new], UNCHANGED kind,
         cards' \in [Ids -> Assets!Contents], paths' \in [Ids -> Assets!Contents],
         spoiled \subseteq spoiled', spoiled' \subseteq Ids,
         \A i \in Ids \ spoiled' : i # editor[e].id => cards'[i] = cards[i] /\ paths'[i] = paths[i],
         new.id # editor[e].id /\ editor[e].id \notin spoiled' => cards'[editor[e].id] = paths'[editor[e].id],
         EditorFits(e)',
         UNCHANGED planning
  PROVE  AssetsInv'
<1>1. editor \in [Editors -> EditorRecords]
  BY AssetTypes
<1>2. editor'[e] = new /\ \A f \in Editors \ {e} : editor'[f] = editor[f]
  BY <1>1
<1>3. ASSUME NEW i \in Ids \ spoiled', ~ Assets!InHand(i) PROVE cards'[i] = cards[i] /\ ~ Assets!InHand(i)'
  BY <1>2, <1>3, AssetsAssumption DEF Assets!InHand
<1>4. PlanningFits' /\ planning' \in PlanningRecords
  BY <1>3, PlanningStays
<1> QED
  BY <1>4, HandlerKept

LEMMA HandlerStep ==
  ASSUME AssetsInv, NEW e \in Editors,
         \/ Assets!WriteFile(e) \/ Assets!WriteFails(e) \/ Assets!ParseCard(e)
         \/ Assets!Register(e) \/ Assets!RemoveFile(e) \/ Assets!Unregister(e)
  PROVE  AssetsInv'
<1> DEFINE i == editor[e].id
<1>1. /\ cards \in [Ids -> Assets!Contents] /\ paths \in [Ids -> Assets!Contents]
      /\ editor \in [Editors -> EditorRecords] /\ spoiled \subseteq Ids
  BY AssetTypes
<1>2. editor[e].at # "away" => i \in Ids
  BY DEF AssetsInv, EditorFits
<1>3. EditorFits(e) /\ editor[e] \in EditorRecords
  BY <1>1 DEF AssetsInv
<1>4. editor[e].text \in Assets!Contents /\ Unparsed \in Assets!Contents /\ Assets!Torn \in Assets!Contents
  BY <1>3 DEF EditorRecords, Assets!Contents
<1>5. Assets!Away \in EditorRecords /\ Assets!Away.id = Unparsed /\ Assets!Away.at = "away"
  BY DEF Assets!Away, EditorRecords, Assets!Contents
<1>6. Unparsed \notin Ids
  BY AssetsAssumption
<1>7. \A new \in EditorRecords : editor' = [editor EXCEPT ![e] = new] => editor'[e] = new /\ \A f \in Editors \ {e} : editor'[f] = editor[f]
  BY <1>1
<1>8. editor' = [editor EXCEPT ![e] = Assets!Away] => EditorFits(e)'
  BY <1>5, <1>6, <1>7 DEF EditorFits
<1>9. CASE Assets!WriteFile(e)
  <2> DEFINE new == [editor[e] EXCEPT !.at = "parse"]
  <2>1. /\ editor[e].at = "write" /\ paths' = [paths EXCEPT ![i] = editor[e].text]
        /\ UNCHANGED <<kind, cards, spoiled, planning>>
    BY <1>9 DEF Assets!WriteFile
  <2>2. editor' = [editor EXCEPT ![e] = new]
    BY <1>1, <1>9 DEF Assets!WriteFile
  <2>3. new \in EditorRecords /\ new.id = i /\ new.at = "parse"
    BY <1>3 DEF EditorRecords
  <2> HIDE DEF new
  <2>4. i \in Ids /\ paths' \in [Ids -> Assets!Contents] /\ paths'[i] = editor[e].text
    BY <1>1, <1>2, <1>4, <2>1
  <2>5. \A j \in Ids : j # i => paths'[j] = paths[j]
    BY <1>1, <2>1
  <2>6. EditorFits(e)'
    BY <1>3, <1>7, <2>1, <2>2, <2>3, <2>4 DEF EditorFits
  <2> HIDE DEF i
  <2> QED
    BY <1>1, <2>1, <2>2, <2>3, <2>4, <2>5, <2>6, HandlerQuiet DEF i
<1>10. CASE Assets!WriteFails(e)
  <2>1. /\ editor[e].at = "write" /\ paths' = [paths EXCEPT ![i] = Assets!Torn] /\ spoiled' = spoiled \cup {i}
        /\ editor' = [editor EXCEPT ![e] = Assets!Away] /\ UNCHANGED <<kind, cards, planning>>
    BY <1>10 DEF Assets!WriteFails
  <2>2. i \in Ids /\ paths' \in [Ids -> Assets!Contents] /\ spoiled' \subseteq Ids
    BY <1>1, <1>2, <1>4, <2>1
  <2>3. \A j \in Ids : j # i => paths'[j] = paths[j]
    BY <1>1, <2>1
  <2> QED
    BY <1>1, <1>5, <1>8, <2>1, <2>2, <2>3, HandlerQuiet
<1>11. CASE Assets!ParseCard(e)
  <2>1. editor[e].at = "parse" /\ UNCHANGED <<kind, cards, paths, spoiled, planning>>
    BY <1>11 DEF Assets!ParseCard
  <2>2. i \in Ids /\ (i \notin spoiled => paths[i] # Unparsed)
    BY <1>2, <1>3, <2>1 DEF EditorFits
  <2>3. ASSUME paths[i] # Unparsed, editor' = [editor EXCEPT ![e].at = "register", ![e].text = paths[i]]
        PROVE  AssetsInv'
    <3> DEFINE new == [editor[e] EXCEPT !.at = "register", !.text = paths[i]]
    <3>1. editor' = [editor EXCEPT ![e] = new]
      BY <1>1, <2>3
    <3>2. paths[i] \in Assets!Contents
      BY <1>1, <2>2
    <3>3. new \in EditorRecords /\ new.id = i /\ new.at = "register" /\ new.text = paths[i]
      BY <1>3, <3>2 DEF EditorRecords
    <3> HIDE DEF new
    <3>4. EditorFits(e)'
      BY <1>3, <1>7, <2>1, <3>1, <3>3 DEF EditorFits
    <3> HIDE DEF i
    <3> QED
      BY <1>1, <2>1, <2>2, <3>1, <3>3, <3>4, HandlerQuiet DEF i
  <2>4. ASSUME paths[i] = Unparsed, editor' = [editor EXCEPT ![e] = Assets!Away] PROVE AssetsInv'
    BY <1>1, <1>5, <1>8, <2>1, <2>2, <2>4, HandlerQuiet
  <2> QED
    BY <1>11, <2>3, <2>4 DEF Assets!ParseCard
<1>12. CASE Assets!Register(e)
  <2>1. /\ editor[e].at = "register" /\ cards' = [cards EXCEPT ![i] = editor[e].text]
        /\ editor' = [editor EXCEPT ![e] = Assets!Away] /\ UNCHANGED <<kind, paths, spoiled, planning>>
    BY <1>12 DEF Assets!Register
  <2>2. i \in Ids /\ (i \notin spoiled => paths[i] = editor[e].text)
    BY <1>2, <1>3, <2>1 DEF EditorFits
  <2>3. cards' \in [Ids -> Assets!Contents] /\ cards'[i] = editor[e].text /\ \A j \in Ids : j # i => cards'[j] = cards[j]
    BY <1>1, <1>4, <2>1, <2>2
  <2> QED
    BY <1>1, <1>5, <1>8, <2>1, <2>2, <2>3, HandlerQuiet
<1>13. CASE Assets!Unregister(e)
  <2>1. /\ editor[e].at = "unregister" /\ cards' = [cards EXCEPT ![i] = Unparsed]
        /\ editor' = [editor EXCEPT ![e] = Assets!Away] /\ UNCHANGED <<kind, paths, spoiled, planning>>
    BY <1>13 DEF Assets!Unregister
  <2>2. i \in Ids /\ (i \notin spoiled => paths[i] = Unparsed)
    BY <1>2, <1>3, <2>1 DEF EditorFits
  <2>3. cards' \in [Ids -> Assets!Contents] /\ cards'[i] = Unparsed /\ \A j \in Ids : j # i => cards'[j] = cards[j]
    BY <1>1, <1>4, <2>1, <2>2
  <2> QED
    BY <1>1, <1>5, <1>8, <2>1, <2>2, <2>3, HandlerQuiet
<1>14. CASE Assets!RemoveFile(e)
  <2> DEFINE gone == Assets!Tree(i)
  <2>1. /\ editor[e].at = "remove" /\ UNCHANGED <<kind, cards>>
        /\ spoiled' = spoiled \cup (gone \ {i}) /\ Assets!Touch(gone)
    BY <1>14 DEF Assets!RemoveFile
  <2>2. i \in Ids /\ (i \notin spoiled => cards[i] = paths[i])
    BY <1>2, <1>3, <2>1 DEF EditorFits
  <2>3. gone \subseteq Ids /\ i \in gone
    BY <2>2 DEF Assets!Tree
  <2> HIDE DEF gone
  <2>4. spoiled \subseteq spoiled' /\ spoiled' \subseteq Ids
    BY <1>1, <2>1, <2>3
  <2>5. planning' \in PlanningRecords
    BY <2>1, AssetTypes DEF Assets!Touch, PlanningRecords
  <2>6. ASSUME NEW new \in EditorRecords, new.id \in {i, Unparsed}, editor' = [editor EXCEPT ![e] = new]
        PROVE  PlanningFits'
    <3>1. ASSUME NEW j \in Ids, ~ Assets!InHand(j) PROVE ~ Assets!InHand(j)'
      BY <1>6, <1>7, <2>6, <3>1 DEF Assets!InHand
    <3> QED
      BY <2>1, <2>3, <2>4, <3>1, PlanningKept
  <2>7. ASSUME paths' = [j \in Ids |-> IF j \in gone THEN Unparsed ELSE paths[j]],
               editor' = [editor EXCEPT ![e].at = "unregister"]
        PROVE  AssetsInv'
    <3> DEFINE new == [editor[e] EXCEPT !.at = "unregister"]
    <3>1. editor' = [editor EXCEPT ![e] = new]
      BY <1>1, <2>7
    <3>2. new \in EditorRecords /\ new.id = i /\ new.at = "unregister"
      BY <1>3 DEF EditorRecords
    <3> HIDE DEF new
    <3>3. paths' \in [Ids -> Assets!Contents] /\ paths'[i] = Unparsed /\ \A j \in Ids \ gone : paths'[j] = paths[j]
      BY <1>1, <1>4, <2>2, <2>3, <2>7
    <3>4. EditorFits(e)'
      BY <1>3, <1>7, <2>4, <2>1, <3>1, <3>2, <3>3 DEF EditorFits
    <3>5. PlanningFits'
      BY <2>6, <3>1, <3>2
    <3> HIDE DEF i
    <3> QED
      BY <1>1, <2>1, <2>2, <2>4, <2>5, <3>1, <3>2, <3>3, <3>4, <3>5, HandlerKept DEF i
  <2>8. ASSUME editor' = [editor EXCEPT ![e] = Assets!Away], UNCHANGED paths PROVE AssetsInv'
    <3>1. PlanningFits'
      BY <1>5, <2>6, <2>8
    <3> QED
      BY <1>1, <1>5, <1>8, <2>1, <2>2, <2>4, <2>5, <2>8, <3>1, HandlerKept
  <2> QED
    BY <1>14, <2>7, <2>8 DEF Assets!RemoveFile, gone
<1> QED
  BY <1>9, <1>10, <1>11, <1>12, <1>13, <1>14

(* A step of the planning changes nothing else.                            *)
LEMMA PlanningMoves ==
  ASSUME AssetsInv, UNCHANGED <<kind, cards, paths, editor, spoiled>>,
         PlanningFits', planning' \in PlanningRecords
  PROVE  AssetsInv'
<1>1. Assets!TypeOK'
  BY AssetTypes DEF Assets!TypeOK, EditorRecords, PlanningRecords
<1>2. Assets!CardsMatchFiles' /\ \A e \in Editors : EditorFits(e)'
  BY DEF AssetsInv, Assets!CardsMatchFiles, Assets!InHand, EditorFits
<1> QED
  BY <1>1, <1>2 DEF AssetsInv, PlanningFits

LEMMA PlanningStep ==
  ASSUME AssetsInv, Assets!Search \/ Assets!Lookup \/ Assets!ReadSkill \/ Assets!AllLoaded
  PROVE  AssetsInv'
<1>1. planning \in PlanningRecords /\ AssetsInv
  BY AssetTypes
<1>2. UNCHANGED <<kind, cards, paths, editor, spoiled>>
  BY DEF Assets!Search, Assets!Lookup, Assets!ReadSkill, Assets!AllLoaded
<1>3. /\ Assets!NoPlanning \in PlanningRecords /\ Assets!NoPlanning.at = "away"
      /\ Assets!NoPlanning = [at |-> "away", found |-> {}, id |-> Unparsed, touched |-> {}]
  BY DEF Assets!NoPlanning, PlanningRecords
<1>4. \A i \in Ids : Assets!InHand(i)' <=> Assets!InHand(i)
  BY <1>2 DEF Assets!InHand
<1>5. ASSUME Assets!Search PROVE PlanningFits' /\ planning' \in PlanningRecords
  <2>1. PICK found \in SUBSET {i \in Ids : cards[i] # Unparsed} :
          planning' = [Assets!NoPlanning EXCEPT !.at = "loading", !.found = found,
                                                !.touched = {i \in found : Assets!InHand(i)}]
    BY <1>5 DEF Assets!Search
  <2>2. /\ planning'.at = "loading" /\ planning'.found = found /\ planning'.id = Unparsed
        /\ planning'.touched = {i \in found : Assets!InHand(i)} /\ planning' \in PlanningRecords
    BY <1>3, <2>1 DEF PlanningRecords
  <2>3. FoundIsThere'
    BY <1>2, <1>4, <2>2 DEF FoundIsThere
  <2> QED
    BY <2>2, <2>3 DEF PlanningFits, Assets!FailsForAReason
<1>6. ASSUME Assets!Lookup PROVE PlanningFits' /\ planning' \in PlanningRecords
  <2>1. planning.at = "loading" /\ FoundIsThere
    BY <1>6 DEF Assets!Lookup, AssetsInv
  <2>2. PICK i \in planning.found :
          \/ cards[i] # Unparsed /\ planning' = [planning EXCEPT !.at = "reading", !.id = i]
          \/ /\ cards[i] = Unparsed
             /\ planning' = [planning EXCEPT !.at = "failed", !.id = i, !.found = {}, !.touched = @ \cap {i}]
    BY <1>6 DEF Assets!Lookup
  <2>3. i \in Ids
    BY <1>1, <2>2 DEF PlanningRecords
  <2>4. ASSUME planning' = [planning EXCEPT !.at = "reading", !.id = i]
        PROVE  PlanningFits' /\ planning' \in PlanningRecords
    <3>1. /\ planning'.at = "reading" /\ planning'.id = i /\ planning'.found = planning.found
          /\ planning'.touched = planning.touched /\ planning' \in PlanningRecords
      BY <1>1, <2>3, <2>4 DEF PlanningRecords
    <3>2. FoundIsThere'
      BY <1>1, <1>2, <1>4, <2>1, <3>1 DEF FoundIsThere, PlanningRecords
    <3> QED
      BY <2>2, <3>1, <3>2 DEF PlanningFits, Assets!FailsForAReason
  <2>5. ASSUME cards[i] = Unparsed,
               planning' = [planning EXCEPT !.at = "failed", !.id = i, !.found = {}, !.touched = @ \cap {i}]
        PROVE  PlanningFits' /\ planning' \in PlanningRecords
    <3>1. /\ planning'.at = "failed" /\ planning'.id = i
          /\ planning'.touched = planning.touched \cap {i} /\ planning' \in PlanningRecords
      BY <1>1, <2>3, <2>5 DEF PlanningRecords
    <3>2. i \in planning.touched \cup spoiled
      BY <2>1, <2>2, <2>5 DEF FoundIsThere
    <3> QED
      BY <1>2, <3>1, <3>2 DEF PlanningFits, Assets!FailsForAReason
  <2> QED
    BY <2>2, <2>4, <2>5
<1>7. ASSUME Assets!ReadSkill PROVE PlanningFits' /\ planning' \in PlanningRecords
  <2>1. planning.at = "reading" /\ FoundIsThere /\ planning.id \in planning.found
    BY <1>7 DEF Assets!ReadSkill, AssetsInv
  <2>2. ASSUME planning' = [planning EXCEPT !.at = "loading", !.found = @ \ {planning.id}, !.id = Unparsed,
                                            !.touched = @ \ {planning.id}]
        PROVE  PlanningFits' /\ planning' \in PlanningRecords
    <3>1. /\ planning'.at = "loading" /\ planning'.found = planning.found \ {planning.id}
          /\ planning'.touched = planning.touched \ {planning.id} /\ planning' \in PlanningRecords
      BY <1>1, <2>2 DEF PlanningRecords
    <3>2. FoundIsThere'
      BY <1>1, <1>2, <1>4, <2>1, <3>1 DEF FoundIsThere, PlanningRecords
    <3> QED
      BY <3>1, <3>2 DEF PlanningFits, Assets!FailsForAReason
  <2>3. ASSUME paths[planning.id] = Unparsed,
               planning' = [planning EXCEPT !.at = "failed", !.found = {}, !.touched = @ \cap {planning.id}]
        PROVE  PlanningFits' /\ planning' \in PlanningRecords
    <3>1. /\ planning'.at = "failed" /\ planning'.id = planning.id
          /\ planning'.touched = planning.touched \cap {planning.id} /\ planning' \in PlanningRecords
      BY <1>1, <2>3 DEF PlanningRecords
    <3>2. planning.id \in Ids
      BY <1>1, <2>1 DEF PlanningRecords
    <3>3. planning.id \in planning.touched \cup spoiled
      BY <1>1, <2>1, <2>3, <3>2 DEF FoundIsThere, AssetsInv, Assets!CardsMatchFiles
    <3> QED
      BY <1>2, <3>1, <3>3 DEF PlanningFits, Assets!FailsForAReason
  <2> QED
    BY <1>7, <2>2, <2>3 DEF Assets!ReadSkill
<1>8. ASSUME Assets!AllLoaded PROVE PlanningFits' /\ planning' \in PlanningRecords
  BY <1>3, <1>8 DEF Assets!AllLoaded, PlanningFits, Assets!FailsForAReason
<1> QED
  BY <1>2, <1>5, <1>6, <1>7, <1>8, PlanningMoves

(* Discover after a restart: the cards are the files again.                *)
LEMMA RestartKept ==
  ASSUME AssetsInv, Assets!Restart
  PROVE  AssetsInv'
<1>1. /\ cards' = paths /\ editor' = [e \in Editors |-> Assets!Away] /\ spoiled' = {}
      /\ planning' = Assets!NoPlanning /\ UNCHANGED <<kind, paths>>
  BY DEF Assets!Restart
<1>2. /\ Assets!Away.at = "away" /\ Assets!Away.id = Unparsed /\ Assets!Away \in EditorRecords
      /\ Assets!NoPlanning.at = "away" /\ Assets!NoPlanning \in PlanningRecords
  BY DEF Assets!Away, Assets!NoPlanning, EditorRecords, PlanningRecords, Assets!Contents
<1>3. Assets!TypeOK'
  BY <1>1, <1>2, AssetTypes DEF Assets!TypeOK, EditorRecords, PlanningRecords
<1>4. \A e \in Editors : EditorFits(e)'
  BY <1>1, <1>2, AssetsAssumption DEF EditorFits
<1> QED
  BY <1>1, <1>2, <1>3, <1>4 DEF AssetsInv, Assets!CardsMatchFiles, Assets!FailsForAReason

LEMMA AssetsNext ==
  ASSUME AssetsInv, [PlanningNext]_<<part, vars, assetVars, modelVars, walkVars>>
  PROVE  AssetsInv'
<1>1. Unparsed \in Assets!Contents /\ \A t \in Texts : t \in Assets!Contents /\ t # Unparsed
  BY AssetsAssumption DEF Assets!Contents
<1>2. ASSUME NEW e \in Editors, NEW i \in Ids,
             Assets!Delete(e, i) \/ \E t \in Texts : Assets!Create(e, i, t) \/ Assets!Update(e, i, t)
      PROVE  AssetsInv'
  BY <1>1, <1>2, StartKept DEF Assets!Delete, Assets!Create, Assets!Update
<1>3. ASSUME Assets!Next PROVE AssetsInv'
  BY <1>2, <1>3, HandlerStep, PlanningStep, RestartKept DEF Assets!Next
<1>4. ASSUME UNCHANGED assetVars PROVE AssetsInv'
  BY <1>4 DEF assetVars, AssetsInv, Assets!TypeOK, EditorFits, Assets!CardsMatchFiles, Assets!InHand,
    FoundIsThere, Assets!FailsForAReason
<1> QED
  BY <1>3, <1>4, StepOfOne

(* internal/skill, internal/persona: the registry serves what is on disk   *)
(* and fails no planning without a reason, for any number of assets,       *)
(* requests and restarts, wherever the directories of the skills lie.      *)
THEOREM RegistryAndFilesAgree == PlanningSpec => []RegistryServesFiles
<1>1. AssetsInv => RegistryServesFiles
  BY DEF AssetsInv, RegistryServesFiles, Assets!RegistryServesFiles
<1> QED
  BY <1>1, AssetsInit, AssetsNext, PTL DEF PlanningSpec

-----------------------------------------------------------------------------
(* Research and reflection in the plans of the decomposition               *)

HasMark(tasks, mark) == \E i \in DOMAIN tasks : Has(tasks[i], mark)

(* A task put behind a list takes no mark from it.                         *)
LEMMA AppendKeepsMarks ==
  ASSUME NEW S, NEW tasks \in Seq(S), NEW t, NEW mark, HasMark(tasks, mark)
  PROVE  Append(tasks, t) \in Seq(S \cup {t}) /\ HasMark(Append(tasks, t), mark)
<1>1. tasks \in Seq(S \cup {t}) /\ t \in S \cup {t}
  OBVIOUS
<1>2. /\ Append(tasks, t) \in Seq(S \cup {t})
      /\ Len(Append(tasks, t)) = Len(tasks) + 1
      /\ \A i \in 1 .. Len(tasks) : Append(tasks, t)[i] = tasks[i]
  BY <1>1
<1>3. PICK i \in 1 .. Len(tasks) : Has(tasks[i], mark)
  BY <1>1 DEF HasMark
<1>4. i \in DOMAIN Append(tasks, t)
  BY <1>1, <1>2
<1> QED
  BY <1>2, <1>3, <1>4 DEF HasMark

(* Neither does one put before it.                                         *)
LEMMA ConcatKeepsMarks ==
  ASSUME NEW S, NEW r \in Seq(S), NEW s \in Seq(S), NEW mark, HasMark(r, mark) \/ HasMark(s, mark)
  PROVE  r \o s \in Seq(S) /\ HasMark(r \o s, mark)
<1>1. /\ r \o s \in Seq(S) /\ Len(r \o s) = Len(r) + Len(s) /\ DOMAIN (r \o s) = 1 .. Len(r) + Len(s)
      /\ DOMAIN r = 1 .. Len(r) /\ DOMAIN s = 1 .. Len(s) /\ Len(r) \in Nat /\ Len(s) \in Nat
  OBVIOUS
<1>2. CASE HasMark(r, mark)
  <2>1. PICK i \in 1 .. Len(r) : Has(r[i], mark)
    BY <1>1, <1>2 DEF HasMark
  <2>2. i \in 1 .. Len(r) + Len(s) /\ (r \o s)[i] = r[i]
    BY <1>1
  <2> QED
    BY <1>1, <2>1, <2>2 DEF HasMark
<1>3. CASE HasMark(s, mark)
  <2>1. PICK i \in 1 .. Len(s) : Has(s[i], mark)
    BY <1>1, <1>3 DEF HasMark
  <2>2. Len(r) + i \in 1 .. Len(r) + Len(s) /\ (r \o s)[Len(r) + i] = s[i]
    BY <1>1
  <2> QED
    BY <1>1, <2>1, <2>2 DEF HasMark
<1> QED
  BY <1>1, <1>2, <1>3

LEMMA MinimumKeepsMarks ==
  ASSUME NEW S, NEW tasks \in Seq(S), NEW mark, HasMark(tasks, mark)
  PROVE  HasMark(WithMinimum(tasks), mark)
<1> DEFINE IsReflection(t) == {"lean", "reflection"} \subseteq t.marks
           reflections == SelectSeq(tasks, IsReflection)
           last == tasks[Len(tasks)].title
           slice == SliceTask({IF reflections # <<>> THEN reflections[1].title ELSE last})
           sliced == IF \A i \in DOMAIN tasks : Has(tasks[i], "lean") THEN Append(tasks, slice) ELSE tasks
           summary == SummaryTask({sliced[Len(sliced)].title})
<1>1. WithMinimum(tasks) = IF Len(tasks) >= 4 THEN tasks
                           ELSE IF Len(sliced) >= 4 THEN sliced ELSE Append(sliced, summary)
  BY DEF WithMinimum
<1> HIDE DEF slice, summary
<1>2. sliced \in Seq(S \cup {slice}) /\ HasMark(sliced, mark)
  <2>1. Append(tasks, slice) \in Seq(S \cup {slice}) /\ HasMark(Append(tasks, slice), mark)
    BY AppendKeepsMarks
  <2>2. tasks \in Seq(S \cup {slice})
    OBVIOUS
  <2> QED
    BY <2>1, <2>2
<1> HIDE DEF sliced
<1>3. HasMark(Append(sliced, summary), mark)
  BY <1>2, AppendKeepsMarks
<1> QED
  BY <1>1, <1>2, <1>3

(* Both marks are in the list that got the missing ones, wherever they     *)
(* were put: the reflection task the planner adds matches the words of     *)
(* research as well.                                                       *)
LEMMA RootedHasBoth ==
  ASSUME NEW tasks \in Seq(Task), NEW mark \in {"research", "reflection"}
  PROVE  \E S : /\ WithResearchAndReflection(tasks) \in Seq(S)
                /\ HasMark(WithResearchAndReflection(tasks), mark)
<1> DEFINE research   == FirstTitle(tasks, "research")
           reflection == FirstTitle(tasks, "reflection")
           firstRes   == IF research = NoTitle THEN ResearchTask.title ELSE research
           firstRef   == IF reflection = NoTitle THEN "reflection!" ELSE reflection
           Rooted(t)  == IF t.deps # {} \/ Has(t, "research") THEN t
                         ELSE [t EXCEPT !.deps = {IF Has(t, "reflection") THEN firstRes ELSE firstRef}]
           rooted     == [i \in DOMAIN tasks |-> Rooted(tasks[i])]
           inFront    == IF research = NoTitle THEN <<ResearchTask>> ELSE <<>>
           added      == IF reflection = NoTitle THEN <<ReflectionTask({firstRes})>> ELSE <<>>
           behind     == CHOOSE i \in DOMAIN tasks : \/ ~ \E j \in DOMAIN tasks : Has(tasks[j], "research")
                                                     \/ /\ Has(tasks[i], "research")
                                                        /\ \A j \in 1..(i - 1) : ~Has(tasks[j], "research")
           S          == {rooted[i] : i \in DOMAIN tasks} \cup {ResearchTask, ReflectionTask({firstRes})}
<1>1. WithResearchAndReflection(tasks) =
        IF research # NoTitle /\ reflection = NoTitle
        THEN SubSeq(rooted, 1, behind) \o (inFront \o added) \o SubSeq(rooted, behind + 1, Len(rooted))
        ELSE (inFront \o added) \o rooted
  BY DEF WithResearchAndReflection
<1>2. rooted \in Seq(S) /\ DOMAIN rooted = DOMAIN tasks /\ Len(rooted) = Len(tasks)
  OBVIOUS
<1>3. ASSUME NEW i \in DOMAIN tasks PROVE rooted[i].marks = tasks[i].marks
  <2>1. tasks[i] \in Task
    OBVIOUS
  <2> QED
    BY <2>1 DEF Task
<1>4. inFront \in Seq(S) /\ added \in Seq(S)
  <2> DEFINE refl == ReflectionTask({firstRes})
  <2>1. ResearchTask \in S /\ refl \in S
    OBVIOUS
  <2> HIDE DEF refl, S, research, reflection
  <2>2. <<>> \in Seq(S) /\ <<ResearchTask>> \in Seq(S) /\ <<refl>> \in Seq(S)
    BY <2>1
  <2>3. added = IF reflection = NoTitle THEN <<refl>> ELSE <<>>
    BY DEF refl
  <2> QED
    BY <2>2, <2>3
<1>5. inFront \o added \in Seq(S)
  BY <1>4
<1>6. ASSUME NEW m, FirstTitle(tasks, m) # NoTitle PROVE HasMark(rooted, m)
  <2>1. PICK i \in DOMAIN tasks : Has(tasks[i], m)
    BY <1>6, FirstTitleMarked
  <2> QED
    BY <1>2, <1>3, <2>1 DEF HasMark, Has
<1>7. reflection = NoTitle => HasMark(added, mark)
  <2>1. Has(<<ReflectionTask({firstRes})>>[1], mark) /\ 1 \in DOMAIN <<ReflectionTask({firstRes})>>
    BY DEF Has, ReflectionTask
  <2> QED
    BY <2>1 DEF HasMark
<1>8. research = NoTitle => HasMark(inFront, "research")
  <2>1. Has(<<ResearchTask>>[1], "research") /\ 1 \in DOMAIN <<ResearchTask>>
    BY DEF Has, ResearchTask
  <2> QED
    BY <2>1 DEF HasMark
<1>9. research # NoTitle => behind \in DOMAIN tasks
  <2> SUFFICES ASSUME research # NoTitle PROVE behind \in DOMAIN tasks
    OBVIOUS
  <2> DEFINE T == {i \in DOMAIN tasks : Has(tasks[i], "research")}
  <2>1. T \subseteq Nat /\ T # {}
    BY FirstTitleMarked
  <2> HIDE DEF T
  <2>2. PICK i \in T : \A k \in T : i <= k
    BY <2>1, FirstExists
  <2>3. i \in DOMAIN tasks /\ Has(tasks[i], "research")
    BY <2>2 DEF T
  <2>4. \A j \in 1..(i - 1) : ~Has(tasks[j], "research")
    BY <2>2, <2>3 DEF T
  <2> QED
    BY <2>3, <2>4
<1> HIDE DEF rooted, inFront, added, behind, S, research, reflection
<1>10. CASE research # NoTitle /\ reflection = NoTitle
  <2>1. behind \in Nat /\ behind <= Len(rooted) /\ Len(rooted) \in Nat
    BY <1>2, <1>9, <1>10
  <2>2. SubSeq(rooted, 1, behind) \in Seq(S) /\ SubSeq(rooted, behind + 1, Len(rooted)) \in Seq(S)
    BY <1>2, <2>1
  <2>3. HasMark(inFront \o added, mark)
    BY <1>4, <1>7, <1>10, ConcatKeepsMarks
  <2>4. /\ SubSeq(rooted, 1, behind) \o (inFront \o added) \in Seq(S)
        /\ HasMark(SubSeq(rooted, 1, behind) \o (inFront \o added), mark)
    BY <1>5, <2>2, <2>3, ConcatKeepsMarks
  <2> QED
    BY <1>1, <1>10, <2>2, <2>4, ConcatKeepsMarks
<1>11. CASE ~(research # NoTitle /\ reflection = NoTitle)
  <2>1. HasMark(inFront \o added, mark) \/ HasMark(rooted, mark)
    <3>1. CASE reflection = NoTitle
      BY <1>4, <1>7, <3>1, ConcatKeepsMarks
    <3>2. CASE reflection # NoTitle /\ mark = "reflection"
      BY <1>6, <3>2 DEF reflection
    <3>3. CASE research # NoTitle /\ mark = "research"
      BY <1>6, <3>3 DEF research
    <3>4. CASE research = NoTitle /\ mark = "research"
      BY <1>4, <1>8, <3>4, ConcatKeepsMarks
    <3> QED
      BY <3>1, <3>2, <3>3, <3>4
  <2> QED
    BY <1>1, <1>2, <1>5, <1>11, <2>1, ConcatKeepsMarks
<1> QED
  BY <1>10, <1>11

LEMMA DecomposedHasBoth ==
  ASSUME NEW req \in Request, NEW tasks \in Seq(Task), NeedsResearch(req),
         NEW mark \in {"research", "reflection"}
  PROVE  HasMark(Decomposed(req, tasks), mark)
<1>1. Lean(req, tasks) = tasks
  BY DEF NeedsResearch, Lean
<1>2. PICK S : /\ WithResearchAndReflection(tasks) \in Seq(S)
               /\ HasMark(WithResearchAndReflection(tasks), mark)
  BY RootedHasBoth
<1>3. HasMark(WithMinimum(WithResearchAndReflection(tasks)), mark)
  BY <1>2, MinimumKeepsMarks
<1> QED
  BY <1>1, <1>2, <1>3 DEF Decomposed

LEMMA DecompositionGivesBoth ==
  ASSUME Plans \subseteq PlansFrom(Request, Seq(Task))
  PROVE  PlansHaveBoth
<1> SUFFICES ASSUME NEW p \in Plans, p.needs, NEW mark \in {"research", "reflection"}
             PROVE  FirstTitle(p.tasks, mark) # NoTitle
  BY DEF PlansHaveBoth
<1>1. PICK req \in Request, tasks \in Seq(Task) :
        p = [needs |-> NeedsResearch(req), tasks |-> Decomposed(req, tasks)]
  BY DEF PlansFrom
<1>2. HasMark(p.tasks, mark)
  BY <1>1, DecomposedHasBoth
<1>3. p.tasks \in Seq(Task)
  BY PlansAssumption
<1>4. PICK i \in DOMAIN p.tasks : Has(p.tasks[i], mark)
  BY <1>2 DEF HasMark
<1>5. PICK j \in DOMAIN p.tasks : FirstTitle(p.tasks, mark) = p.tasks[j].title
  BY <1>3, <1>4, FirstTitleMarked
<1>6. p.tasks[j] \in Task
  BY <1>3
<1> QED
  BY <1>5, <1>6, PlansAssumption DEF Task

(* planner/llm.go, ensureResearchAndReflectionTasks and                    *)
(* normalizePlannedDependencies together, and the runtime's normalization  *)
(* of what the conversion leaves (llm.go:74-77): for whatever list of      *)
(* tasks the LLM answers with and whatever the request, a request that     *)
(* needs research and reflection gets both tasks, and in the plan as it is *)
(* stored the others wait for them - except where such a task is named by  *)
(* its description alone and the conversion drops that.                    *)
THEOREM PlannedResearchComesFirst ==
  ASSUME Plans \subseteq PlansFrom(Request, Seq(Task))
  PROVE  Spec => []ResearchThenReflection
BY DecompositionGivesBoth, ResearchComesFirst

-----------------------------------------------------------------------------
(* The walk                                                                *)

(* What has been seen is reached from where the walk began, and is not the *)
(* target; an edge out of it leads to something seen as well, or its title *)
(* is still to be tried by the call that entered there.                    *)
CallsFit ==
  \A i \in DOMAIN stack :
    /\ stack[i].title \in seen
    /\ \A n \in stack[i].rest : <<stack[i].title, n>> \in ask.edges

ToTry(e) == \E i \in DOMAIN stack : stack[i].title = e[1] /\ e[2] \in stack[i].rest

SeenFits ==
  /\ ask.from \in seen /\ ask.target \notin seen
  /\ \A t \in seen : Reaches(ask.edges, ask.from, t)
  /\ \A e \in ask.edges : e[1] \in seen => e[2] \in seen \/ ToTry(e)

WalkInv ==
  /\ Walk!TypeOK
  /\ answer = "none" /\ stack = <<>> => seen = {}
  /\ stack # <<>> => answer = "none" /\ CallsFit /\ SeenFits
  /\ answer = "found" => Reaches(ask.edges, ask.from, ask.target)
  /\ answer = "not found" => ~ Reaches(ask.edges, ask.from, ask.target)

Calls == [title : Names, rest : SUBSET Names]

LEMMA FrameType ==
  ASSUME ask \in Walk!Question, NEW t \in Names
  PROVE  /\ Walk!Frame(t) \in Calls /\ Walk!Frame(t).title = t
         /\ \A n : n \in Walk!Frame(t).rest <=> <<t, n>> \in ask.edges
<1>1. \A e \in ask.edges : e = <<e[1], e[2]>> /\ e[1] \in Names /\ e[2] \in Names
  BY DEF Walk!Question
<1>2. \A n : n \in {e[2] : e \in {f \in ask.edges : f[1] = t}} <=> <<t, n>> \in ask.edges
  BY <1>1
<1>3. {e[2] : e \in {f \in ask.edges : f[1] = t}} \in SUBSET Names
  BY <1>1
<1> QED
  BY <1>2, <1>3 DEF Walk!Frame, Calls

(* The innermost call goes on with the rest of its list.                   *)
LEMMA TriedOne ==
  ASSUME stack \in Seq(Calls), stack # <<>>, NEW n \in Walk!Top.rest
  PROVE  /\ Len(stack) \in DOMAIN stack /\ Walk!Top \in Calls
         /\ Walk!Tried(n) \in Seq(Calls) /\ Len(Walk!Tried(n)) = Len(stack)
         /\ DOMAIN Walk!Tried(n) = DOMAIN stack
         /\ \A i \in DOMAIN stack :
              /\ Walk!Tried(n)[i].title = stack[i].title
              /\ Walk!Tried(n)[i].rest = IF i = Len(stack) THEN stack[i].rest \ {n} ELSE stack[i].rest
<1>1. Len(stack) \in Nat /\ DOMAIN stack = 1 .. Len(stack) /\ Len(stack) # 0
  OBVIOUS
<1>2. Len(stack) \in DOMAIN stack /\ Walk!Top = stack[Len(stack)] /\ Walk!Top \in Calls
  BY <1>1 DEF Walk!Top
<1> DEFINE new == [Walk!Top EXCEPT !.rest = @ \ {n}]
<1>3. new \in Calls /\ new.title = Walk!Top.title /\ new.rest = Walk!Top.rest \ {n}
  BY <1>2 DEF Calls
<1>4. Walk!Tried(n) = [stack EXCEPT ![Len(stack)] = new]
  BY <1>2 DEF Walk!Tried
<1> HIDE DEF new
<1>5. /\ Walk!Tried(n) \in Seq(Calls) /\ Len(Walk!Tried(n)) = Len(stack)
      /\ DOMAIN Walk!Tried(n) = DOMAIN stack
      /\ \A i \in DOMAIN stack : Walk!Tried(n)[i] = IF i = Len(stack) THEN new ELSE stack[i]
  BY <1>1, <1>3, <1>4
<1> QED
  BY <1>2, <1>3, <1>5

LEMMA WalkInit == PlanningInit => WalkInv
<1> SUFFICES ASSUME PlanningInit PROVE WalkInv
  OBVIOUS
<1>1. ask \in Walk!Question /\ seen = {} /\ stack = <<>> /\ answer = "none"
  BY WalksAssumption DEF PlanningInit, Walk!Init
<1>2. stack \in Seq([title : Names, rest : SUBSET Names])
  BY <1>1
<1> QED
  BY <1>1, <1>2 DEF WalkInv, Walk!TypeOK

LEMMA BeginStep == ASSUME WalkInv, Walk!Begin PROVE WalkInv'
<1>1. ask \in Walk!Question /\ ask' = ask /\ answer = "none" /\ stack = <<>> /\ seen = {}
  BY DEF WalkInv, Walk!TypeOK, Walk!Begin
<1>2. ask.from \in Names /\ ask.target \in Names
  BY <1>1 DEF Walk!Question
<1>3. CASE ask.from = ask.target
  <2>1. answer' = "found" /\ UNCHANGED <<seen, stack>>
    BY <1>3 DEF Walk!Begin
  <2>2. Reaches(ask.edges, ask.from, ask.target)
    BY <1>3, ReachesSelf
  <2> QED
    BY <1>1, <2>1, <2>2 DEF WalkInv, Walk!TypeOK
<1>4. CASE ask.from # ask.target
  <2> DEFINE f == Walk!Frame(ask.from)
  <2>1. seen' = {ask.from} /\ stack' = <<f>> /\ answer' = "none"
    BY <1>1, <1>4 DEF Walk!Begin
  <2>2. f \in Calls /\ f.title = ask.from /\ \A n : n \in f.rest <=> <<ask.from, n>> \in ask.edges
    BY <1>1, <1>2, FrameType
  <2> HIDE DEF f
  <2>3. stack' \in Seq(Calls) /\ DOMAIN stack' = {1} /\ stack'[1] = f /\ stack' # <<>>
    BY <2>1, <2>2
  <2>4. Walk!TypeOK'
    BY <1>1, <1>2, <2>1, <2>3 DEF Walk!TypeOK, Calls
  <2>5. CallsFit'
    BY <1>1, <2>1, <2>2, <2>3 DEF CallsFit
  <2>6. SeenFits'
    <3>1. \A e \in ask.edges : e = <<e[1], e[2]>>
      BY <1>1 DEF Walk!Question
    <3>2. ASSUME NEW e \in ask.edges, e[1] \in seen' PROVE ToTry(e)'
      BY <2>1, <2>2, <2>3, <3>1, <3>2 DEF ToTry
    <3> QED
      BY <1>1, <1>4, <2>1, <3>2, ReachesSelf DEF SeenFits
  <2> QED
    BY <2>1, <2>3, <2>4, <2>5, <2>6 DEF WalkInv
<1> QED
  BY <1>3, <1>4

LEMMA TryStep == ASSUME WalkInv, Walk!Try PROVE WalkInv'
<1>1. /\ ask \in Walk!Question /\ ask' = ask /\ answer = "none" /\ seen \subseteq Names
      /\ stack # <<>> /\ stack \in Seq(Calls) /\ CallsFit /\ SeenFits
  BY DEF WalkInv, Walk!TypeOK, Walk!Try, Calls
<1>2. PICK n \in Walk!Top.rest :
         \/ n = ask.target /\ answer' = "found" /\ stack' = <<>> /\ UNCHANGED seen
         \/ n # ask.target /\ n \in seen /\ stack' = Walk!Tried(n) /\ UNCHANGED <<seen, answer>>
         \/ /\ n # ask.target /\ n \notin seen /\ seen' = seen \cup {n}
            /\ stack' = Append(Walk!Tried(n), Walk!Frame(n)) /\ UNCHANGED answer
  BY DEF Walk!Try, Walk!Seeing
<1> DEFINE tried == Walk!Tried(n)
           last == Len(stack)
<1>3. /\ last \in DOMAIN stack /\ Walk!Top \in Calls /\ Walk!Top = stack[last]
      /\ tried \in Seq(Calls) /\ Len(tried) = last /\ DOMAIN tried = DOMAIN stack
      /\ \A i \in DOMAIN stack :
           /\ tried[i].title = stack[i].title
           /\ tried[i].rest = IF i = last THEN stack[i].rest \ {n} ELSE stack[i].rest
  BY <1>1, TriedOne DEF Walk!Top
<1>4. n \in Names /\ <<stack[last].title, n>> \in ask.edges /\ stack[last].title \in seen
  BY <1>1, <1>3 DEF CallsFit, Calls
<1>5. Reaches(ask.edges, ask.from, n)
  BY <1>1, <1>4, ReachesEdge, ReachesTransitive DEF SeenFits
<1>6. ask.edges \subseteq Names \X Names
  BY <1>1 DEF Walk!Question
<1> HIDE DEF tried, last
<1>7. CASE n = ask.target /\ answer' = "found" /\ stack' = <<>> /\ UNCHANGED seen
  BY <1>1, <1>5, <1>7 DEF WalkInv, Walk!TypeOK
<1>8. CASE n \in seen /\ stack' = tried /\ UNCHANGED <<seen, answer>>
  <2>1. Walk!TypeOK'
    BY <1>1, <1>3, <1>8 DEF Walk!TypeOK, Calls
  <2>2. CallsFit'
    BY <1>1, <1>3, <1>8 DEF CallsFit
  <2>3. ASSUME NEW e \in ask.edges, e[1] \in seen PROVE e[2] \in seen \/ ToTry(e)'
    <3>1. CASE e[2] \in seen
      BY <3>1
    <3>2. CASE e[2] \notin seen
      <4>1. PICK i \in DOMAIN stack : stack[i].title = e[1] /\ e[2] \in stack[i].rest
        BY <1>1, <2>3, <3>2 DEF SeenFits, ToTry
      <4>2. tried[i].title = e[1] /\ e[2] \in tried[i].rest /\ i \in DOMAIN tried
        BY <1>3, <1>8, <3>2, <4>1
      <4> QED
        BY <1>8, <4>2 DEF ToTry
    <3> QED
      BY <3>1, <3>2
  <2>4. SeenFits'
    BY <1>1, <1>8, <2>3 DEF SeenFits
  <2>5. stack' # <<>>
    BY <1>1, <1>3, <1>8
  <2> QED
    BY <1>1, <1>8, <2>1, <2>2, <2>4, <2>5 DEF WalkInv
<1>9. CASE /\ n # ask.target /\ n \notin seen /\ seen' = seen \cup {n}
           /\ stack' = Append(tried, Walk!Frame(n)) /\ UNCHANGED answer
  <2> DEFINE f == Walk!Frame(n)
  <2>1. f \in Calls /\ f.title = n /\ \A m : m \in f.rest <=> <<n, m>> \in ask.edges
    BY <1>1, <1>4, FrameType
  <2> HIDE DEF f
  <2>2. /\ stack' \in Seq(Calls) /\ DOMAIN stack' = 1 .. last + 1 /\ DOMAIN stack = 1 .. last /\ last \in Nat
        /\ stack'[last + 1] = f /\ \A i \in DOMAIN stack : stack'[i] = tried[i]
    BY <1>1, <1>3, <1>9, <2>1 DEF f, last
  <2>3. Walk!TypeOK'
    BY <1>1, <1>4, <1>9, <2>2 DEF Walk!TypeOK, Calls
  <2>4. CallsFit'
    <3>1. ASSUME NEW i \in DOMAIN stack'
          PROVE  stack'[i].title \in seen' /\ \A m \in stack'[i].rest : <<stack'[i].title, m>> \in ask.edges
      <4>1. CASE i = last + 1
        BY <1>9, <2>1, <2>2, <4>1
      <4>2. CASE i # last + 1
        <5>1. i \in DOMAIN stack
          BY <2>2, <4>2
        <5>2. stack'[i].title = stack[i].title /\ stack'[i].rest \subseteq stack[i].rest
          BY <1>3, <2>2, <5>1
        <5> QED
          BY <1>1, <1>9, <5>1, <5>2 DEF CallsFit
      <4> QED
        BY <4>1, <4>2
    <3> QED
      BY <1>1, <3>1 DEF CallsFit
  <2>5. ASSUME NEW e \in ask.edges, e[1] \in seen' PROVE e[2] \in seen' \/ ToTry(e)'
    <3>1. CASE e[1] = n
      <4>1. e = <<n, e[2]>>
        BY <1>6, <3>1
      <4>2. e[2] \in f.rest /\ last + 1 \in DOMAIN stack'
        BY <2>1, <2>2, <4>1
      <4> QED
        BY <2>1, <2>2, <3>1, <4>2 DEF ToTry
    <3>2. CASE e[2] \in seen'
      BY <3>2
    <3>3. CASE e[1] # n /\ e[2] \notin seen'
      <4>1. e[1] \in seen /\ e[2] \notin seen /\ e[2] # n
        BY <1>9, <2>5, <3>3
      <4>2. PICK i \in DOMAIN stack : stack[i].title = e[1] /\ e[2] \in stack[i].rest
        BY <1>1, <4>1 DEF SeenFits, ToTry
      <4>3. stack'[i].title = e[1] /\ e[2] \in stack'[i].rest /\ i \in DOMAIN stack'
        <5>1. stack'[i] = tried[i] /\ i \in DOMAIN stack'
          BY <2>2, <4>2
        <5>2. tried[i].title = e[1] /\ e[2] \in tried[i].rest
          <6>1. CASE i = last
            BY <1>3, <4>1, <4>2, <6>1
          <6>2. CASE i # last
            BY <1>3, <4>2, <6>2
          <6> QED
            BY <6>1, <6>2
        <5> QED
          BY <5>1, <5>2
      <4> QED
        BY <4>3 DEF ToTry
    <3> QED
      BY <3>1, <3>2, <3>3
  <2>6. SeenFits'
    BY <1>1, <1>5, <1>9, <2>5 DEF SeenFits
  <2>7. stack' # <<>>
    BY <2>2
  <2> QED
    BY <1>1, <1>9, <2>3, <2>4, <2>6, <2>7 DEF WalkInv
<1> QED
  BY <1>2, <1>7, <1>8, <1>9 DEF tried

LEMMA AllButLast ==
  ASSUME NEW S, NEW s \in Seq(S), s # <<>>
  PROVE  /\ Len(s) \in Nat /\ Len(s) # 0 /\ DOMAIN s = 1 .. Len(s)
         /\ SubSeq(s, 1, Len(s) - 1) \in Seq(S)
         /\ DOMAIN SubSeq(s, 1, Len(s) - 1) = 1 .. (Len(s) - 1)
         /\ \A i \in 1 .. (Len(s) - 1) : i \in DOMAIN s /\ SubSeq(s, 1, Len(s) - 1)[i] = s[i]
         /\ SubSeq(s, 1, Len(s) - 1) = <<>> <=> Len(s) = 1
<1>1. Len(s) \in Nat /\ Len(s) # 0 /\ DOMAIN s = 1 .. Len(s)
  OBVIOUS
<1> DEFINE t == SubSeq(s, 1, Len(s) - 1)
<1>2. /\ t \in Seq(S) /\ Len(t) = Len(s) - 1
      /\ \A i \in 1 .. (Len(s) - 1) : t[i] = s[i]
  <2>1. 1 \in Int /\ Len(s) - 1 \in Int /\ \A i \in 1 .. (Len(s) - 1) : s[i] \in S
    BY <1>1
  <2>2. /\ t \in Seq(S) /\ Len(t) = IF 1 <= Len(s) - 1 THEN (Len(s) - 1) - 1 + 1 ELSE 0
        /\ \A i \in 1 .. (Len(s) - 1) - 1 + 1 : t[i] = s[1 + i - 1]
    BY <2>1, SubSeqProperties
  <2> QED
    BY <1>1, <2>2
<1> HIDE DEF t
<1>3. t = <<>> <=> Len(t) = 0
  BY <1>2, EmptySeq
<1>4. DOMAIN t = 1 .. Len(t)
  BY <1>2
<1> QED
  BY <1>1, <1>2, <1>3, <1>4 DEF t

LEMMA BackStep == ASSUME WalkInv, Walk!Back PROVE WalkInv'
<1>1. /\ ask \in Walk!Question /\ ask' = ask /\ answer = "none" /\ seen \subseteq Names /\ seen' = seen
      /\ stack # <<>> /\ stack \in Seq(Calls) /\ CallsFit /\ SeenFits
  BY DEF WalkInv, Walk!TypeOK, Walk!Back, Calls
<1>2. /\ stack[Len(stack)].rest = {} /\ stack' = SubSeq(stack, 1, Len(stack) - 1)
      /\ answer' = IF Len(stack) = 1 THEN "not found" ELSE answer
  BY DEF Walk!Back, Walk!Top
<1> DEFINE last == Len(stack)
<1>3. /\ last \in Nat /\ last # 0 /\ DOMAIN stack = 1 .. last
      /\ stack' \in Seq(Calls) /\ DOMAIN stack' = 1 .. (last - 1)
      /\ \A i \in DOMAIN stack' : i \in DOMAIN stack /\ stack'[i] = stack[i]
  BY <1>1, <1>2, AllButLast
<1> HIDE DEF last
<1>4. Walk!TypeOK'
  BY <1>1, <1>2, <1>3 DEF Walk!TypeOK, Calls
<1>5. CallsFit'
  BY <1>1, <1>3 DEF CallsFit
<1>6. ASSUME NEW e \in ask.edges, ToTry(e) PROVE ToTry(e)'
  <2>1. PICK i \in DOMAIN stack : stack[i].title = e[1] /\ e[2] \in stack[i].rest
    BY <1>6 DEF ToTry
  <2>2. i # last
    BY <1>2, <2>1 DEF last
  <2>3. i \in DOMAIN stack'
    BY <1>3, <2>1, <2>2
  <2> QED
    BY <1>3, <2>1, <2>3 DEF ToTry
<1>7. SeenFits'
  BY <1>1, <1>6 DEF SeenFits
<1>8. CASE last = 1
  <2>1. \A e \in ask.edges : ~ ToTry(e)'
    BY <1>3, <1>8 DEF ToTry
  <2>2. Closed(ask.edges, seen)
    BY <1>1, <1>7, <2>1 DEF SeenFits, Closed
  <2>3. ~ Reaches(ask.edges, ask.from, ask.target)
    BY <1>1, <2>2, ClosedSeparates DEF SeenFits
  <2>4. stack' = <<>> /\ answer' = "not found"
    BY <1>1, <1>2, <1>8, AllButLast DEF last
  <2> QED
    BY <1>1, <1>4, <2>3, <2>4 DEF WalkInv
<1>9. CASE last # 1
  <2>1. answer' = "none" /\ stack' # <<>>
    BY <1>1, <1>2, <1>9, AllButLast DEF last
  <2> QED
    BY <1>1, <1>4, <1>5, <1>7, <2>1 DEF WalkInv
<1> QED
  BY <1>8, <1>9

LEMMA WalkNext ==
  ASSUME WalkInv, [PlanningNext]_<<part, vars, assetVars, modelVars, walkVars>>
  PROVE  WalkInv'
<1>1. ASSUME UNCHANGED walkVars PROVE WalkInv'
  BY <1>1 DEF walkVars, WalkInv, Walk!TypeOK, CallsFit, SeenFits, ToTry
<1>2. ASSUME Walk!Next PROVE WalkInv'
  BY <1>1, <1>2, BeginStep, TryStep, BackStep DEF Walk!Next, Walk!Returned, Walk!walkVars, walkVars
<1> QED
  BY <1>1, <1>2, StepOfOne

(* runtime/service_planning.go, domainDependencyReaches: for a graph of    *)
(* any size, with cycles or without, and whatever order its lists have,    *)
(* the walk says that the target is reached exactly when it is.  So the    *)
(* step of PlanDependencies that prunes by Reaches is what the code does.  *)
THEOREM WalkIsCorrect == PlanningSpec => []WalkFindsEveryPath
<1>1. ASSUME WalkInv PROVE WalkFindsEveryPath
  <2>1. /\ Walk!TypeOK /\ answer \in {"none", "found", "not found"}
        /\ answer = "found" => Reaches(ask.edges, ask.from, ask.target)
        /\ answer = "not found" => ~ Reaches(ask.edges, ask.from, ask.target)
    BY <1>1 DEF WalkInv, Walk!TypeOK
  <2> DEFINE path == Reaches(ask.edges, ask.from, ask.target)
  <2>2. answer # "none" => (answer = "found" <=> path)
    <3> HIDE DEF path
    <3>1. (answer = "found" => path) /\ (answer = "not found" => ~ path)
      BY <2>1 DEF path
    <3>2. answer # "none" /\ answer # "found" => answer = "not found"
      BY <2>1
    <3>3. answer = "not found" => answer # "found"
      OBVIOUS
    <3> QED
      BY <3>1, <3>2, <3>3, Zenon
  <2>3. Walk!Reaches(ask.edges, ask.from, ask.target) <=> path
    BY DEF Walk!Reaches, Walk!Closed, Walk!Nodes, Reaches, Closed, Nodes
  <2>4. Walk!FindsEveryPath
    <3> HIDE DEF path
    <3> QED
      BY <2>2, <2>3, Zenon DEF Walk!FindsEveryPath
  <2> QED
    BY <2>1, <2>4 DEF WalkFindsEveryPath
<1> QED
  BY <1>1, WalkInit, WalkNext, PTL DEF PlanningSpec
================================================================================
