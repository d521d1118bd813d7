--------------------------- MODULE MCComponents_proofs ---------------------------
(***************************************************************************)
(* Proofs about the components that run beside the project: the browser,   *)
(* the MCP client, the memories, the code index and the intake of plans.   *)
(* Each has an inductive invariant over its own variables; a step of the   *)
(* others leaves them alone.                                               *)
(***************************************************************************)
EXTENDS MCComponents, FiniteSetTheorems, SequenceTheorems, TLAPS

(* A step is a step of one component, and a stutter of every other.        *)
LEMMA StepOfOne ==
  ASSUME [Next]_vars
  PROVE  /\ Settings!Next \/ UNCHANGED settingsVars
         /\ Sessions!Next \/ UNCHANGED sessionVars
         /\ Stream!Next \/ UNCHANGED streamVars
         /\ MCP!Next \/ UNCHANGED mcpVars
         /\ Work!Next \/ UNCHANGED workVars
         /\ Browser!Next \/ UNCHANGED browserVars
         /\ Memory!Next \/ UNCHANGED memoryVars
         /\ Code!Next \/ UNCHANGED indexVars
         /\ Intake!Next \/ UNCHANGED intakeVars
BY DEF Next, vars, SettingsStep, SessionStep, StreamStep, MCPStep, WorkStep,
  BrowserStep, MemoryStep, IndexStep, IntakeStep

-----------------------------------------------------------------------------
(* The browser                                                             *)

(* A handler that has sent a request has a step to end with the reply.     *)
HandlersFit ==
  /\ browserCall \in [BrowserCalls -> Browser!CallStates]
  /\ \A c \in BrowserCalls : browserCall[c].sent => browserCall[c].todo # <<>>

(* Only the Chrome started last may be alive: a later one is started when  *)
(* that one is gone.  A closed bridge has no handler that could start one. *)
BrowserInv ==
  /\ Browser!TypeOK
  /\ HandlersFit
  /\ cmd <= started
  /\ \A n \in Browser!Chromes : n # cmd => chrome[n] \notin {"starting", "answers"}
  /\ \A n \in Browser!Chromes : n > started => chrome[n] = "none"
  /\ bridge = "closed" => Browser!Handled /\ Browser!Live = {}

(* What a handler has left of an operation is always a suffix of it, and   *)
(* only a whole open begins with the question for the version.             *)
BrowserSteps == Browser!OnPage \cup {"version", "chrome", "newTarget", "lastTarget", "keep"}

LEMMA OperationsAreSteps ==
  \A o \in Browser!Operations :
    o \in Seq(BrowserSteps) /\ \A i \in 1 .. Len(o) : o[i] = "version" => i + 1 < Len(o)
<1> USE DEF BrowserSteps, Browser!OnPage
<1> DEFINE Good(o) == o \in Seq(BrowserSteps) /\ \A i \in 1 .. Len(o) : o[i] = "version" => i + 1 < Len(o)
<1>1. Good(Browser!open)
  BY DEF Browser!open
<1>2. Good(Browser!click)
  BY DEF Browser!click
<1>3. Good(Browser!typeText) /\ Good(Browser!input)
  BY DEF Browser!typeText, Browser!input
<1>4. Good(Browser!wait) /\ Good(Browser!extract) /\ Good(Browser!domSummary)
  BY DEF Browser!wait, Browser!extract, Browser!domSummary
<1>5. Good(Browser!screenshot)
  BY DEF Browser!screenshot
<1> QED
  BY <1>1, <1>2, <1>3, <1>4, <1>5 DEF Browser!Operations

LEMMA SuffixTail ==
  /\ <<>> \in Browser!Suffixes
  /\ Browser!Operations \subseteq Browser!Suffixes
  /\ \A s \in Browser!Suffixes : s # <<>> => Tail(s) \in Browser!Suffixes
  /\ \A s \in Browser!Suffixes : s # <<>> /\ Head(s) = "version" => Tail(s) # <<>> /\ Tail(Tail(s)) # <<>>
<1>1. ASSUME NEW o \in Browser!Operations, NEW i \in 1 .. Len(o) + 1
      PROVE  SubSeq(o, i, Len(o)) \in Browser!Suffixes
  BY DEF Browser!Suffixes
<1>2. ASSUME NEW o \in Browser!Operations PROVE o \in Browser!Suffixes
  <2>1. o \in Seq(BrowserSteps)
    BY OperationsAreSteps
  <2>2. 1 \in 1 .. Len(o) + 1 /\ SubSeq(o, 1, Len(o)) = o
    BY <2>1, SubSeqFull
  <2> QED
    BY <1>1, <2>2
<1>3. <<>> \in Browser!Suffixes
  <2>1. Browser!wait \in Browser!Operations /\ Len(Browser!wait) = 3
    BY DEF Browser!Operations, Browser!wait
  <2>2. SubSeq(Browser!wait, 4, Len(Browser!wait)) = <<>> /\ 4 \in 1 .. Len(Browser!wait) + 1
    BY <2>1, SubSeqEmpty
  <2> QED
    BY <1>1, <2>1, <2>2
<1>4. ASSUME NEW s \in Browser!Suffixes, s # <<>>
      PROVE  Tail(s) \in Browser!Suffixes /\ (Head(s) = "version" => Tail(s) # <<>> /\ Tail(Tail(s)) # <<>>)
  <2>1. PICK o \in Browser!Operations : \E i \in 1 .. Len(o) + 1 : s = SubSeq(o, i, Len(o))
    BY DEF Browser!Suffixes
  <2>2. o \in Seq(BrowserSteps) /\ Len(o) \in Nat
    BY OperationsAreSteps
  <2>3. PICK i \in 1 .. Len(o) + 1 : s = SubSeq(o, i, Len(o))
    BY <2>1
  <2>4. i \in 1 .. Len(o) /\ Len(o) \in i .. Len(o)
    BY <1>4, <2>2, <2>3, SubSeqEmpty
  <2>5. Head(s) = o[i] /\ Tail(s) = SubSeq(o, i + 1, Len(o))
    BY <2>2, <2>3, <2>4, HeadTailOfSubSeq
  <2>6. i + 1 \in 1 .. Len(o) + 1
    BY <2>2, <2>4
  <2>7. ASSUME Head(s) = "version" PROVE Tail(s) # <<>> /\ Tail(Tail(s)) # <<>>
    <3>1. i + 1 < Len(o)
      BY <2>4, <2>5, <2>7, OperationsAreSteps
    <3>2. i + 1 \in 1 .. Len(o) /\ Len(o) \in i + 1 .. Len(o)
      BY <2>2, <2>4, <3>1
    <3>3. Tail(Tail(s)) = SubSeq(o, i + 2, Len(o))
      BY <2>2, <2>5, <3>2, HeadTailOfSubSeq
    <3>4. Len(Tail(s)) # 0 /\ Len(SubSeq(o, i + 2, Len(o))) # 0
      BY <2>2, <2>4, <2>5, <3>1
    <3> QED
      BY <3>3, <3>4, Len(<<>>) = 0
  <2> QED
    BY <1>1, <2>5, <2>6, <2>7
<1> QED
  BY <1>2, <1>3, <1>4

LEMMA BrowserInit == Init => BrowserInv
<1>1. Init => Browser!Init
  BY DEF Init
<1>2. Browser!Idle \in Browser!CallStates /\ ~ Browser!Idle.sent
  BY BrowserAssumption, SuffixTail DEF Browser!Idle, Browser!CallStates
<1>3. Browser!Init => HandlersFit
  BY <1>2 DEF Browser!Init, HandlersFit
<1>4. ASSUME Browser!Init PROVE Browser!TypeOK
  <2>1. cmd \in 0 .. MaxChromes /\ started \in 0 .. MaxChromes /\ last \in 0 .. MaxChromes
    BY <1>4, BrowserAssumption DEF Browser!Init
  <2>2. chrome \in [Browser!Chromes -> Browser!Fates] /\ bridge = "none" /\ mutex = NoCall
    BY <1>4 DEF Browser!Init, Browser!Fates
  <2>3. quit \in BOOLEAN
    BY <1>4, Zenon DEF Browser!Init
  <2> QED
    BY <1>3, <1>4, <2>1, <2>2, <2>3 DEF Browser!TypeOK, HandlersFit
<1>5. ASSUME Browser!Init PROVE BrowserInv
  <2>1. cmd <= started /\ bridge # "closed"
    BY <1>5 DEF Browser!Init
  <2>2. \A n \in Browser!Chromes : chrome[n] = "none"
    BY <1>5 DEF Browser!Init
  <2> QED
    BY <1>3, <1>4, <1>5, <2>1, <2>2 DEF BrowserInv
<1> QED
  BY <1>1, <1>5

(* No step of a handler leaves the shape of a handler.                     *)
LEMMA HandlerShape ==
  ASSUME BrowserInv, NEW c \in BrowserCalls
  PROVE  /\ browserCall[c] \in Browser!CallStates
         /\ Browser!End(c) => HandlersFit'
         /\ \A n \in 0 .. MaxChromes :
              browserCall[c].todo # <<>> /\ Browser!OnWith(c, n)
                => HandlersFit'
         /\ browserCall[c].todo # <<>> /\ Browser!On(c)
              => HandlersFit'
<1>1. HandlersFit
  BY DEF BrowserInv
<1>2. Browser!Idle \in Browser!CallStates /\ ~ Browser!Idle.sent
  BY SuffixTail, BrowserAssumption DEF Browser!Idle, Browser!CallStates
<1>3. ASSUME NEW n \in 0 .. MaxChromes, browserCall[c].todo # <<>>, Browser!OnWith(c, n)
      PROVE  HandlersFit'
  <2>1. Browser!Later(c, n) \in Browser!CallStates /\ ~ Browser!Later(c, n).sent
    BY <1>1, <1>3, SuffixTail DEF HandlersFit, Browser!Later, Browser!CallStates
  <2> QED
    BY <1>1, <1>2, <1>3, <2>1 DEF Browser!OnWith, HandlersFit
<1>4. browserCall[c].page \in 0 .. MaxChromes
  BY <1>1 DEF HandlersFit, Browser!CallStates
<1> QED
  BY <1>1, <1>2, <1>3, <1>4 DEF HandlersFit, Browser!CallStates, Browser!End, Browser!On

(* Nothing is left to do for a handler of a closed bridge.                 *)
LEMMA HandlersRunWhileOpen ==
  ASSUME BrowserInv, NEW c \in BrowserCalls, browserCall[c].todo # <<>> \/ browserCall[c].sent
  PROVE  bridge # "closed"
BY DEF BrowserInv, Browser!Handled, Browser!Idle

(* A step that leaves Chrome alone, on a bridge that is not closed.        *)
LEMMA ChromeStays ==
  ASSUME BrowserInv, UNCHANGED <<cmd, started, chrome>>, Browser!TypeOK', bridge' # "closed",
         HandlersFit'
  PROVE  BrowserInv'
BY DEF BrowserInv

LEMMA HandlerStep ==
  ASSUME BrowserInv, NEW c \in BrowserCalls,
         \/ \E o \in Browser!Operations : Browser!Begin(c, o)
         \/ Browser!GiveUp(c) \/ Browser!Version(c) \/ Browser!AwaitChrome(c)
         \/ Browser!NewTarget(c) \/ Browser!LastTarget(c) \/ Browser!DialCDP(c) \/ Browser!SessionCall(c)
         \/ Browser!PageFails(c) \/ Browser!Keep(c)
  PROVE  BrowserInv'
<1> USE HandlerShape, HandlersRunWhileOpen, ChromeStays DEF Browser!At, HandlersFit
<1>1. Browser!TypeOK /\ HandlersFit
  BY DEF BrowserInv
<1>2. ASSUME NEW o \in Browser!Operations, Browser!Begin(c, o) PROVE BrowserInv'
  <2>1. HandlersFit'
    <3>1. o \in Browser!Suffixes /\ ~ browserCall[c].sent
      BY <1>2, SuffixTail DEF Browser!Begin, Browser!Idle
    <3>2. browserCall' = [browserCall EXCEPT ![c].todo = o]
      BY <1>2 DEF Browser!Begin
    <3>3. browserCall' \in [BrowserCalls -> Browser!CallStates]
      BY <1>1, <3>1, <3>2 DEF Browser!CallStates
    <3> QED
      BY <1>1, <3>1, <3>2, <3>3
  <2> QED
    BY <1>1, <1>2, <2>1 DEF Browser!Begin, Browser!TypeOK
<1>3. CASE Browser!GiveUp(c)
  <2>1. HandlersFit'
    BY <1>1, <1>3 DEF Browser!GiveUp, Browser!TypeOK, HandlersFit, Browser!CallStates
  <2> QED
    BY <1>1, <1>3, <2>1 DEF Browser!GiveUp, Browser!TypeOK
<1>4. CASE Browser!Version(c)
  <2>1. Tail(Tail(browserCall[c].todo)) \in Browser!Suffixes
    BY <1>4, SuffixTail DEF Browser!Version, HandlersFit, Browser!CallStates
  <2>2. HandlersFit'
    <3>1. CASE browserCall' = [browserCall EXCEPT ![c].todo = Tail(Tail(@))]
      <4>1. Tail(Tail(browserCall[c].todo)) # <<>>
        BY <1>4, SuffixTail DEF Browser!Version, Browser!CallStates
      <4>2. browserCall' \in [BrowserCalls -> Browser!CallStates]
        BY <1>1, <2>1, <3>1 DEF Browser!CallStates
      <4> QED
        BY <1>1, <3>1, <4>1, <4>2
    <3> QED
      BY <1>4, <3>1 DEF Browser!Version
  <2> QED
    BY <1>1, <1>4, <2>2 DEF Browser!Version, Browser!TypeOK
<1>5. CASE Browser!AwaitChrome(c)
  BY <1>1, <1>5 DEF Browser!AwaitChrome, Browser!TypeOK
<1>6. CASE Browser!NewTarget(c)
  <2>1. PICK n \in Browser!Answering : Browser!OnWith(c, n)
    BY <1>6 DEF Browser!NewTarget
  <2>2. n \in 0 .. MaxChromes
    BY <2>1, BrowserAssumption DEF Browser!Answering, Browser!Chromes
  <2> QED
    BY <1>1, <1>6, <2>1, <2>2 DEF Browser!NewTarget, Browser!TypeOK
<1>7. CASE Browser!LastTarget(c)
  BY <1>1, <1>7 DEF Browser!LastTarget, Browser!TypeOK
<1>8. CASE Browser!DialCDP(c)
  <2>1. HandlersFit'
    BY <1>1, <1>8 DEF Browser!DialCDP, Browser!TypeOK, HandlersFit, Browser!CallStates
  <2> QED
    BY <1>1, <1>8, <2>1 DEF Browser!DialCDP, Browser!TypeOK
<1>9. CASE Browser!SessionCall(c)
  <2>1. CASE browserCall' = [browserCall EXCEPT ![c].sent = FALSE]
    <3>1. browserCall' \in [BrowserCalls -> Browser!CallStates]
      BY <1>1, <2>1 DEF Browser!CallStates
    <3>2. HandlersFit'
      BY <1>1, <2>1, <3>1
    <3> QED
      BY <1>1, <1>9, <3>2 DEF Browser!SessionCall, Browser!TypeOK
  <2>2. CASE Browser!On(c)
    BY <1>1, <1>9, <2>2 DEF Browser!SessionCall, Browser!TypeOK, HandlersFit, Browser!CallStates
  <2> QED
    BY <1>1, <1>9, <2>1 DEF Browser!SessionCall, Browser!TypeOK
<1>10. CASE Browser!PageFails(c)
  BY <1>1, <1>10 DEF Browser!PageFails, Browser!TypeOK
<1>11. CASE Browser!Keep(c)
  BY <1>1, <1>11 DEF Browser!Keep, Browser!TypeOK, HandlersFit, Browser!CallStates
<1> QED
  BY <1>2, <1>3, <1>4, <1>5, <1>6, <1>7, <1>8, <1>9, <1>10, <1>11

(* ensureChrome starts a Chrome only when the one started last is gone, so *)
(* that no other is alive.                                                 *)
LEMMA ChromeStep ==
  ASSUME BrowserInv,
         \/ \E c \in BrowserCalls : Browser!LockChrome(c) \/ Browser!StartFails(c)
         \/ \E n \in Browser!Chromes : Browser!Answer(n) \/ Browser!Die(n) \/ Browser!Waited(n)
         \/ Browser!CloseUnused \/ Browser!Shutdown \/ Browser!Close
  PROVE  BrowserInv'
<1> USE BrowserAssumption DEF Browser!Chromes
<1>1. Browser!TypeOK /\ cmd <= started /\ HandlersFit
  BY DEF BrowserInv
<1>2. ASSUME NEW c \in BrowserCalls, Browser!LockChrome(c) PROVE BrowserInv'
  <2>1. bridge' = bridge /\ bridge # "closed"
    BY <1>2, HandlersRunWhileOpen DEF Browser!LockChrome, Browser!At
  <2>2. CASE Browser!chromeRunningLocked
    BY <1>1, <1>2, <2>1, <2>2, ChromeStays DEF Browser!LockChrome, Browser!TypeOK, HandlersFit
  <2>3. CASE ~ Browser!chromeRunningLocked
    <3>1. \A n \in 1 .. MaxChromes : chrome[n] \notin {"starting", "answers"}
      BY <1>1, <2>3 DEF BrowserInv, Browser!chromeRunningLocked, Browser!TypeOK
    <3>2. started < MaxChromes /\ started' = started + 1 /\ cmd' = started + 1
          /\ chrome' = [chrome EXCEPT ![started + 1] = "starting"]
      BY <1>2, <2>3 DEF Browser!LockChrome
    <3>3. Browser!TypeOK'
      BY <1>1, <1>2, <3>2 DEF Browser!LockChrome, Browser!TypeOK, Browser!Fates
    <3>4. \A n \in 1 .. MaxChromes : n # started + 1 => chrome'[n] = chrome[n]
      BY <1>1, <3>2 DEF Browser!TypeOK
    <3>5. HandlersFit'
      BY <1>1, <1>2 DEF Browser!LockChrome, HandlersFit
    <3> QED
      BY <1>1, <2>1, <3>1, <3>2, <3>3, <3>4, <3>5 DEF BrowserInv, Browser!TypeOK
  <2> QED
    BY <2>2, <2>3
<1>3. ASSUME NEW c \in BrowserCalls, Browser!StartFails(c) PROVE BrowserInv'
  <2>1. bridge' = bridge /\ bridge # "closed"
    BY <1>3, HandlersRunWhileOpen DEF Browser!StartFails, Browser!At
  <2>2. \A n \in 1 .. MaxChromes : chrome[n] \notin {"starting", "answers"}
    BY <1>1, <1>3 DEF BrowserInv, Browser!StartFails, Browser!chromeRunningLocked, Browser!TypeOK
  <2>3. Browser!TypeOK'
    BY <1>1, <1>3, HandlerShape DEF Browser!StartFails, Browser!TypeOK, HandlersFit
  <2>4. HandlersFit'
    BY <1>3, HandlerShape DEF Browser!StartFails
  <2> QED
    BY <1>1, <1>3, <2>1, <2>2, <2>3, <2>4 DEF BrowserInv, Browser!StartFails, Browser!TypeOK
<1>4. ASSUME NEW n \in Browser!Chromes, Browser!Answer(n) \/ Browser!Die(n) \/ Browser!Waited(n)
      PROVE  BrowserInv'
  <2>1. PICK to \in {"answers", "died", "gone"} :
          /\ chrome' = [chrome EXCEPT ![n] = to]
          /\ chrome[n] \in {"starting", "answers", "died"}
          /\ to = "answers" => chrome[n] = "starting"
    BY <1>4 DEF Browser!Answer, Browser!Die, Browser!Waited, Browser!Fate
  <2>2. UNCHANGED <<bridge, mutex, cmd, started, last, browserCall, quit>>
    BY <1>4 DEF Browser!Answer, Browser!Die, Browser!Waited, Browser!Fate
  <2>3. Browser!TypeOK'
    BY <1>1, <2>1, <2>2 DEF Browser!TypeOK, Browser!Fates
  <2>4. \A m \in Browser!Chromes : chrome'[m] \in {"starting", "answers"} => chrome[m] \in {"starting", "answers"}
    BY <1>1, <2>1 DEF Browser!TypeOK
  <2>5. \A m \in Browser!Chromes : chrome[m] = "none" => chrome'[m] = "none"
    BY <1>1, <2>1 DEF Browser!TypeOK
  <2> QED
    BY <2>2, <2>3, <2>4, <2>5 DEF BrowserInv, Browser!Live, Browser!Handled, HandlersFit
<1>5. CASE Browser!Shutdown
  BY <1>1, <1>5, ChromeStays DEF Browser!Shutdown, Browser!TypeOK, HandlersFit
<1>6. CASE Browser!Close
  <2>1. Browser!TypeOK'
    BY <1>1, <1>6 DEF Browser!Close, Browser!TypeOK, Browser!Fates
  <2>2. \A m \in Browser!Chromes : chrome'[m] \notin {"starting", "answers"}
    BY <1>6 DEF Browser!Close, BrowserInv, Browser!Live
  <2>3. \A m \in Browser!Chromes : chrome[m] = "none" => chrome'[m] = "none"
    BY <1>6 DEF Browser!Close, BrowserInv, Browser!Live
  <2>4. Browser!Handled'
    BY <1>6 DEF Browser!Close, Browser!Handled
  <2>5. UNCHANGED <<cmd, started>> /\ HandlersFit'
    BY <1>1, <1>6 DEF Browser!Close, HandlersFit
  <2> QED
    BY <1>1, <2>1, <2>2, <2>3, <2>4, <2>5 DEF BrowserInv, Browser!Live
<1>7. CASE Browser!CloseUnused
  BY <1>1, <1>7, ChromeStays DEF Browser!CloseUnused, Browser!TypeOK, HandlersFit
<1> QED
  BY <1>2, <1>3, <1>4, <1>5, <1>6, <1>7

LEMMA BrowserNext == BrowserInv /\ (Browser!Next \/ UNCHANGED browserVars) => BrowserInv'
<1>1. BrowserInv /\ Browser!Next => BrowserInv'
  BY HandlerStep, ChromeStep DEF Browser!Next
<1>2. BrowserInv /\ UNCHANGED browserVars => BrowserInv'
  BY DEF browserVars, BrowserInv, HandlersFit, Browser!TypeOK, Browser!Handled, Browser!Live
<1> QED
  BY <1>1, <1>2

LEMMA BrowserInvariance == Spec => []BrowserInv
<1>1. BrowserInv /\ [Next]_vars => BrowserInv'
  BY StepOfOne, BrowserNext
<1> QED
  BY <1>1, BrowserInit, PTL DEF Spec

(* However calls, deadlines, deaths and Close interleave, for any number   *)
(* of them: the bridge has at most one Chrome alive, and none when its     *)
(* Close has returned (ensureChrome, Close).  A bridge started after the   *)
(* engine was closed unused is never closed, and keeps its one Chrome.     *)
THEOREM AtMostOneChrome == Spec => []OneChrome
<1>1. BrowserInv => OneChrome
  BY DEF BrowserInv, OneChrome, Browser!OneChrome, Browser!Live
<1> QED
  BY <1>1, BrowserInvariance, PTL

-----------------------------------------------------------------------------
(* The MCP client                                                          *)

Registered == {r \in MCP!Requests : at[r] # "new"}

(* An id names one request for good; whoever waits under it is that        *)
(* request, which is open and has no reply yet; so a reply reaches the     *)
(* request it is meant for, and what a call returns is its own reply.      *)
MCPInv ==
  /\ MCP!TypeOK
  /\ nextID = Cardinality(Registered)
  /\ \A r \in MCP!Requests : id[r] <= nextID /\ (id[r] = 0 <=> at[r] = "new")
  /\ \A r, s \in MCP!Requests : id[r] = id[s] /\ id[r] # 0 => r = s
  /\ \A n \in MCP!Ids : waiting[n] # Nobody =>
       /\ id[waiting[n]] = n /\ at[waiting[n]] \in {"write", "wait", "return"}
       /\ inbox[waiting[n]] = Nobody
  /\ \A r \in received : at[r] # "new"
  /\ \A r \in MCP!Requests :
       /\ at[r] = "new" => inbox[r] = Nobody
       /\ inbox[r] # Nobody => inbox[r].of = r
       /\ result[r] # Nobody => result[r] = inbox[r]

(* The client counts its requests as the proofs do, and they are finitely  *)
(* many.                                                                   *)
LEMMA RequestsAreFinite ==
  /\ IsFiniteSet(MCP!Requests)
  /\ MCP!Cardinality(MCP!Requests) = Cardinality(MCP!Requests)
  /\ Cardinality(MCP!Requests) \in Nat
<1>1. IsFiniteSet({"tools/list"} \X (1 .. MaxPages)) /\ IsFiniteSet({"tools/call"} \X ToolNumbers)
  <2>1. IsFiniteSet({"tools/list"}) /\ IsFiniteSet({"tools/call"}) /\ IsFiniteSet(ToolNumbers)
    BY MCPAssumption, FS_Singleton
  <2>2. IsFiniteSet(1 .. MaxPages)
    BY MCPAssumption, FS_Interval
  <2> QED
    BY <2>1, <2>2, FS_Product
<1>2. IsFiniteSet(MCP!Requests)
  BY <1>1, FS_Singleton, FS_Union DEF MCP!Requests
<1>3. MCP!Cardinality(MCP!Requests) = Cardinality(MCP!Requests)
  BY DEF Cardinality, MCP!Cardinality, IsFiniteSet, MCP!IsFiniteSet
<1> QED
  BY <1>2, <1>3, FS_CardinalityType

LEMMA NobodyIsNone ==
  /\ Nobody \notin MCP!Requests
  /\ Nobody \notin MCP!ReplyTo
BY MCPAssumption

LEMMA MCPInit == Init => MCPInv
<1> SUFFICES ASSUME Init PROVE MCPInv
  OBVIOUS
<1>1. MCP!Init
  BY DEF Init
<1>2. Registered = {}
  BY <1>1 DEF MCP!Init, Registered
<1>3. MCP!Cardinality(reader) = 0
  <2>1. MCP!Cardinality(reader) = Cardinality(reader)
    BY DEF Cardinality, MCP!Cardinality, IsFiniteSet, MCP!IsFiniteSet
  <2> QED
    BY <1>1, <2>1, FS_EmptySet DEF MCP!Init
<1>4. MCP!TypeOK
  BY <1>1, <1>3, RequestsAreFinite DEF MCP!Init, MCP!TypeOK, MCP!Places
<1> QED
  BY <1>1, <1>2, <1>4, FS_EmptySet DEF MCP!Init, MCPInv, MCP!Ids

(* A new request gets an id that no other has or had.                      *)
LEMMA FreshId ==
  ASSUME MCPInv, NEW r \in MCP!Requests, at[r] = "new"
  PROVE  /\ nextID + 1 \in MCP!Ids
         /\ Cardinality(Registered \cup {r}) = nextID + 1
         /\ \A s \in MCP!Requests : id[s] # nextID + 1
         /\ waiting[nextID + 1] = Nobody
<1>1. IsFiniteSet(Registered) /\ r \notin Registered /\ Registered \cup {r} \subseteq MCP!Requests
  BY RequestsAreFinite, FS_Subset DEF Registered
<1>2. Cardinality(Registered \cup {r}) = nextID + 1
  BY <1>1, FS_AddElement DEF MCPInv
<1>3. Cardinality(Registered \cup {r}) <= Cardinality(MCP!Requests) /\ nextID \in Nat
  BY <1>1, RequestsAreFinite, FS_Subset DEF MCPInv, MCP!TypeOK
<1>4. nextID + 1 \in MCP!Ids
  BY <1>2, <1>3, RequestsAreFinite DEF MCP!Ids
<1>5. \A s \in MCP!Requests : id[s] # nextID + 1
  BY <1>3, RequestsAreFinite DEF MCPInv, MCP!TypeOK
<1> QED
  BY <1>2, <1>4, <1>5 DEF MCPInv, MCP!TypeOK

LEMMA Registering ==
  ASSUME MCPInv, NEW r \in MCP!Requests, MCP!register(r)
  PROVE  MCPInv'
<1> USE DEF MCP!register, MCP!FreshId, MCP!Goto
<1>1. MCP!TypeOK /\ MCP!Cardinality(MCP!Requests) \in Nat
  BY RequestsAreFinite DEF MCPInv
<1>2. at[r] = "new" /\ id[r] = 0
  BY DEF MCPInv
<1>3. /\ nextID + 1 \in MCP!Ids /\ \A s \in MCP!Requests : id[s] # nextID + 1
      /\ waiting[nextID + 1] = Nobody /\ Cardinality(Registered \cup {r}) = nextID + 1
  BY <1>2, FreshId
<1>4. MCP!TypeOK'
  BY <1>1, <1>3 DEF MCP!TypeOK, MCP!Places, MCP!Ids
<1>5. Registered' = Registered \cup {r}
  BY <1>1 DEF Registered, MCP!TypeOK
<1>6. \A s \in MCP!Requests : s # r => id'[s] = id[s] /\ at'[s] = at[s]
  BY <1>1 DEF MCP!TypeOK
<1>7. id'[r] = nextID + 1 /\ at'[r] = "write"
  BY <1>1 DEF MCP!TypeOK
<1>8. inbox[r] = Nobody /\ UNCHANGED <<inbox, result, received>>
  BY <1>2 DEF MCPInv
<1>9. \A s \in MCP!Requests : id'[s] <= nextID' /\ (id'[s] = 0 <=> at'[s] = "new")
  BY <1>1, <1>6, <1>7 DEF MCPInv, MCP!TypeOK
<1>10. \A s, t \in MCP!Requests : id'[s] = id'[t] /\ id'[s] # 0 => s = t
  BY <1>3, <1>6, <1>7 DEF MCPInv
<1>11. ASSUME NEW n \in MCP!Ids, waiting'[n] # Nobody
       PROVE  /\ id'[waiting'[n]] = n /\ at'[waiting'[n]] \in {"write", "wait", "return"}
              /\ inbox[waiting'[n]] = Nobody
  <2>1. CASE n = nextID + 1
    BY <1>1, <1>3, <1>7, <1>8, <2>1 DEF MCP!TypeOK
  <2>2. CASE n # nextID + 1
    <3>1. waiting'[n] = waiting[n] /\ waiting[n] \in MCP!Requests
      BY <1>1, <1>3, <1>11, <2>2 DEF MCP!TypeOK
    <3>2. waiting[n] # r
      BY <1>2, <1>11, <3>1 DEF MCPInv
    <3> QED
      BY <1>6, <1>11, <3>1, <3>2 DEF MCPInv
  <2> QED
    BY <2>1, <2>2
<1>12. \A s \in received : at'[s] # "new"
  BY <1>1, <1>6, <1>7 DEF MCPInv, MCP!TypeOK
<1> QED
  BY <1>3, <1>4, <1>5, <1>6, <1>7, <1>8, <1>9, <1>10, <1>11, <1>12 DEF MCPInv

(* A registered request goes on, gives up its place, or takes its reply.   *)
LEMMA CallStep ==
  ASSUME MCPInv, NEW r \in MCP!Requests,
         MCP!Write(r) \/ MCP!Wait(r) \/ MCP!unregister(r) \/ MCP!Lapse(r)
  PROVE  MCPInv'
<1>1. MCP!TypeOK
  BY DEF MCPInv
<1>2. at[r] \in {"write", "wait", "return"} /\ id[r] \in MCP!Ids
  BY <1>1, RequestsAreFinite DEF MCP!Write, MCP!Wait, MCP!unregister, MCP!Lapse, MCPInv, MCP!TypeOK, MCP!Ids
<1>3. PICK after \in {"write", "wait", "return", "done"} :
        /\ at' = [at EXCEPT ![r] = after]
        /\ after = "done" => waiting' = [waiting EXCEPT ![id[r]] = Nobody]
        /\ after # "done" => waiting' = waiting
  BY <1>1, <1>2 DEF MCP!Write, MCP!Wait, MCP!unregister, MCP!Lapse, MCP!Goto, MCP!TypeOK
<1>4. UNCHANGED <<nextID, id, inbox>>
  BY DEF MCP!Write, MCP!Wait, MCP!unregister, MCP!Lapse
<1>5. \/ result' = result
      \/ inbox[r] # Nobody /\ result' = [result EXCEPT ![r] = inbox[r]]
  BY DEF MCP!Write, MCP!Wait, MCP!unregister, MCP!Lapse
<1>6. received' \subseteq received \cup {r}
  BY DEF MCP!Write, MCP!Wait, MCP!unregister, MCP!Lapse
<1>7. \A s \in MCP!Requests : at'[s] = "new" <=> at[s] = "new"
  BY <1>1, <1>2, <1>3 DEF MCP!TypeOK
<1>8. setup' \in {<<"initialize", 0>>, <<"ready", 0>>, <<"failed", 0>>} \cup ({"tools/list"} \X (1 .. MaxPages))
  <2>1. CASE MCP!unregister(r)
    <3> DEFINE Places == {<<"initialize", 0>>, <<"ready", 0>>, <<"failed", 0>>} \cup ({"tools/list"} \X (1 .. MaxPages))
    <3>1. setup' = MCP!NextSetup(r) /\ setup \in Places
      BY <1>1, <2>1 DEF MCP!unregister, MCP!TypeOK
    <3>2. <<"tools/list", 1>> \in Places
      BY MCPAssumption
    <3>3. CASE r[1] = "tools/call"
      BY <3>1, <3>3 DEF MCP!NextSetup
    <3>4. CASE r[1] = "initialize"
      BY <3>1, <3>2, <3>4 DEF MCP!NextSetup
    <3>5. CASE r[1] = "tools/list"
      <4>1. r[2] \in 1 .. MaxPages
        BY <3>5 DEF MCP!Requests
      <4>2. MCP!AfterPage(r[2]) \in Places
        BY <4>1, MCPAssumption DEF MCP!AfterPage
      <4> QED
        BY <3>1, <3>5, <4>2 DEF MCP!NextSetup
    <3> QED
      BY <3>3, <3>4, <3>5 DEF MCP!Requests
  <2>2. CASE ~ MCP!unregister(r)
    BY <1>1, <2>2 DEF MCP!Write, MCP!Wait, MCP!Lapse, MCP!TypeOK
  <2> QED
    BY <2>1, <2>2
<1>9. UNCHANGED <<reader, alive>> /\ lapsed' \subseteq lapsed \cup {r}
  BY DEF MCP!Write, MCP!Wait, MCP!unregister, MCP!Lapse
<1>10. MCP!TypeOK'
  <2>1. at' \in [MCP!Requests -> MCP!Places] /\ waiting' \in [MCP!Ids -> MCP!Requests \cup {Nobody}]
    BY <1>1, <1>2, <1>3 DEF MCP!TypeOK, MCP!Places
  <2>2. result' \in [MCP!Requests -> MCP!ReplyTo \cup {Nobody}]
    BY <1>1, <1>5 DEF MCP!TypeOK
  <2> QED
    BY <1>1, <1>4, <1>6, <1>8, <1>9, <2>1, <2>2 DEF MCP!TypeOK
<1>11. Registered' = Registered
  BY <1>7 DEF Registered
<1>12. ASSUME NEW n \in MCP!Ids, waiting'[n] # Nobody
       PROVE  waiting'[n] = waiting[n] /\ at'[waiting[n]] \in {"write", "wait", "return"}
  <2>1. waiting'[n] = waiting[n] /\ waiting[n] \in MCP!Requests /\ id[waiting[n]] = n
    BY <1>1, <1>2, <1>3, <1>12 DEF MCP!TypeOK, MCPInv
  <2>2. waiting[n] = r => after # "done"
    BY <1>1, <1>2, <1>3, <1>12, <2>1 DEF MCP!TypeOK
  <2> QED
    BY <1>1, <1>3, <1>12, <2>1, <2>2 DEF MCP!TypeOK, MCPInv
<1>13. \A s \in MCP!Requests : result'[s] # Nobody => result'[s] = inbox[s]
  BY <1>1, <1>5 DEF MCPInv, MCP!TypeOK
<1>14. \A s \in received' : at'[s] # "new"
  BY <1>1, <1>2, <1>6, <1>7 DEF MCPInv, MCP!TypeOK
<1> QED
  BY <1>4, <1>7, <1>10, <1>11, <1>12, <1>13, <1>14 DEF MCPInv

(* The reply goes to the request it answers.                               *)
LEMMA RightChannel ==
  ASSUME MCPInv, NEW r \in MCP!Requests, NEW body \in MCP!Says(r), MCP!deliver(r, body)
  PROVE  /\ waiting[id[r]] = r /\ id[r] \in MCP!Ids
         /\ inbox[r] = Nobody /\ at[r] \in {"write", "wait", "return"}
         /\ inbox' = [inbox EXCEPT ![r] = [of |-> r, body |-> body]]
         /\ [of |-> r, body |-> body] \in MCP!ReplyTo
<1>1. r \in received /\ waiting[id[r]] # Nobody
  BY DEF MCP!deliver
<1>2. id[r] \in MCP!Ids /\ id[r] # 0
  BY <1>1, RequestsAreFinite DEF MCPInv, MCP!TypeOK, MCP!Ids
<1>3. waiting[id[r]] \in MCP!Requests
  BY <1>1, <1>2 DEF MCPInv, MCP!TypeOK
<1>4. waiting[id[r]] = r
  BY <1>1, <1>2, <1>3 DEF MCPInv
<1>5. body \in MCP!Bodies
  BY DEF MCP!Says, MCP!Bodies
<1> QED
  BY <1>1, <1>2, <1>4, <1>5 DEF MCPInv, MCP!deliver, MCP!ReplyTo

LEMMA Delivering ==
  ASSUME MCPInv, NEW r \in MCP!Requests, NEW body \in MCP!Says(r), MCP!deliver(r, body)
  PROVE  MCPInv'
<1> DEFINE reply == [of |-> r, body |-> body]
<1>1. MCP!TypeOK
  BY DEF MCPInv
<1>2. /\ waiting[id[r]] = r /\ id[r] \in MCP!Ids
      /\ inbox[r] = Nobody /\ at[r] \in {"write", "wait", "return"}
      /\ inbox' = [inbox EXCEPT ![r] = reply] /\ reply \in MCP!ReplyTo /\ reply.of = r
  BY RightChannel
<1> HIDE DEF reply
<1>3. /\ waiting' = [waiting EXCEPT ![id[r]] = Nobody] /\ reader' = {r}
      /\ UNCHANGED <<nextID, id, at, lapsed, received, alive, result, setup>>
  BY <1>2 DEF MCP!deliver
<1>4. MCP!Cardinality({r}) = 1
  <2>1. MCP!Cardinality({r}) = Cardinality({r})
    BY DEF Cardinality, MCP!Cardinality, IsFiniteSet, MCP!IsFiniteSet
  <2> QED
    BY <2>1, FS_Singleton
<1>5. inbox' \in [MCP!Requests -> MCP!ReplyTo \cup {Nobody}]
  BY <1>1, <1>2 DEF MCP!TypeOK
<1>6. waiting' \in [MCP!Ids -> MCP!Requests \cup {Nobody}]
  BY <1>1, <1>2, <1>3 DEF MCP!TypeOK
<1>7. MCP!TypeOK'
  BY <1>1, <1>3, <1>4, <1>5, <1>6 DEF MCP!TypeOK
<1>8. Registered' = Registered
  BY <1>3 DEF Registered
<1>9. \A s \in MCP!Requests : s # r => inbox'[s] = inbox[s]
  BY <1>1, <1>2 DEF MCP!TypeOK
<1>10. inbox'[r] = reply
  BY <1>1, <1>2 DEF MCP!TypeOK
<1>11. ASSUME NEW n \in MCP!Ids, waiting'[n] # Nobody
       PROVE  waiting'[n] = waiting[n] /\ waiting[n] \in MCP!Requests /\ waiting[n] # r
  <2>1. n # id[r] /\ waiting'[n] = waiting[n] /\ waiting[n] \in MCP!Requests
    BY <1>1, <1>2, <1>3, <1>11 DEF MCP!TypeOK
  <2> QED
    BY <1>11, <2>1 DEF MCPInv
<1>12. result[r] = Nobody
  BY <1>2 DEF MCPInv
<1> QED
  BY <1>2, <1>3, <1>7, <1>8, <1>9, <1>10, <1>11, <1>12 DEF MCPInv

LEMMA MCPNext == MCPInv /\ (MCP!Next \/ UNCHANGED mcpVars) => MCPInv'
<1> SUFFICES ASSUME MCPInv, MCP!Next \/ UNCHANGED mcpVars PROVE MCPInv'
  OBVIOUS
<1>1. ASSUME UNCHANGED <<nextID, id, at, lapsed, waiting, inbox, received, result, setup>>,
             alive' \in BOOLEAN, reader' \in {{}, reader}
      PROVE  MCPInv'
  <2>0. MCP!Cardinality({}) = Cardinality({})
    BY DEF Cardinality, MCP!Cardinality, IsFiniteSet, MCP!IsFiniteSet
  <2>1. MCP!Cardinality({}) = 0
    BY <2>0, FS_EmptySet
  <2>2. reader' \subseteq MCP!Requests /\ MCP!Cardinality(reader') <= 1
    <3>1. reader \subseteq MCP!Requests /\ MCP!Cardinality(reader) <= 1
      BY DEF MCPInv, MCP!TypeOK
    <3>2. CASE reader' = {}
      BY <2>1, <3>2
    <3>3. CASE reader' = reader
      BY <3>1, <3>3
    <3> QED
      BY <1>1, <3>2, <3>3
  <2>3. MCP!TypeOK'
    BY <1>1, <2>2 DEF MCPInv, MCP!TypeOK
  <2> QED
    BY <1>1, <2>3 DEF MCPInv, Registered
<1>2. CASE MCP!Delivered
  BY <1>1, <1>2 DEF MCP!Delivered, MCPInv, MCP!TypeOK
<1>3. CASE MCP!ServerDies
  BY <1>1, <1>3 DEF MCP!ServerDies
<1>4. CASE UNCHANGED mcpVars
  BY <1>1, <1>4 DEF mcpVars, MCPInv, MCP!TypeOK
<1> QED
  BY <1>2, <1>3, <1>4, Registering, CallStep, Delivering DEF MCP!Next

LEMMA MCPInvariance == Spec => []MCPInv
<1>1. MCPInv /\ [Next]_vars => MCPInv'
  BY StepOfOne, MCPNext
<1> QED
  BY <1>1, MCPInit, PTL DEF Spec

(* However the replies are repeated, delayed or out of order, for any      *)
(* number of requests, no call returns the reply to another (call, deliver,*)
(* unregister).                                                            *)
THEOREM OwnReplies == Spec => []NoCrossedReplies
<1>1. MCPInv => NoCrossedReplies
  BY DEF MCPInv, NoCrossedReplies, MCP!NoCrossedReplies
<1> QED
  BY <1>1, MCPInvariance, PTL

(* The client implements OneShotReply.                                     *)
LEMMA MCPRepliesInit == Init => MCP!Replies!Init
<1> SUFFICES ASSUME Init PROVE MCP!Replies!Init
  OBVIOUS
<1>1. MCP!Init
  BY DEF Init
<1> QED
  BY <1>1 DEF MCP!Init, MCP!Replies!Init

(* A request is registered (Ask), takes its reply (Answer) and leaves with *)
(* it or with none (Finish); every other step changes none of this.        *)
LEMMA MCPRepliesStep == MCPInv /\ [Next]_vars => [MCP!Replies!Next]_(MCP!Replies!vars)
<1> SUFFICES ASSUME MCPInv, MCP!Next \/ UNCHANGED mcpVars
             PROVE  MCP!Replies!Next \/ UNCHANGED MCP!Replies!vars
  BY StepOfOne
<1>1. MCP!TypeOK
  BY DEF MCPInv
<1>2. ASSUME NEW r \in MCP!Requests, MCP!register(r) PROVE MCP!Replies!Ask(r)
  BY <1>1, <1>2 DEF MCP!register, MCP!Goto, MCP!TypeOK, MCP!Replies!Ask
<1>3. ASSUME NEW r \in MCP!Requests, NEW body \in MCP!Says(r), MCP!deliver(r, body)
      PROVE  MCP!Replies!Answer(r)
  BY <1>1, <1>3, RightChannel DEF MCP!deliver, MCP!Replies!Answer
<1>4. ASSUME NEW r \in MCP!Requests, MCP!unregister(r) PROVE MCP!Replies!Finish(r)
  <2>1. at[r] = "return" /\ at' = [at EXCEPT ![r] = "done"] /\ UNCHANGED <<result, inbox>>
    BY <1>4 DEF MCP!unregister, MCP!Goto
  <2>2. result[r] \in {Nobody, inbox[r]}
    BY DEF MCPInv
  <2> DEFINE phase == [s \in MCP!Requests |-> IF at[s] = "new" THEN "idle" ELSE IF at[s] = "done" THEN "closed" ELSE "open"]
             got == [s \in MCP!Requests |-> IF at[s] = "done" THEN result[s] ELSE Nobody]
  <2>3. phase[r] = "open" /\ phase' = [phase EXCEPT ![r] = "closed"]
    BY <1>1, <2>1 DEF MCP!TypeOK
  <2>4. result[r] = Nobody => got' = got
    BY <1>1, <2>1 DEF MCP!TypeOK
  <2>5. result[r] = inbox[r] => got' = [got EXCEPT ![r] = inbox[r]]
    BY <1>1, <2>1 DEF MCP!TypeOK
  <2> QED
    BY <2>1, <2>2, <2>3, <2>4, <2>5 DEF MCP!Replies!Finish
<1>5. ASSUME NEW r \in MCP!Requests, MCP!Write(r) \/ MCP!Wait(r) \/ MCP!Lapse(r)
      PROVE  UNCHANGED MCP!Replies!vars
  <2>1. inbox' = inbox
    BY <1>5 DEF MCP!Write, MCP!Wait, MCP!Lapse
  <2>2. \A s \in MCP!Requests : (at'[s] = "new" <=> at[s] = "new") /\ (at'[s] = "done" <=> at[s] = "done")
    BY <1>1, <1>5 DEF MCP!Write, MCP!Wait, MCP!Lapse, MCP!Goto, MCP!TypeOK
  <2>3. \A s \in MCP!Requests : at[s] = "done" => result'[s] = result[s]
    BY <1>1, <1>5 DEF MCP!Write, MCP!Wait, MCP!Lapse, MCP!TypeOK
  <2> QED
    BY <2>1, <2>2, <2>3 DEF MCP!Replies!vars
<1>6. CASE MCP!Delivered \/ MCP!ServerDies
  BY <1>6 DEF MCP!Delivered, MCP!ServerDies, MCP!Replies!vars
<1>7. CASE UNCHANGED mcpVars
  BY <1>7 DEF mcpVars, MCP!Replies!vars
<1> QED
  BY <1>2, <1>3, <1>4, <1>5, <1>6, <1>7 DEF MCP!Next, MCP!Replies!Next

(* For any number of requests, pages and calls, a request takes at most    *)
(* one reply, and before it returns: the one reader never blocks (deliver).*)
THEOREM ClientRepliesOnce == Spec => RepliesOnce
<1>1. Init => MCP!Replies!Init
  BY MCPRepliesInit
<1>2. MCPInv /\ [Next]_vars => [MCP!Replies!Next]_(MCP!Replies!vars)
  BY MCPRepliesStep
<1> QED
  BY <1>1, <1>2, MCPInvariance, PTL DEF Spec, RepliesOnce, MCP!RepliesOnce, MCP!Replies!Spec

-----------------------------------------------------------------------------
(* The intake of plans                                                     *)

Stored(t) == \A d \in Intake!DependsOn(t) : <<t, d>> \in stored

(* A plan's tasks are new until it creates them; all its dependencies are  *)
(* stored, or about to be, before it queues one.                           *)
StageInv ==
  \A p \in Plans :
    /\ stage[p] = "asked" => next[p] = 1
    /\ stage[p] \in {"asked", "create"} => \A n \in Intake!Positions : n >= next[p] => taskStatus[<<p, n>>] = "none"
    /\ stage[p] = "depend" =>
         \A n \in Intake!Positions : \A d \in Intake!DependsOn(<<p, n>>) :
           <<<<p, n>>, d>> \in stored \cup toStore[p]
    /\ stage[p] \in {"validate", "planned"} => \A n \in Intake!Positions : Stored(<<p, n>>)

(* A task that is READY, or was when the claim in progress listed it, had  *)
(* its dependencies stored by then, unless the user retried it early; and  *)
(* DONE stays DONE.  So what the claim read apart still fits.              *)
IntakeInv ==
  /\ Intake!TypeOK
  /\ StageInv
  /\ \A t \in Intake!PlanTasks \ early :
       /\ taskStatus[t] \in {"READY", "IN_PROGRESS", "DONE"} \/ seen[t] = "READY" => Stored(t)
       /\ t \in candidates => \A d \in Intake!DependsOn(t) : taskStatus[d] = "DONE"
       /\ taskStatus[t] \in {"IN_PROGRESS", "DONE"} => \A d \in Intake!DependsOn(t) : taskStatus[d] = "DONE"
  /\ \A t \in Intake!PlanTasks : seen[t] = "DONE" => taskStatus[t] = "DONE"

LEMMA DependsOnTasks ==
  ASSUME NEW t \in Intake!PlanTasks
  PROVE  Intake!DependsOn(t) \subseteq Intake!PlanTasks
<1>1. t[1] \in Plans
  BY DEF Intake!PlanTasks
<1>2. ASSUME NEW d \in Intake!DependsOn(t) PROVE d \in Intake!PlanTasks
  <2>1. PICK j \in Intake!Positions : d = <<t[1], j>>
    BY DEF Intake!DependsOn
  <2> QED
    BY <1>1, <2>1 DEF Intake!PlanTasks
<1> QED
  BY <1>2

LEMMA IntakeInit == Init => IntakeInv
<1> SUFFICES ASSUME Init PROVE IntakeInv
  OBVIOUS
<1>1. Intake!Init
  BY DEF Init
<1>2. Intake!TypeOK
  BY <1>1, IntakeAssumption DEF Intake!Init, Intake!TypeOK, Intake!Stages, Intake!Unread, Intake!Status
<1>3. StageInv
  BY <1>1 DEF Intake!Init, StageInv, Intake!PlanTasks
<1> QED
  BY <1>1, <1>2, <1>3 DEF Intake!Init, IntakeInv, Intake!Unread

(* A step outside a claim that starts no task, and makes READY only a task *)
(* whose dependencies are stored or that is retried early.                 *)
LEMMA IntakeFrame ==
  ASSUME IntakeInv, Intake!TypeOK', StageInv', UNCHANGED <<seen, candidates>>,
         stored \subseteq stored', early \subseteq early',
         \A t \in Intake!PlanTasks :
           /\ taskStatus[t] = "DONE" => taskStatus'[t] = "DONE"
           /\ taskStatus'[t] \in {"IN_PROGRESS", "DONE"} => taskStatus[t] \in {"IN_PROGRESS", "DONE"}
           /\ taskStatus'[t] = "READY" => taskStatus[t] = "READY" \/ t \in early' \/ Stored(t)'
  PROVE  IntakeInv'
<1>1. \A t \in Intake!PlanTasks : Stored(t) => Stored(t)'
  BY DEF Stored, Intake!DependsOn
<1>2. ASSUME NEW t \in Intake!PlanTasks \ early'
      PROVE  /\ taskStatus'[t] \in {"READY", "IN_PROGRESS", "DONE"} \/ seen'[t] = "READY" => Stored(t)'
             /\ t \in candidates' => \A d \in Intake!DependsOn(t) : taskStatus'[d] = "DONE"
             /\ taskStatus'[t] \in {"IN_PROGRESS", "DONE"} => \A d \in Intake!DependsOn(t) : taskStatus'[d] = "DONE"
  <2>1. t \in Intake!PlanTasks \ early
    OBVIOUS
  <2> QED
    BY <1>1, <2>1, DependsOnTasks DEF IntakeInv
<1>3. \A t \in Intake!PlanTasks : Intake!DependsOn(t)' = Intake!DependsOn(t)
  BY DEF Intake!DependsOn
<1> QED
  BY <1>2, <1>3 DEF IntakeInv

(* PlanProject, step by step.                                              *)
LEMMA PlanningStep ==
  ASSUME IntakeInv, NEW p \in Plans,
         \/ Intake!ReplanProject(p) \/ Intake!CreateTask(p) \/ Intake!AllCreated(p)
         \/ Intake!CreateTaskDependency(p) \/ Intake!Validating(p) \/ Intake!ValidateTask(p)
         \/ Intake!AllValidated(p) \/ Intake!Stop(p)
  PROVE  IntakeInv'
<1> USE DEF Stored
<1>1. Intake!TypeOK /\ StageInv /\ Size \in Nat
  BY IntakeAssumption DEF IntakeInv
<1>2. ASSUME NEW q \in Plans, NEW n \in Intake!Positions PROVE <<q, n>> \in Intake!PlanTasks
  BY DEF Intake!PlanTasks
<1>3. CASE Intake!ReplanProject(p) \/ Intake!Validating(p) \/ Intake!AllValidated(p) \/ Intake!Stop(p)
  <2>1. UNCHANGED <<taskStatus, stored, seen, candidates, early, toStore>>
    BY <1>3 DEF Intake!ReplanProject, Intake!Validating, Intake!AllValidated, Intake!Stop
  <2>2. Intake!TypeOK'
    BY <1>1, <1>3 DEF Intake!ReplanProject, Intake!Validating, Intake!AllValidated, Intake!Stop,
      Intake!TypeOK, Intake!Stages
  <2>3. StageInv'
    BY <1>1, <1>3 DEF Intake!ReplanProject, Intake!Validating, Intake!AllValidated, Intake!Stop,
      Intake!TypeOK, StageInv, Intake!AllStored
  <2> QED
    BY <2>1, <2>2, <2>3, IntakeFrame
<1>4. CASE Intake!CreateTask(p)
  <2>1. next[p] \in Intake!Positions
    BY <1>1, <1>4 DEF Intake!CreateTask, Intake!TypeOK, Intake!Positions
  <2>2. taskStatus[<<p, next[p]>>] = "none" /\ <<p, next[p]>> \in Intake!PlanTasks
    BY <1>1, <1>2, <1>4, <2>1 DEF Intake!CreateTask, StageInv, Intake!Positions
  <2>3. /\ taskStatus' = [taskStatus EXCEPT ![<<p, next[p]>>] = "DRAFT"]
        /\ next' = [next EXCEPT ![p] = next[p] + 1]
        /\ UNCHANGED <<stage, toStore, stored, seen, candidates, early>>
    BY <1>4 DEF Intake!CreateTask
  <2>4. Intake!TypeOK'
    BY <1>1, <2>1, <2>2, <2>3 DEF Intake!TypeOK, Intake!Status, Intake!Positions
  <2>5. \A q \in Plans : \A n \in Intake!Positions :
          n >= next'[q] => n >= next[q] /\ <<q, n>> # <<p, next[p]>>
    BY <1>1, <2>1, <2>3 DEF Intake!TypeOK, Intake!Positions
  <2>6. \A t \in Intake!PlanTasks : t # <<p, next[p]>> => taskStatus'[t] = taskStatus[t]
    BY <1>1, <2>3 DEF Intake!TypeOK
  <2>7. StageInv'
    <3>1. ASSUME NEW q \in Plans, stage[q] \in {"asked", "create"}, NEW n \in Intake!Positions, n >= next'[q]
          PROVE  taskStatus'[<<q, n>>] = "none"
      BY <1>1, <1>2, <2>5, <2>6, <3>1 DEF StageInv
    <3>2. ASSUME NEW q \in Plans, stage[q] = "asked" PROVE next'[q] = 1
      BY <1>1, <1>4, <2>3, <3>2 DEF StageInv, Intake!CreateTask, Intake!TypeOK
    <3> QED
      BY <1>1, <2>3, <3>1, <3>2 DEF StageInv, Intake!DependsOn
  <2> QED
    BY <1>1, <2>2, <2>3, <2>4, <2>6, <2>7, IntakeFrame DEF Intake!TypeOK
<1>5. CASE Intake!AllCreated(p)
  <2>1. \A n \in Intake!Positions : \A d \in Intake!DependsOn(<<p, n>>) : <<<<p, n>>, d>> \in Intake!PlannedEdges(p)
    BY DEF Intake!PlannedEdges
  <2>2. Intake!PlannedEdges(p) \subseteq Intake!PlanTasks \X Intake!PlanTasks
    <3>1. ASSUME NEW t \in {p} \X Intake!Positions PROVE {t} \X Intake!DependsOn(t) \subseteq Intake!PlanTasks \X Intake!PlanTasks
      <4>1. t \in Intake!PlanTasks
        BY DEF Intake!PlanTasks
      <4> QED
        BY <4>1, DependsOnTasks
    <3> QED
      BY <3>1 DEF Intake!PlannedEdges
  <2>3. /\ stage' = [stage EXCEPT ![p] = "depend"] /\ toStore' = [toStore EXCEPT ![p] = Intake!PlannedEdges(p)]
        /\ UNCHANGED <<next, taskStatus, stored, seen, candidates, early>>
    BY <1>5 DEF Intake!AllCreated
  <2>4. Intake!TypeOK'
    BY <1>1, <2>2, <2>3 DEF Intake!TypeOK, Intake!Stages
  <2>5. StageInv'
    BY <1>1, <2>1, <2>3 DEF StageInv, Intake!TypeOK
  <2> QED
    BY <2>3, <2>4, <2>5, IntakeFrame
<1>6. CASE Intake!CreateTaskDependency(p)
  <2>1. PICK e \in toStore[p] : stored' = stored \cup {e} /\ toStore' = [toStore EXCEPT ![p] = toStore[p] \ {e}]
    BY <1>6 DEF Intake!CreateTaskDependency
  <2>2. UNCHANGED <<stage, next, taskStatus, seen, candidates, early>>
    BY <1>6 DEF Intake!CreateTaskDependency
  <2>3. toStore[p] \in SUBSET (Intake!PlanTasks \X Intake!PlanTasks)
    BY <1>1 DEF Intake!TypeOK
  <2>4. Intake!TypeOK'
    BY <1>1, <2>1, <2>2, <2>3 DEF Intake!TypeOK
  <2>5. \A q \in Plans : stored \cup toStore[q] \subseteq stored' \cup toStore'[q]
    BY <1>1, <2>1 DEF Intake!TypeOK
  <2>6. StageInv'
    BY <1>1, <2>1, <2>2, <2>5 DEF StageInv
  <2> QED
    BY <2>1, <2>2, <2>4, <2>6, IntakeFrame
<1>7. CASE Intake!ValidateTask(p)
  <2>1. next[p] \in Intake!Positions
    BY <1>1, <1>7 DEF Intake!ValidateTask, Intake!TypeOK, Intake!Positions
  <2>2. PICK t \in Intake!PlanTasks : t = <<p, next[p]>>
    BY <1>2, <2>1
  <2>3. Stored(t)
    BY <1>1, <1>7, <2>2, <2>1 DEF Intake!ValidateTask, StageInv
  <2>4. PICK to \in {"READY", "BLOCKED"} : Intake!CanTransition(taskStatus[t], to) /\ taskStatus' = [taskStatus EXCEPT ![t] = to]
    BY <1>7, <2>2 DEF Intake!ValidateTask, Intake!Transition
  <2>5. taskStatus[t] \notin {"DONE", "none"}
    BY <2>4 DEF Intake!CanTransition, Intake!Transitions
  <2>6. /\ next' = [next EXCEPT ![p] = next[p] + 1]
        /\ UNCHANGED <<stage, toStore, stored, seen, candidates, early>>
    BY <1>7 DEF Intake!ValidateTask
  <2>7. Intake!TypeOK'
    BY <1>1, <2>1, <2>4, <2>6 DEF Intake!TypeOK, Intake!Status, Intake!Positions
  <2>8. \A u \in Intake!PlanTasks : u # t => taskStatus'[u] = taskStatus[u]
    BY <1>1, <2>4 DEF Intake!TypeOK
  <2>9. StageInv'
    <3>1. ASSUME NEW q \in Plans, stage[q] \in {"asked", "create"} PROVE q # p
      BY <1>7, <3>1 DEF Intake!ValidateTask
    <3>2. ASSUME NEW q \in Plans, stage[q] \in {"asked", "create"}, NEW n \in Intake!Positions, n >= next'[q]
          PROVE  taskStatus'[<<q, n>>] = "none"
      BY <1>1, <1>2, <2>2, <2>6, <2>8, <3>1, <3>2 DEF StageInv, Intake!TypeOK
    <3> QED
      BY <1>1, <2>6, <3>1, <3>2 DEF StageInv, Intake!TypeOK, Intake!DependsOn
  <2>10. Stored(t)'
    BY <2>3, <2>6 DEF Intake!DependsOn
  <2>11. taskStatus'[t] = to
    BY <1>1, <2>4 DEF Intake!TypeOK
  <2> QED
    BY <2>4, <2>5, <2>6, <2>7, <2>8, <2>9, <2>10, <2>11, IntakeFrame
<1> QED
  BY <1>3, <1>4, <1>5, <1>6, <1>7

(* The run and the user.                                                   *)
LEMMA RunStep ==
  ASSUME IntakeInv, NEW t \in Intake!PlanTasks,
         Intake!Finish(t) \/ Intake!BlockWaiting(t) \/ Intake!RetryTask(t)
  PROVE  IntakeInv'
<1>1. Intake!TypeOK /\ StageInv
  BY DEF IntakeInv
<1>2. UNCHANGED <<stage, next, toStore, stored, seen, candidates>>
  BY DEF Intake!Finish, Intake!BlockWaiting, Intake!RetryTask
<1>3. PICK to \in Intake!Status :
        /\ taskStatus' = [taskStatus EXCEPT ![t] = to]
        /\ taskStatus[t] \notin {"none", "DONE"}
        /\ to = "DONE" => taskStatus[t] = "IN_PROGRESS"
        /\ to # "IN_PROGRESS"
        /\ to = "READY" => Intake!RetryTask(t)
  BY DEF Intake!Finish, Intake!BlockWaiting, Intake!RetryTask, Intake!Retryable, Intake!Status
<1>4. early \subseteq early' /\ early' \subseteq early \cup {t}
  BY DEF Intake!Finish, Intake!BlockWaiting, Intake!RetryTask
<1>5. Intake!RetryTask(t) => t \in early' \/ Stored(t)
  BY DEF Intake!RetryTask, Stored
<1>6. Intake!TypeOK'
  BY <1>1, <1>2, <1>3, <1>4 DEF Intake!TypeOK
<1>7. \A u \in Intake!PlanTasks : u # t => taskStatus'[u] = taskStatus[u]
  BY <1>1, <1>3 DEF Intake!TypeOK
<1>8. StageInv'
  <2>1. ASSUME NEW q \in Plans, NEW n \in Intake!Positions, taskStatus[<<q, n>>] = "none"
        PROVE  taskStatus'[<<q, n>>] = "none"
    BY <1>3, <1>7, <2>1 DEF Intake!PlanTasks
  <2> QED
    BY <1>1, <1>2, <2>1 DEF StageInv, Stored, Intake!DependsOn
<1>9. Stored(t) => Stored(t)'
  BY <1>2 DEF Stored, Intake!DependsOn
<1>10. taskStatus'[t] = to
  BY <1>1, <1>3 DEF Intake!TypeOK
<1> QED
  BY <1>2, <1>3, <1>4, <1>5, <1>6, <1>7, <1>8, <1>9, <1>10, IntakeFrame

(* A claim lists the tasks, then the dependencies, then claims.            *)
LEMMA ClaimStep ==
  ASSUME IntakeInv, Intake!ListTasks \/ Intake!ListTaskDependencies \/ Intake!ClaimTasks
  PROVE  IntakeInv'
<1>1. Intake!TypeOK /\ StageInv
  BY DEF IntakeInv
<1>2. UNCHANGED <<stage, next, toStore, stored, early>>
  BY DEF Intake!ListTasks, Intake!ListTaskDependencies, Intake!ClaimTasks
<1>3. \A t \in Intake!PlanTasks : Stored(t)' = Stored(t) /\ Intake!DependsOn(t)' = Intake!DependsOn(t)
  BY <1>2 DEF Stored, Intake!DependsOn
<1>4. CASE Intake!ListTasks
  <2>1. /\ seen' = [t \in Intake!PlanTasks |-> IF taskStatus[t] \in {"READY", "DONE"} THEN taskStatus[t] ELSE "other"]
        /\ candidates = {} /\ UNCHANGED <<taskStatus, candidates>>
    BY <1>4 DEF Intake!ListTasks
  <2>2. \A t \in Intake!PlanTasks :
          /\ seen'[t] \in {"READY", "DONE", "other", "unread"}
          /\ seen'[t] \in {"READY", "DONE"} => taskStatus[t] = seen'[t]
    BY <2>1
  <2>3. seen' \in [Intake!PlanTasks -> {"READY", "DONE", "other", "unread"}]
    BY <2>1
  <2>4. Intake!TypeOK' /\ StageInv'
    BY <1>1, <1>2, <1>3, <2>1, <2>3 DEF Intake!TypeOK, StageInv, Intake!PlanTasks
  <2> QED
    BY <1>2, <1>3, <2>1, <2>2, <2>4 DEF IntakeInv
<1>5. CASE Intake!ListTaskDependencies
  <2>1. /\ candidates' = {t \in Intake!PlanTasks : seen[t] = "READY" /\ Intake!dependenciesDone(t)}
        /\ seen' = Intake!Unread /\ taskStatus' = taskStatus
    BY <1>5 DEF Intake!ListTaskDependencies
  <2>2. Intake!TypeOK' /\ StageInv'
    BY <1>1, <1>2, <1>3, <2>1 DEF Intake!TypeOK, StageInv, Intake!PlanTasks, Intake!Unread
  <2>3. ASSUME NEW t \in Intake!PlanTasks \ early, t \in candidates', NEW d \in Intake!DependsOn(t)
        PROVE  taskStatus[d] = "DONE"
    <3>1. seen[t] = "READY" /\ Intake!dependenciesDone(t)
      BY <2>1, <2>3
    <3>2. <<t, d>> \in stored
      BY <2>3, <3>1 DEF IntakeInv, Stored
    <3>3. d \in Intake!PlanTasks
      BY DependsOnTasks
    <3> QED
      BY <3>1, <3>2, <3>3 DEF IntakeInv, Intake!dependenciesDone
  <2>4. \A t \in Intake!PlanTasks : seen'[t] = "unread"
    BY <2>1 DEF Intake!Unread
  <2> QED
    BY <1>2, <1>3, <2>1, <2>2, <2>3, <2>4 DEF IntakeInv
<1>6. CASE Intake!ClaimTasks
  <2>1. /\ taskStatus' = [t \in Intake!PlanTasks |->
              IF t \in candidates /\ taskStatus[t] = "READY" THEN "IN_PROGRESS" ELSE taskStatus[t]]
        /\ candidates' = {} /\ seen' = seen
    BY <1>6 DEF Intake!ClaimTasks
  <2>2. \A t \in Intake!PlanTasks :
          \/ taskStatus'[t] = taskStatus[t]
          \/ t \in candidates /\ taskStatus[t] = "READY" /\ taskStatus'[t] = "IN_PROGRESS"
    BY <2>1
  <2>3. taskStatus' \in [Intake!PlanTasks -> Intake!Status \cup {"none"}]
    BY <1>1, <2>1 DEF Intake!TypeOK, Intake!Status
  <2>4. StageInv'
    <3>1. \A q \in Plans : \A n \in Intake!Positions :
            taskStatus[<<q, n>>] = "none" => taskStatus'[<<q, n>>] = "none"
      BY <2>2 DEF Intake!PlanTasks
    <3> QED
      BY <1>1, <1>2, <1>3, <3>1 DEF StageInv, Intake!PlanTasks
  <2>5. Intake!TypeOK'
    BY <1>1, <1>2, <2>1, <2>3 DEF Intake!TypeOK
  <2> QED
    BY <1>2, <1>3, <2>1, <2>2, <2>4, <2>5, DependsOnTasks DEF IntakeInv
<1> QED
  BY <1>4, <1>5, <1>6

LEMMA IntakeNext == IntakeInv /\ (Intake!Next \/ UNCHANGED intakeVars) => IntakeInv'
<1>1. ASSUME IntakeInv, UNCHANGED intakeVars PROVE IntakeInv'
  <2>1. Intake!TypeOK'
    BY <1>1 DEF intakeVars, IntakeInv, Intake!TypeOK
  <2>2. \A p \in Plans, n \in Intake!Positions :
          /\ Stored(<<p, n>>)' = Stored(<<p, n>>)
          /\ Intake!DependsOn(<<p, n>>)' = Intake!DependsOn(<<p, n>>)
    BY <1>1 DEF intakeVars, Stored, Intake!DependsOn
  <2>3. StageInv'
    BY <1>1, <2>2 DEF intakeVars, IntakeInv, StageInv
  <2> QED
    BY <1>1, <2>1, <2>3, IntakeFrame DEF intakeVars
<1> QED
  BY <1>1, PlanningStep, RunStep, ClaimStep DEF Intake!Next

LEMMA IntakeInvariance == Spec => []IntakeInv
<1>1. IntakeInv /\ [Next]_vars => IntakeInv'
  BY StepOfOne, IntakeNext
<1> QED
  BY <1>1, IntakeInit, PTL DEF Spec

(* For any number and shape of plans, made and stored while the project    *)
(* runs, a task starts only when all its plan makes it depend on is DONE,  *)
(* unless the user retried it before that was stored (PlanProject,         *)
(* ClaimNextReadyTasks).                                                   *)
THEOREM StartsWhenDependenciesDone == Spec => []StartsAfterItsDependencies
<1>1. IntakeInv => StartsAfterItsDependencies
  BY DEF IntakeInv, StartsAfterItsDependencies, Intake!StartsAfterItsDependencies
<1> QED
  BY <1>1, IntakeInvariance, PTL

-----------------------------------------------------------------------------
(* The code index                                                          *)

Covered(index) == index.has \cup index.during
ToolEdits == Code!Is({"writing", "written", "finished"})

(* A build covers every tool's edit there was when it began, and remembers *)
(* those that begin meanwhile; so what it leaves in the cache of the tasks *)
(* covers the edits that are finished, until the next one drops it.        *)
IndexInv ==
  /\ Code!TypeOK
  /\ \A k \in IndexKeys :
       entries["tasks"][k] # None => Code!Is({"finished"}) \subseteq Covered(entries["tasks"][k])
  /\ \A c \in IndexCalls : indexCall[c] # None =>
       /\ indexCall[c].at = "building" => ToolEdits \cup indexCall[c].owed \subseteq Covered(indexCall[c].index)
       /\ indexCall[c].cache = "tasks" => indexCall[c].owed \subseteq Covered(indexCall[c].index)

LEMMA IndexInit == Init => IndexInv
<1> SUFFICES ASSUME Init PROVE IndexInv
  OBVIOUS
<1>1. Code!Init
  BY DEF Init
<1> QED
  BY <1>1 DEF Code!Init, IndexInv, Code!TypeOK, Code!Places, Code!Caches, Code!Nothing

(* get                                                                     *)
LEMMA GetStep ==
  ASSUME IndexInv, NEW c \in IndexCalls,
         \/ \E cache \in Code!Caches, key \in IndexKeys : Code!Hit(c, cache, key) \/ Code!Miss(c, cache, key)
         \/ Code!Build(c) \/ Code!Insert(c) \/ Code!Return(c)
  PROVE  IndexInv'
<1>1. Code!TypeOK
  BY DEF IndexInv
<1>2. None \notin Code!Index /\ None \notin Code!CallRecord
  BY IndexAssumption
<1>3. edit' = edit /\ ToolEdits' = ToolEdits /\ Code!Is({"finished"})' = Code!Is({"finished"})
  BY DEF Code!Hit, Code!Miss, Code!Build, Code!Insert, Code!Return, ToolEdits, Code!Is
<1>4. ASSUME NEW new \in Code!CallRecord \cup {None}, indexCall' = [indexCall EXCEPT ![c] = new],
             UNCHANGED <<entries, disk>>,
             new # None =>
               /\ new.at = "building" => ToolEdits \cup new.owed \subseteq Covered(new.index)
               /\ new.cache = "tasks" => new.owed \subseteq Covered(new.index)
      PROVE  IndexInv'
  <2>1. Code!TypeOK'
    BY <1>1, <1>3, <1>4 DEF Code!TypeOK
  <2>2. \A d \in IndexCalls : indexCall'[d] = IF d = c THEN new ELSE indexCall[d]
    BY <1>1, <1>4 DEF Code!TypeOK
  <2> QED
    BY <1>3, <1>4, <2>1, <2>2 DEF IndexInv
<1>5. Code!Is({"finished"}) \subseteq ToolEdits /\ ToolEdits \subseteq Code!InWorkspace \cup Code!UnderWay
  BY DEF Code!Is, ToolEdits, Code!InWorkspace, Code!UnderWay
<1>6. /\ Code!Is({"finished"}) \subseteq Edits
      /\ [has |-> Code!InWorkspace, during |-> Code!UnderWay] \in Code!Index
  BY DEF Code!Is, Code!InWorkspace, Code!UnderWay, Code!Index
<1>7. ASSUME NEW cache \in Code!Caches, NEW key \in IndexKeys, Code!Hit(c, cache, key) PROVE IndexInv'
  <2>1. entries[cache][key] \in Code!Index
    BY <1>1, <1>7 DEF Code!Hit, Code!TypeOK
  <2> DEFINE new == [cache |-> cache, key |-> key, at |-> "returned",
                     index |-> entries[cache][key], owed |-> Code!Is({"finished"})]
  <2>2. new \in Code!CallRecord
    BY <1>6, <2>1 DEF Code!CallRecord
  <2>3. cache = "tasks" => Code!Is({"finished"}) \subseteq Covered(entries[cache][key])
    BY <1>7 DEF IndexInv, Code!Hit
  <2> QED
    BY <1>4, <1>7, <2>2, <2>3 DEF Code!Hit
<1>8. ASSUME NEW cache \in Code!Caches, NEW key \in IndexKeys, Code!Miss(c, cache, key) PROVE IndexInv'
  <2> DEFINE new == [cache |-> cache, key |-> key, at |-> "building",
                     index |-> [has |-> Code!InWorkspace, during |-> Code!UnderWay], owed |-> Code!Is({"finished"})]
  <2>1. new \in Code!CallRecord
    BY <1>6 DEF Code!CallRecord
  <2>2. Covered(new.index) = Code!InWorkspace \cup Code!UnderWay
    BY DEF Covered
  <2>3. ToolEdits \cup new.owed \subseteq Covered(new.index)
    BY <1>5, <2>2
  <2>4. new.owed \subseteq Covered(new.index)
    BY <2>3
  <2>5. indexCall' = [indexCall EXCEPT ![c] = new] /\ UNCHANGED <<entries, disk>>
    BY <1>8 DEF Code!Miss
  <2> HIDE DEF new
  <2> QED
    BY <1>4, <2>1, <2>3, <2>4, <2>5
<1>9. CASE Code!Build(c)
  <2>1. PICK e \in Edits : indexCall' = [indexCall EXCEPT ![c].index.has = indexCall[c].index.has \cup {e}]
    BY <1>9 DEF Code!Build, Code!InWorkspace, Code!Is
  <2>2. indexCall[c] \in Code!CallRecord /\ UNCHANGED <<entries, disk>>
    BY <1>1, <1>9 DEF Code!Build, Code!TypeOK
  <2> DEFINE new == [indexCall[c] EXCEPT !.index.has = indexCall[c].index.has \cup {e}]
  <2>3. new \in Code!CallRecord
    BY <2>2 DEF Code!CallRecord, Code!Index
  <2>4. new.at = indexCall[c].at /\ new.owed = indexCall[c].owed /\ new.cache = indexCall[c].cache
        /\ Covered(indexCall[c].index) \subseteq Covered(new.index)
    BY <2>2 DEF Code!CallRecord, Code!Index, Covered
  <2>5. indexCall' = [indexCall EXCEPT ![c] = new]
    BY <1>1, <2>1 DEF Code!TypeOK
  <2> HIDE DEF new
  <2> QED
    BY <1>4, <1>9, <2>2, <2>3, <2>4, <2>5 DEF IndexInv, Code!Build
<1>10. CASE Code!Return(c)
  BY <1>4, <1>10 DEF Code!Return
<1>11. CASE Code!Insert(c)
  <2> DEFINE index == indexCall[c].index
             inserted == [entries EXCEPT ![indexCall[c].cache][indexCall[c].key] = index]
  <2>1. indexCall[c] \in Code!CallRecord /\ indexCall[c].at = "building"
    BY <1>1, <1>11 DEF Code!Insert, Code!TypeOK
  <2>2. ToolEdits \cup indexCall[c].owed \subseteq Covered(index)
    BY <1>2, <2>1 DEF IndexInv
  <2>3. indexCall[c].cache \in Code!Caches /\ indexCall[c].key \in IndexKeys /\ index \in Code!Index
    BY <2>1 DEF Code!CallRecord
  <2>4. entries' = inserted /\ disk' \in {inserted[indexCall[c].cache], disk, Code!Nothing}
        /\ indexCall' = [indexCall EXCEPT ![c].at = "returned"]
    BY <1>11 DEF Code!Insert, Code!saveLocked
  <2>5. inserted \in [Code!Caches -> [IndexKeys -> Code!Index \cup {None}]]
    BY <1>1, <2>3 DEF Code!TypeOK
  <2>6. indexCall' \in [IndexCalls -> Code!CallRecord \cup {None}]
    BY <1>1, <2>1, <2>4 DEF Code!TypeOK, Code!CallRecord
  <2>7. disk' \in [IndexKeys -> Code!Index \cup {None}]
    BY <1>1, <2>3, <2>4, <2>5 DEF Code!TypeOK, Code!Nothing
  <2>8. Code!TypeOK'
    BY <1>1, <1>3, <2>4, <2>5, <2>6, <2>7 DEF Code!TypeOK
  <2>9. \A k \in IndexKeys : inserted["tasks"][k] = entries["tasks"][k] \/ inserted["tasks"][k] = index
    BY <1>1, <2>3 DEF Code!TypeOK, Code!Caches
  <2>10. \A d \in IndexCalls : d # c => indexCall'[d] = indexCall[d]
    BY <1>1, <2>4 DEF Code!TypeOK
  <2>11. indexCall'[c].at = "returned" /\ indexCall'[c].owed = indexCall[c].owed /\ indexCall'[c].index = index
    BY <1>1, <2>1, <2>4 DEF Code!TypeOK, Code!CallRecord
  <2> HIDE DEF inserted, index
  <2> QED
    BY <1>3, <1>5, <2>2, <2>4, <2>8, <2>9, <2>10, <2>11 DEF IndexInv
<1> QED
  BY <1>7, <1>8, <1>9, <1>10, <1>11

(* The edits, and a new process.                                           *)
LEMMA EditStep ==
  ASSUME IndexInv,
         \/ \E e \in Edits : Code!Begin(e) \/ Code!WriteFile(e) \/ Code!Invalidate(e) \/ Code!EditByOthers(e)
         \/ Code!Restart
  PROVE  IndexInv'
<1>1. Code!TypeOK
  BY DEF IndexInv
<1>2. None \notin Code!Index /\ None \notin Code!CallRecord
  BY IndexAssumption
<1>3. ASSUME NEW e \in Edits, Code!Begin(e) PROVE IndexInv'
  <2>1. edit[e] = "new" /\ edit' = [edit EXCEPT ![e] = "writing"] /\ UNCHANGED <<entries, disk>>
        /\ indexCall' = Code!Noting(e)
    BY <1>3 DEF Code!Begin
  <2>2. ToolEdits' = ToolEdits \cup {e} /\ Code!Is({"finished"})' = Code!Is({"finished"})
    BY <1>1, <2>1 DEF Code!TypeOK, ToolEdits, Code!Is
  <2>3. ASSUME NEW c \in IndexCalls, indexCall[c] # None, indexCall[c].at = "building"
        PROVE  /\ indexCall'[c] \in Code!CallRecord
               /\ indexCall'[c].owed = indexCall[c].owed /\ indexCall'[c].at = "building"
               /\ Covered(indexCall'[c].index) = Covered(indexCall[c].index) \cup {e}
    <3>1. indexCall'[c] = [indexCall[c] EXCEPT !.index.during = indexCall[c].index.during \cup {e}]
      BY <2>1, <2>3 DEF Code!Noting
    <3>2. indexCall[c] \in Code!CallRecord
      BY <1>1, <2>3 DEF Code!TypeOK
    <3> QED
      BY <2>3, <3>1, <3>2 DEF Code!CallRecord, Code!Index, Covered
  <2>4. \A c \in IndexCalls : ~(indexCall[c] # None /\ indexCall[c].at = "building") => indexCall'[c] = indexCall[c]
    BY <2>1 DEF Code!Noting
  <2>5. Code!TypeOK'
    <3>1. \A c \in IndexCalls : indexCall'[c] \in Code!CallRecord \cup {None}
      BY <1>1, <2>3, <2>4 DEF Code!TypeOK
    <3>2. indexCall' \in [IndexCalls -> Code!CallRecord \cup {None}]
      BY <2>1, <3>1 DEF Code!Noting
    <3> QED
      BY <1>1, <2>1, <3>2 DEF Code!TypeOK, Code!Places
  <2> QED
    BY <2>1, <2>2, <2>3, <2>4, <2>5 DEF IndexInv
<1>4. ASSUME NEW e \in Edits, Code!WriteFile(e) \/ Code!EditByOthers(e) PROVE IndexInv'
  <2>1. UNCHANGED <<entries, disk, indexCall>>
    BY <1>4 DEF Code!WriteFile, Code!EditByOthers
  <2>2. Code!TypeOK'
    BY <1>1, <1>4, <2>1 DEF Code!WriteFile, Code!EditByOthers, Code!TypeOK, Code!Places
  <2>3. ToolEdits' \subseteq ToolEdits /\ Code!Is({"finished"})' = Code!Is({"finished"})
    BY <1>1, <1>4 DEF Code!WriteFile, Code!EditByOthers, Code!TypeOK, ToolEdits, Code!Is
  <2> QED
    BY <2>1, <2>2, <2>3 DEF IndexInv
<1>5. ASSUME NEW e \in Edits, Code!Invalidate(e) PROVE IndexInv'
  <2>1. /\ edit' = [edit EXCEPT ![e] = "finished"] /\ edit[e] = "written"
        /\ entries' = [entries EXCEPT !["tasks"] = Code!Nothing]
        /\ disk' \in {disk, Code!Nothing} /\ indexCall' = indexCall
    BY <1>5 DEF Code!Invalidate, Code!Dropped, Code!saveLocked
  <2>2. Code!TypeOK'
    BY <1>1, <2>1 DEF Code!TypeOK, Code!Places, Code!Nothing, Code!Caches
  <2>3. ToolEdits' = ToolEdits
    BY <1>1, <2>1 DEF Code!TypeOK, ToolEdits, Code!Is
  <2>4. \A k \in IndexKeys : entries'["tasks"][k] = None
    BY <1>1, <2>1 DEF Code!TypeOK, Code!Nothing, Code!Caches
  <2> QED
    BY <2>1, <2>2, <2>3, <2>4 DEF IndexInv
<1>6. CASE Code!Restart
  <2>1. Code!TypeOK'
    BY <1>1, <1>6 DEF Code!Restart, Code!TypeOK, Code!Places
  <2>2. Code!Is({"finished"})' = {}
    BY <1>6 DEF Code!Restart, Code!Is
  <2>3. \A c \in IndexCalls : indexCall'[c] = None
    BY <1>6 DEF Code!Restart
  <2> QED
    BY <2>1, <2>2, <2>3 DEF IndexInv
<1> QED
  BY <1>3, <1>4, <1>5, <1>6

LEMMA IndexNext == IndexInv /\ (Code!Next \/ UNCHANGED indexVars) => IndexInv'
<1>1. IndexInv /\ UNCHANGED indexVars => IndexInv'
  BY DEF indexVars, IndexInv, Code!TypeOK, ToolEdits, Code!Is
<1> QED
  BY <1>1, GetStep, EditStep DEF Code!Next

LEMMA IndexInvariance == Spec => []IndexInv
<1>1. IndexInv /\ [Next]_vars => IndexInv'
  BY StepOfOne, IndexNext
<1> QED
  BY <1>1, IndexInit, PTL DEF Spec

(* For any number of edits, sizes and calls, an index a task gets contains *)
(* what file.write and file.patch had finished when it asked, but for what *)
(* was under way while it was built (get, invalidate).                     *)
THEOREM IndexIsNotStale == Spec => []IndexCoversWrites
<1>1. IndexInv => IndexCoversWrites
  BY DEF IndexInv, IndexCoversWrites, Code!IndexCoversWrites, Covered
<1> QED
  BY <1>1, IndexInvariance, PTL

-----------------------------------------------------------------------------
(* The memories                                                            *)

(* What the temporary file will hold when the save of w is through.        *)
Snapshot(w) == memoryFile[Memory!Tmp] \cup writer[w].todo

(* A writer, as long as no save met another.                               *)
WriterInv(w) ==
  /\ Memory!Saving(w) => writer[w].fd = Memory!Tmp /\ memoryFile[Memory!Tmp] # None
  /\ ~ Memory!Saving(w) => writer[w].fd = "none"
  /\ writer[w].op = "add" => writer[w].of \in known
  /\ writer[w].op = "remove" => writer[w].of \in known \ items
  /\ writer[w].at = "opened" => memoryFile[Memory!Tmp] = {}
  /\ writer[w].at = "writing" =>
       /\ saved \subseteq Snapshot(w) /\ removed \cap Snapshot(w) = {} /\ Snapshot(w) \subseteq known
       /\ writer[w].op = "add" => writer[w].of \in Snapshot(w) \/ writer[w].of \notin items
       /\ writer[w].op = "remove" => writer[w].of \notin Snapshot(w)

(* What is reported saved is in the index and in the file, what is         *)
(* reported removed in neither, and ids are not used again.                *)
SavedInv ==
  /\ saved \subseteq items /\ items \cup removed \subseteq known
  /\ removed \cap items = {}
  /\ memoryFile[Memory!Path] # None =>
       /\ saved \subseteq memoryFile[Memory!Path] /\ removed \cap memoryFile[Memory!Path] = {}
       /\ memoryFile[Memory!Path] \subseteq known
  /\ saved # {} => memoryFile[Memory!Path] # None

(* An open file is there under the name it has.                            *)
OpenFilesExist ==
  \A w \in Writers : writer[w].fd \in Memory!Names => memoryFile[writer[w].fd] # None

(* What a writer reports is about a memory.                                *)
ChangesFit == \A w \in Writers : writer[w].op # "none" => writer[w].of \in Memories

(* As long as no save met another, one writer saves at most, to a file     *)
(* that is its own, a snapshot of the index that is not older than the     *)
(* change it reports.                                                      *)
MemoryInv ==
  /\ Memory!TypeOK
  /\ OpenFilesExist /\ ChangesFit
  /\ ~ crowded =>
       /\ loaded /\ mixed = {}
       /\ SavedInv
       /\ \A v, w \in Writers : Memory!Saving(v) /\ Memory!Saving(w) => v = w
       /\ \A w \in Writers : WriterInv(w)

(* The records of TypeOK.                                                  *)
MemoryRecords ==
  [at : {"idle", "changed", "opened", "writing"}, op : {"none", "add", "remove"},
   of : Memories \cup {None}, fd : Memory!Names \cup {"none", "orphan"}, todo : SUBSET Memories]

LEMMA MemoryInit == Init => MemoryInv
<1> SUFFICES ASSUME Init PROVE MemoryInv
  OBVIOUS
<1>1. Memory!Init
  BY DEF Init
<1>2. Memory!TypeOK
  <2>1. Memory!Idle \in MemoryRecords
    BY DEF Memory!Idle, MemoryRecords
  <2>2. writer \in [Writers -> MemoryRecords]
    BY <1>1, <2>1 DEF Memory!Init
  <2>3. crashes \in 0 .. MaxCrashes
    BY <1>1, MemoryAssumption DEF Memory!Init
  <2> QED
    BY <1>1, <2>2, <2>3 DEF Memory!Init, Memory!TypeOK, MemoryRecords
<1> QED
  BY <1>1, <1>2 DEF Memory!Init, MemoryInv, SavedInv, WriterInv, OpenFilesExist, ChangesFit, Memory!Saving, Memory!Idle,
    Memory!Names, Memory!Path, Memory!Tmp

(* The index changes under its mutex.                                      *)
LEMMA ChangeStep ==
  ASSUME MemoryInv, NEW w \in Writers, NEW m \in Memories, Memory!Add(w, m) \/ Memory!Remove(w, m)
  PROVE  MemoryInv'
<1> USE DEF Memory!Saving
<1>1. Memory!TypeOK
  BY DEF MemoryInv
<1>2. PICK op \in {"add", "remove"} :
        /\ writer' = [writer EXCEPT ![w] = [Memory!Idle EXCEPT !.at = "changed", !.op = op, !.of = m]]
        /\ op = "add" => Memory!Add(w, m)
        /\ op = "remove" => Memory!Remove(w, m)
  BY DEF Memory!Add, Memory!Remove
<1>3. writer'[w] = [at |-> "changed", op |-> op, of |-> m, fd |-> "none", todo |-> {}]
  BY <1>1, <1>2 DEF Memory!TypeOK, Memory!Idle
<1>4. UNCHANGED <<memoryFile, mixed, removed, crowded, loaded, crashes>>
  BY DEF Memory!Add, Memory!Remove
<1>5. /\ known \subseteq known' /\ saved' \subseteq saved
      /\ items' \subseteq items \cup (known' \ known)
  BY DEF Memory!Add, Memory!Remove
<1>6. Memory!TypeOK'
  <2>1. writer' \in [Writers -> MemoryRecords]
    BY <1>1, <1>2 DEF Memory!TypeOK, MemoryRecords, Memory!Idle
  <2>2. items' \in SUBSET Memories /\ known' \cup saved' \subseteq Memories
    BY <1>1 DEF Memory!Add, Memory!Remove, Memory!TypeOK
  <2> QED
    BY <1>1, <1>4, <2>1, <2>2 DEF Memory!TypeOK, MemoryRecords
<1>7. ASSUME ~ crowded'
      PROVE  /\ loaded' /\ mixed' = {}
             /\ SavedInv'
             /\ \A v, u \in Writers : Memory!Saving(v)' /\ Memory!Saving(u)' => v = u
             /\ \A v \in Writers : WriterInv(v)'
  <2>1. ~ crowded
    BY <1>4, <1>7
  <2>2. \A v \in Writers : v # w => writer'[v] = writer[v]
    BY <1>1, <1>2 DEF Memory!TypeOK
  <2>3. SavedInv'
    <3>1. SavedInv
      BY <2>1 DEF MemoryInv
    <3>2. CASE Memory!Add(w, m)
      BY <1>4, <3>1, <3>2 DEF SavedInv, Memory!Add
    <3>3. CASE Memory!Remove(w, m)
      BY <1>4, <3>1, <3>3 DEF SavedInv, Memory!Remove
    <3> QED
      BY <3>2, <3>3
  <2>4. WriterInv(w)'
    <3>1. op = "add" => m \in known'
      BY <1>2 DEF Memory!Add
    <3>2. op = "remove" => m \in known' \ items'
      BY <1>2, <2>1 DEF Memory!Remove, MemoryInv, SavedInv
    <3> QED
      BY <1>3, <3>1, <3>2 DEF WriterInv
  <2>5. ASSUME NEW v \in Writers, v # w PROVE WriterInv(v)'
    <3>1. WriterInv(v) /\ writer'[v] = writer[v]
      BY <2>1, <2>2, <2>5 DEF MemoryInv
    <3>2. Snapshot(v)' = Snapshot(v)
      BY <1>4, <3>1 DEF Snapshot
    <3> QED
      BY <1>4, <1>5, <3>1, <3>2 DEF WriterInv
  <2> QED
    BY <1>3, <1>4, <2>1, <2>2, <2>3, <2>4, <2>5 DEF MemoryInv
<1>8. OpenFilesExist'
  <2>1. \A v \in Writers : v # w => writer'[v] = writer[v]
    BY <1>1, <1>2 DEF Memory!TypeOK
  <2> QED
    BY <1>3, <1>4, <2>1 DEF MemoryInv, OpenFilesExist, Memory!Names, Memory!Path, Memory!Tmp
<1>9. ChangesFit'
  BY <1>1, <1>2, <1>3 DEF MemoryInv, ChangesFit, Memory!TypeOK
<1> QED
  BY <1>6, <1>7, <1>8, <1>9 DEF MemoryInv

(* SaveJSONL, until it ends: only the writer and the temporary file change.*)
LEMMA SaveStep ==
  ASSUME MemoryInv, NEW w \in Writers,
         Memory!Open(w) \/ Memory!Items(w) \/ Memory!Encode(w)
  PROVE  MemoryInv'
<1> USE DEF Memory!Saving, Memory!SaveTo
<1>1. Memory!TypeOK /\ writer \in [Writers -> MemoryRecords]
  BY DEF MemoryInv, Memory!TypeOK, MemoryRecords
<1>2. UNCHANGED <<items, known, saved, removed, loaded, crashes>>
  BY DEF Memory!Open, Memory!Items, Memory!Encode
<1>3. ASSUME ~ crowded, Memory!Items(w) \/ Memory!Encode(w)
      PROVE  writer[w].fd = Memory!Tmp /\ memoryFile[Memory!Tmp] # None
  BY <1>3 DEF MemoryInv, WriterInv, Memory!Items, Memory!Encode
<1>4. Memory!Tmp \in Memory!Names /\ Memory!Path \in Memory!Names /\ Memory!Tmp # Memory!Path
  BY DEF Memory!Names, Memory!Tmp, Memory!Path
<1>5. CASE Memory!Open(w)
  <2>1. /\ memoryFile' = [memoryFile EXCEPT ![Memory!Tmp] = {}]
        /\ writer' = [writer EXCEPT ![w].at = "opened", ![w].fd = Memory!Tmp]
        /\ writer[w].at = "changed"
        /\ crowded' = (crowded \/ \E v \in Writers : Memory!Saving(v))
        /\ mixed' = IF \E v \in Writers : writer[v].fd = Memory!Tmp
                    THEN mixed \cup {Memory!Tmp} ELSE mixed \ {Memory!Tmp}
    BY <1>5 DEF Memory!Open
  <2>2. memoryFile'[Memory!Tmp] = {} /\ memoryFile'[Memory!Path] = memoryFile[Memory!Path]
    BY <1>1, <1>4, <2>1 DEF Memory!TypeOK
  <2>3. writer'[w] = [writer[w] EXCEPT !.at = "opened", !.fd = Memory!Tmp]
        /\ \A v \in Writers : v # w => writer'[v] = writer[v]
    BY <1>1, <2>1
  <2>4. Memory!TypeOK'
    <3>1. memoryFile' \in [Memory!Names -> (SUBSET Memories) \cup {None}]
      BY <1>1, <2>1 DEF Memory!TypeOK
    <3>2. writer' \in [Writers -> MemoryRecords]
      <4> DEFINE new == [writer[w] EXCEPT !.at = "opened", !.fd = Memory!Tmp]
      <4>1. new \in MemoryRecords
        BY <1>1, <1>4 DEF MemoryRecords
      <4>2. writer' = [writer EXCEPT ![w] = new]
        BY <1>1, <2>1
      <4> QED
        BY <1>1, <4>1, <4>2
    <3>3. mixed' \subseteq Memory!Names /\ crowded' \in BOOLEAN
      BY <1>1, <1>4, <2>1 DEF Memory!TypeOK
    <3> QED
      BY <1>1, <1>2, <3>1, <3>2, <3>3 DEF Memory!TypeOK, MemoryRecords
  <2>5. ASSUME ~ crowded'
        PROVE  /\ loaded' /\ mixed' = {} /\ SavedInv'
               /\ \A v, u \in Writers : Memory!Saving(v)' /\ Memory!Saving(u)' => v = u
               /\ \A v \in Writers : WriterInv(v)'
    <3>1. ~ crowded /\ \A v \in Writers : ~ Memory!Saving(v) /\ writer[v].fd # Memory!Tmp
      BY <2>1, <2>5 DEF MemoryInv, WriterInv, Memory!Tmp
    <3>2. mixed' = {} /\ loaded'
      BY <1>2, <2>1, <3>1 DEF MemoryInv
    <3>3. SavedInv'
      BY <1>2, <2>2, <3>1 DEF MemoryInv, SavedInv
    <3>4. WriterInv(w)'
      <4>1. WriterInv(w) /\ writer[w] \in MemoryRecords
        BY <1>1, <3>1 DEF MemoryInv
      <4>2. writer'[w].at = "opened" /\ writer'[w].fd = Memory!Tmp /\ writer'[w].op = writer[w].op
            /\ writer'[w].of = writer[w].of
        BY <2>3, <4>1 DEF MemoryRecords
      <4> QED
        BY <1>2, <2>2, <4>1, <4>2, MemoryAssumption DEF WriterInv
    <3>5. ASSUME NEW v \in Writers, v # w PROVE WriterInv(v)'
      BY <1>2, <2>3, <3>1, <3>5 DEF MemoryInv, WriterInv
    <3> QED
      BY <2>3, <3>1, <3>2, <3>3, <3>4, <3>5
  <2>6. OpenFilesExist'
    <3>1. writer'[w].fd = Memory!Tmp
      BY <1>1, <2>3 DEF MemoryRecords
    <3>2. \A v \in Writers : v # w /\ writer[v].fd \in Memory!Names => memoryFile'[writer[v].fd] # None
      BY <2>2, MemoryAssumption DEF MemoryInv, OpenFilesExist, Memory!Names
    <3> QED
      BY <2>2, <2>3, <3>1, <3>2, MemoryAssumption DEF OpenFilesExist
  <2>7. ChangesFit'
    <3>1. writer'[w].op = writer[w].op /\ writer'[w].of = writer[w].of
      BY <1>1, <2>3 DEF MemoryRecords
    <3> QED
      BY <2>3, <3>1 DEF MemoryInv, ChangesFit
  <2> QED
    BY <2>4, <2>5, <2>6, <2>7 DEF MemoryInv
<1>6. CASE Memory!Items(w)
  <2>1. /\ writer' = [writer EXCEPT ![w].at = "writing", ![w].todo = items] /\ writer[w].at = "opened"
        /\ UNCHANGED <<memoryFile, mixed, crowded>>
    BY <1>6 DEF Memory!Items
  <2>2. writer'[w] = [writer[w] EXCEPT !.at = "writing", !.todo = items]
        /\ \A v \in Writers : v # w => writer'[v] = writer[v]
    BY <1>1, <2>1
  <2>3. writer' \in [Writers -> MemoryRecords]
    <3> DEFINE new == [writer[w] EXCEPT !.at = "writing", !.todo = items]
    <3>1. new \in MemoryRecords
      BY <1>1 DEF MemoryRecords, Memory!TypeOK
    <3>2. writer' = [writer EXCEPT ![w] = new]
      BY <1>1, <2>1
    <3> QED
      BY <1>1, <3>1, <3>2
  <2>4. Memory!TypeOK'
    BY <1>1, <1>2, <2>1, <2>3 DEF Memory!TypeOK, MemoryRecords
  <2>5. ASSUME ~ crowded'
        PROVE  /\ SavedInv' /\ \A v, u \in Writers : Memory!Saving(v)' /\ Memory!Saving(u)' => v = u
               /\ \A v \in Writers : WriterInv(v)'
    <3>1. ~ crowded
      BY <2>1, <2>5
    <3>2. /\ writer[w] \in MemoryRecords /\ writer'[w].at = "writing" /\ writer'[w].fd = writer[w].fd
          /\ writer'[w].op = writer[w].op /\ writer'[w].of = writer[w].of /\ writer'[w].todo = items
      BY <1>1, <2>2 DEF MemoryRecords
    <3>3. WriterInv(w) /\ SavedInv
      BY <3>1 DEF MemoryInv
    <3>4. Snapshot(w)' = items
      BY <2>1, <3>2, <3>3 DEF Snapshot, WriterInv
    <3>5. WriterInv(w)'
      BY <1>2, <2>1, <3>2, <3>3, <3>4 DEF WriterInv, SavedInv
    <3>6. ASSUME NEW v \in Writers, v # w PROVE WriterInv(v)'
      <4>1. WriterInv(v) /\ writer'[v] = writer[v]
        BY <2>2, <3>1, <3>6 DEF MemoryInv
      <4>2. Snapshot(v)' = Snapshot(v) /\ UNCHANGED <<memoryFile, items, known, saved, removed>>
        BY <1>2, <2>1, <4>1 DEF Snapshot
      <4> QED
        BY ONLY <4>1, <4>2 DEF WriterInv, Memory!Saving
    <3>7. \A v \in Writers : Memory!Saving(v)' <=> Memory!Saving(v)
      BY <2>1, <2>2, <3>2
    <3> QED
      BY <1>2, <2>1, <3>1, <3>3, <3>5, <3>6, <3>7 DEF MemoryInv, SavedInv
  <2>6. OpenFilesExist'
    BY <1>1, <2>1, <2>2 DEF MemoryInv, OpenFilesExist, MemoryRecords
  <2>7. ChangesFit'
    <3>1. writer'[w].op = writer[w].op /\ writer'[w].of = writer[w].of
      BY <1>1, <2>2 DEF MemoryRecords
    <3> QED
      BY <2>2, <3>1 DEF MemoryInv, ChangesFit
  <2> QED
    BY <1>2, <2>1, <2>4, <2>5, <2>6, <2>7 DEF MemoryInv
<1>7. CASE Memory!Encode(w)
  <2>1. PICK m \in writer[w].todo :
          /\ memoryFile' = [n \in Memory!Names |->
               IF n = writer[w].fd THEN memoryFile[n] \cup {m} ELSE memoryFile[n]]
          /\ writer' = [writer EXCEPT ![w].todo = writer[w].todo \ {m}]
          /\ writer[w].at = "writing" /\ UNCHANGED <<mixed, crowded>>
    BY <1>7 DEF Memory!Encode
  <2> DEFINE new == [writer[w] EXCEPT !.todo = writer[w].todo \ {m}]
  <2>2. new \in MemoryRecords /\ m \in Memories
    BY <1>1 DEF MemoryRecords
  <2>3. writer' = [writer EXCEPT ![w] = new]
    BY <1>1, <2>1
  <2>4. writer' \in [Writers -> MemoryRecords]
    BY <1>1, <2>2, <2>3
  <2>5. /\ writer'[w] = new /\ new.at = "writing" /\ new.fd = writer[w].fd /\ new.op = writer[w].op
        /\ new.of = writer[w].of /\ new.todo = writer[w].todo \ {m}
        /\ \A v \in Writers : v # w => writer'[v] = writer[v]
    BY <1>1, <2>1, <2>3 DEF MemoryRecords
  <2> HIDE DEF new
  <2>6. \A n \in Memory!Names : memoryFile'[n] = IF n = writer[w].fd THEN memoryFile[n] \cup {m} ELSE memoryFile[n]
    BY <2>1
  <2>7. memoryFile' \in [Memory!Names -> (SUBSET Memories) \cup {None}]
    <3>1. ASSUME NEW n \in Memory!Names PROVE memoryFile'[n] \in (SUBSET Memories) \cup {None}
      <4>1. CASE n = writer[w].fd
        <5>1. memoryFile[n] \in SUBSET Memories
          BY <1>1, <4>1 DEF Memory!TypeOK, MemoryInv, OpenFilesExist
        <5>2. memoryFile'[n] = memoryFile[n] \cup {m}
          BY <2>6, <4>1
        <5> QED
          BY <2>2, <5>1, <5>2
      <4>2. CASE n # writer[w].fd
        <5>1. memoryFile'[n] = memoryFile[n]
          BY <2>6, <4>2
        <5> QED
          BY <1>1, <5>1 DEF Memory!TypeOK
      <4> QED
        BY <4>1, <4>2
    <3> QED
      BY <2>1, <3>1
  <2>8. Memory!TypeOK'
    BY <1>1, <1>2, <2>1, <2>4, <2>7 DEF Memory!TypeOK, MemoryRecords
  <2>9. OpenFilesExist'
    <3>1. \A n \in Memory!Names : memoryFile[n] # None => memoryFile'[n] # None
      BY <1>1, <2>2, <2>6, MemoryAssumption DEF Memory!TypeOK
    <3> QED
      BY <2>5, <3>1 DEF MemoryInv, OpenFilesExist
  <2>10. ASSUME ~ crowded'
         PROVE  /\ SavedInv' /\ \A v, u \in Writers : Memory!Saving(v)' /\ Memory!Saving(u)' => v = u
                /\ \A v \in Writers : WriterInv(v)'
    <3>1. ~ crowded
      BY <2>1, <2>10
    <3>2. WriterInv(w) /\ SavedInv /\ writer[w].fd = Memory!Tmp /\ memoryFile[Memory!Tmp] # None
      BY <1>3, <1>7, <3>1 DEF MemoryInv
    <3>3. memoryFile'[Memory!Path] = memoryFile[Memory!Path] /\ memoryFile'[Memory!Tmp] = memoryFile[Memory!Tmp] \cup {m}
      BY <1>4, <2>6, <3>2
    <3>4. Snapshot(w)' = Snapshot(w)
      BY <2>5, <3>3 DEF Snapshot
    <3>5. memoryFile'[Memory!Tmp] # None
      BY <1>1, <1>4, <2>2, <3>2, <3>3, MemoryAssumption DEF Memory!TypeOK
    <3>6. WriterInv(w)'
      BY <1>2, <2>1, <2>5, <3>2, <3>4, <3>5 DEF WriterInv
    <3>7. SavedInv'
      BY <1>2, <3>2, <3>3 DEF SavedInv
    <3>8. ASSUME NEW v \in Writers, v # w PROVE WriterInv(v)'
      <4>1. WriterInv(v) /\ ~ Memory!Saving(v) /\ writer'[v] = writer[v]
        BY <2>1, <2>5, <3>1, <3>8 DEF MemoryInv
      <4> QED
        BY <1>2, <4>1 DEF WriterInv
    <3>9. \A v \in Writers : Memory!Saving(v)' <=> Memory!Saving(v)
      BY <2>1, <2>5
    <3> QED
      BY <3>1, <3>6, <3>7, <3>8, <3>9 DEF MemoryInv
  <2>11. ChangesFit'
    BY <2>5 DEF MemoryInv, ChangesFit
  <2> QED
    BY <1>2, <2>1, <2>8, <2>9, <2>10, <2>11 DEF MemoryInv
<1> QED
  BY <1>5, <1>6, <1>7

(* The temporary file takes the place of the old one.                      *)
LEMMA RenameStep ==
  ASSUME MemoryInv, NEW w \in Writers, Memory!Rename(w)
  PROVE  MemoryInv'
<1> USE DEF Memory!Saving, Memory!SaveTo
<1>1. Memory!TypeOK /\ writer \in [Writers -> MemoryRecords]
  BY DEF MemoryInv, Memory!TypeOK, MemoryRecords
<1>2. /\ writer[w].at = "writing" /\ writer[w].todo = {} /\ memoryFile[Memory!Tmp] # None
      /\ mixed' = IF Memory!Tmp \in mixed THEN {Memory!Path} ELSE {}
      /\ saved' = IF writer[w].op = "add" THEN saved \cup ({writer[w].of} \cap items) ELSE saved
      /\ removed' = IF writer[w].op = "remove" THEN removed \cup {writer[w].of} ELSE removed
      /\ UNCHANGED <<items, known, crowded, loaded, crashes>>
  BY DEF Memory!Rename
<1>3. Memory!Tmp \in Memory!Names /\ Memory!Path \in Memory!Names /\ Memory!Tmp # Memory!Path
      /\ "orphan" \notin Memory!Names /\ "none" \notin Memory!Names
  BY DEF Memory!Names, Memory!Tmp, Memory!Path
<1>4. /\ memoryFile'[Memory!Path] = memoryFile[Memory!Tmp] /\ memoryFile'[Memory!Tmp] = None
      /\ memoryFile' \in [Memory!Names -> (SUBSET Memories) \cup {None}]
  <2>1. memoryFile' = [[memoryFile EXCEPT ![Memory!Tmp] = None] EXCEPT ![Memory!Path] = memoryFile[Memory!Tmp]]
    BY DEF Memory!Rename
  <2> QED
    BY <1>1, <1>3, <2>1 DEF Memory!TypeOK
<1>5. memoryFile[Memory!Tmp] \in SUBSET Memories
  BY <1>1, <1>2, <1>3 DEF Memory!TypeOK
<1>6. writer'[w] = Memory!Idle
  BY DEF Memory!Rename
<1>7. ASSUME NEW v \in Writers, v # w
      PROVE  /\ writer'[v] = [writer[v] EXCEPT !.fd = Memory!Renamed(writer[v].fd)]
             /\ writer[v] \in MemoryRecords /\ writer'[v] \in MemoryRecords
             /\ writer'[v].fd = Memory!Renamed(writer[v].fd)
             /\ writer'[v].at = writer[v].at /\ writer'[v].op = writer[v].op
             /\ writer'[v].of = writer[v].of /\ writer'[v].todo = writer[v].todo
  <2>1. writer'[v] = [writer[v] EXCEPT !.fd = Memory!Renamed(writer[v].fd)]
    BY <1>7 DEF Memory!Rename
  <2>2. writer[v] \in MemoryRecords
    BY <1>1
  <2>3. Memory!Renamed(writer[v].fd) \in Memory!Names \cup {"none", "orphan"}
    BY <1>3, <2>2 DEF MemoryRecords, Memory!Renamed
  <2> QED
    BY <2>1, <2>2, <2>3 DEF MemoryRecords
<1>8. Memory!TypeOK'
  <2>1. Memory!Idle \in MemoryRecords
    BY DEF Memory!Idle, MemoryRecords
  <2>2. writer' \in [Writers -> MemoryRecords]
    <3>1. \A v \in Writers : writer'[v] \in MemoryRecords
      BY <1>6, <1>7, <2>1
    <3>2. writer' = [v \in Writers |-> writer'[v]]
      BY DEF Memory!Rename
    <3> QED
      BY <3>1, <3>2
  <2>3. saved' \in SUBSET Memories
    <3>1. items \in SUBSET Memories /\ saved \in SUBSET Memories
      BY <1>1 DEF Memory!TypeOK
    <3> QED
      BY <1>2, <3>1
  <2>4. removed' \in SUBSET Memories
    <3>1. removed \in SUBSET Memories /\ writer[w] \in MemoryRecords
      BY <1>1 DEF Memory!TypeOK
    <3>2. writer[w].op = "remove" => writer[w].of \in Memories
      BY DEF MemoryInv, ChangesFit
    <3> QED
      BY <1>2, <3>1, <3>2
  <2> QED
    BY <1>1, <1>2, <1>3, <1>4, <2>2, <2>3, <2>4 DEF Memory!TypeOK, MemoryRecords
<1>9. OpenFilesExist'
  <2>1. ASSUME NEW v \in Writers, writer'[v].fd \in Memory!Names
        PROVE  memoryFile'[writer'[v].fd] # None
    <3>1. v # w
      BY <1>3, <1>6, <2>1 DEF Memory!Idle
    <3>2. writer[v] \in MemoryRecords /\ writer'[v].fd = Memory!Renamed(writer[v].fd)
      BY <1>7, <3>1
    <3>3. writer'[v].fd = Memory!Path
      BY <1>3, <2>1, <3>2 DEF MemoryRecords, Memory!Renamed, Memory!Names
    <3> QED
      BY <1>2, <1>4, <3>3
  <2> QED
    BY <2>1 DEF OpenFilesExist
<1>10. ASSUME ~ crowded'
       PROVE  /\ loaded' /\ mixed' = {}
              /\ SavedInv'
              /\ \A v, u \in Writers : Memory!Saving(v)' /\ Memory!Saving(u)' => v = u
              /\ \A v \in Writers : WriterInv(v)'
  <2>1. ~ crowded /\ loaded' /\ mixed' = {}
    BY <1>2, <1>10 DEF MemoryInv
  <2>2. WriterInv(w) /\ SavedInv
    BY <2>1 DEF MemoryInv
  <2>3. memoryFile'[Memory!Path] = Snapshot(w)
    BY <1>2, <1>4 DEF Snapshot
  <2>4. ASSUME NEW v \in Writers, v # w
        PROVE  ~ Memory!Saving(v) /\ WriterInv(v)
    BY <1>2, <2>1, <2>4 DEF MemoryInv
  <2>5. SavedInv'
    <3>1. writer[w] \in MemoryRecords
      BY <1>1
    <3>2. memoryFile'[Memory!Path] # None
      BY <1>2, <1>4
    <3>3. saved' \subseteq items' /\ saved' \subseteq Snapshot(w)
      BY <1>2, <2>2, <3>1 DEF WriterInv, SavedInv
    <3>4. removed' \cap items' = {} /\ removed' \cap Snapshot(w) = {} /\ removed' \subseteq known'
      BY <1>2, <2>2, <3>1 DEF WriterInv, SavedInv
    <3> QED
      BY <1>2, <2>2, <2>3, <3>2, <3>3, <3>4 DEF WriterInv, SavedInv
  <2>6. WriterInv(w)'
    BY <1>6 DEF WriterInv, Memory!Idle
  <2>7. ASSUME NEW v \in Writers, v # w PROVE WriterInv(v)' /\ ~ Memory!Saving(v)'
    <3>1. writer'[v].fd = "none"
      BY <1>7, <2>4, <2>7 DEF WriterInv, Memory!Renamed, Memory!Tmp, Memory!Path
    <3> QED
      BY <1>2, <1>7, <2>4, <2>7, <3>1 DEF WriterInv
  <2> QED
    BY <1>6, <2>1, <2>5, <2>6, <2>7 DEF Memory!Idle
<1>11. ChangesFit'
  <2>1. ASSUME NEW v \in Writers, writer'[v].op # "none" PROVE writer'[v].of \in Memories
    <3>1. v # w
      BY <1>6, <2>1 DEF Memory!Idle
    <3>2. writer'[v].op = writer[v].op /\ writer'[v].of = writer[v].of
      BY <1>7, <3>1
    <3> QED
      BY <2>1, <3>2 DEF MemoryInv, ChangesFit
  <2> QED
    BY <2>1 DEF ChangesFit
<1> QED
  BY <1>8, <1>9, <1>10, <1>11 DEF MemoryInv

LEMMA SaveFailsStep ==
  ASSUME MemoryInv, NEW w \in Writers, Memory!SaveFails(w)
  PROVE  MemoryInv'
<1> USE DEF Memory!Saving
<1>1. Memory!TypeOK /\ writer \in [Writers -> MemoryRecords]
  BY DEF MemoryInv, Memory!TypeOK, MemoryRecords
<1>2. /\ writer' = [writer EXCEPT ![w] = Memory!Idle]
      /\ UNCHANGED <<items, memoryFile, mixed, known, saved, removed, crowded, loaded, crashes>>
  BY DEF Memory!SaveFails
<1>3. writer'[w] = Memory!Idle /\ \A v \in Writers : v # w => writer'[v] = writer[v]
  BY <1>1, <1>2
<1>4. Memory!TypeOK'
  <2>1. Memory!Idle \in MemoryRecords
    BY DEF Memory!Idle, MemoryRecords
  <2>2. writer' \in [Writers -> MemoryRecords]
    BY <1>1, <1>2, <2>1
  <2> QED
    BY <1>1, <1>2, <2>2 DEF Memory!TypeOK, MemoryRecords
<1>5. OpenFilesExist'
  BY <1>2, <1>3 DEF MemoryInv, OpenFilesExist, Memory!Idle, Memory!Names, Memory!Path, Memory!Tmp
<1>6. ASSUME ~ crowded'
      PROVE  \A v \in Writers : WriterInv(v)' /\ (Memory!Saving(v)' => Memory!Saving(v))
  <2>1. WriterInv(w)' /\ ~ Memory!Saving(w)'
    BY <1>3 DEF WriterInv, Memory!Idle
  <2>2. ASSUME NEW v \in Writers, v # w PROVE WriterInv(v)' /\ (Memory!Saving(v)' => Memory!Saving(v))
    <3>1. WriterInv(v) /\ writer'[v] = writer[v]
      BY <1>2, <1>3, <1>6, <2>2 DEF MemoryInv
    <3>2. Snapshot(v)' = Snapshot(v) /\ UNCHANGED <<memoryFile, items, known, saved, removed>>
      BY <1>2, <3>1 DEF Snapshot
    <3> QED
      BY ONLY <3>1, <3>2 DEF WriterInv, Memory!Saving
  <2> QED
    BY <2>1, <2>2
<1>7. ChangesFit'
  BY <1>2, <1>3 DEF MemoryInv, ChangesFit, Memory!Idle, Memory!TypeOK
<1> QED
  BY <1>2, <1>4, <1>5, <1>6, <1>7 DEF MemoryInv, SavedInv

LEMMA CrashStep ==
  ASSUME MemoryInv, Memory!Crash
  PROVE  MemoryInv'
<1> USE DEF Memory!Saving
<1>1. Memory!TypeOK
  BY DEF MemoryInv
<1>2. /\ writer' = [w \in Writers |-> Memory!Idle] /\ loaded' = (Memory!Path \notin mixed)
      /\ items' = IF memoryFile[Memory!Path] = None \/ Memory!Path \in mixed THEN {} ELSE memoryFile[Memory!Path]
      /\ crashes < MaxCrashes /\ crashes' = crashes + 1
      /\ UNCHANGED <<memoryFile, mixed, known, saved, removed, crowded>>
  BY DEF Memory!Crash
<1>3. Memory!TypeOK'
  <2>1. Memory!Idle \in MemoryRecords
    BY DEF Memory!Idle, MemoryRecords
  <2>2. items' \in SUBSET Memories
    <3>1. memoryFile[Memory!Path] \in (SUBSET Memories) \cup {None}
      BY <1>1 DEF Memory!TypeOK, Memory!Names
    <3> QED
      BY <1>2, <3>1
  <2>3. crashes' \in 0 .. MaxCrashes /\ loaded' \in BOOLEAN
    BY <1>1, <1>2, MemoryAssumption DEF Memory!TypeOK
  <2>4. writer' \in [Writers -> MemoryRecords]
    BY <1>2, <2>1
  <2> QED
    BY <1>1, <1>2, <2>2, <2>3, <2>4 DEF Memory!TypeOK, MemoryRecords
<1>4. ASSUME ~ crowded'
      PROVE  loaded' /\ mixed' = {} /\ SavedInv'
  BY <1>2, <1>4 DEF MemoryInv, SavedInv
<1>5. \A w \in Writers : WriterInv(w)' /\ ~ Memory!Saving(w)'
  BY <1>2 DEF WriterInv, Memory!Idle
<1>6. OpenFilesExist'
  BY <1>2 DEF OpenFilesExist, Memory!Idle, Memory!Names, Memory!Path, Memory!Tmp
<1>7. ChangesFit'
  BY <1>2 DEF ChangesFit, Memory!Idle
<1> QED
  BY <1>3, <1>4, <1>5, <1>6, <1>7 DEF MemoryInv

LEMMA MemoryNext == MemoryInv /\ (Memory!Next \/ UNCHANGED memoryVars) => MemoryInv'
<1>1. ASSUME MemoryInv, Memory!Next PROVE MemoryInv'
  BY <1>1, ChangeStep, SaveStep, RenameStep, SaveFailsStep, CrashStep DEF Memory!Next
<1>2. ASSUME MemoryInv, UNCHANGED memoryVars PROVE MemoryInv'
  <2>1. UNCHANGED <<items, memoryFile, mixed, writer, known, saved, removed, crowded, loaded, crashes>>
    BY <1>2 DEF memoryVars
  <2>2. Memory!TypeOK' /\ OpenFilesExist' /\ ChangesFit'
    BY <1>2, <2>1 DEF MemoryInv, Memory!TypeOK, OpenFilesExist, ChangesFit
  <2>3. \A w \in Writers : (Memory!Saving(w)' <=> Memory!Saving(w)) /\ (WriterInv(w)' <=> WriterInv(w))
    BY <2>1 DEF WriterInv, Memory!Saving, Snapshot
  <2> QED
    BY <1>2, <2>1, <2>2, <2>3 DEF MemoryInv, SavedInv
<1> QED
  BY <1>1, <1>2

LEMMA MemoryInvariance == Spec => []MemoryInv
<1>1. MemoryInv /\ [Next]_vars => MemoryInv'
  BY StepOfOne, MemoryNext
<1> QED
  BY <1>1, MemoryInit, PTL DEF Spec

(* For any memories and writers, and a crash or a failed save at any step: *)
(* as long as no two saves were in progress at one time, memories.jsonl    *)
(* has every memory reported saved and none reported removed (SaveJSONL).  *)
THEOREM SavedMemoriesAreInTheFile == Spec => []SavedMemoriesSurvive
<1>1. MemoryInv => SavedMemoriesSurvive
  BY DEF MemoryInv, SavedInv, SavedMemoriesSurvive, Memory!SavedMemoriesSurvive
<1> QED
  BY <1>1, MemoryInvariance, PTL

=============================================================================
