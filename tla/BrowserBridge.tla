----------------------------- MODULE BrowserBridge -----------------------------
(***************************************************************************)
(* The browser the tasks share: a lazily started HTTP bridge               *)
(* (internal/provider/chrome_mcp.go, internal/provider/chromemcpbridge)    *)
(* that starts one Chrome, drives its pages and remembers the last one.    *)
(* Calls of parallel tasks meet in the bridge; a client that gives up      *)
(* leaves its handler running; Chrome may be slow, fail to start or die.   *)
(***************************************************************************)
EXTENDS Naturals, Sequences

CONSTANTS
  Calls,      \* calls the bridge serves at one time
  MaxChromes, \* bound: times Chrome is started
  NoCall      \* nobody holds the bridge's mutex

Chromes == 1 .. MaxChromes

VARIABLES
  bridge,   \* "none" before the first use, "up", "closing" or "closed"
  mutex,    \* the call that holds Bridge.mu, or NoCall
  cmd,      \* Bridge.cmd: the Chrome started last, 0 before the first
  started,  \* how many were started
  chrome,   \* what became of each: [Chromes -> Fates]
  last,     \* Bridge.last: the Chrome the page lives in, 0 for no page
  call,     \* each call: what its handler has left to do, and how far it is
  quit      \* lazyBrowserEngine.Close was called

vars == <<bridge, mutex, cmd, started, chrome, last, call, quit>>

(* A Chrome is starting, answers on its port, has died and is not yet      *)
(* waited for, or is gone.                                                 *)
Fates == {"none", "starting", "answers", "died", "gone"}
Live == {n \in Chromes : chrome[n] \in {"starting", "answers"}}
Answering == {n \in Chromes : chrome[n] = "answers"}

-----------------------------------------------------------------------------
(* The operations: what the handler of each does, step by step             *)

open == <<"version", "chrome", "newTarget", "navigate", "waitReady", "waitReadableText", "extractText", "keep">>
click == <<"lastTarget", "before", "act", "waitTextChange", "extractText", "keep">>
typeText == <<"lastTarget", "act", "extractText", "keep">>
input == <<"lastTarget", "act", "extractText", "keep">>
wait == <<"lastTarget", "extractText", "keep">>
extract == <<"lastTarget", "extractText", "keep">>
domSummary == <<"lastTarget", "extractText", "keep">>
screenshot == <<"lastTarget", "captureScreenshot">>

Operations == {open, click, typeText, input, wait, extract, domSummary, screenshot}

Suffixes == UNION {{SubSeq(o, i, Len(o)) : i \in 1 .. Len(o) + 1} : o \in Operations}

(* A handler: the steps left, the Chrome its page lives in, whether it has *)
(* sent a request and reads the reply, and whether its client gave up.     *)
CallStates == [todo : Suffixes, page : 0 .. MaxChromes, sent : BOOLEAN, gone : BOOLEAN]
Idle == [todo |-> <<>>, page |-> 0, sent |-> FALSE, gone |-> FALSE]

TypeOK ==
  /\ bridge \in {"none", "up", "closing", "closed"}
  /\ mutex \in Calls \cup {NoCall}
  /\ cmd \in 0 .. MaxChromes /\ started \in 0 .. MaxChromes
  /\ chrome \in [Chromes -> Fates]
  /\ last \in 0 .. MaxChromes
  /\ call \in [Calls -> CallStates]
  /\ quit \in BOOLEAN

Init ==
  /\ bridge = "none" /\ mutex = NoCall /\ cmd = 0 /\ started = 0
  /\ chrome = [n \in Chromes |-> "none"]
  /\ last = 0
  /\ call = [c \in Calls |-> Idle]
  /\ quit = FALSE

At(c, step) == call[c].todo # <<>> /\ Head(call[c].todo) = step

(* The handler of c goes on to its next step, with its page.               *)
Later(c, page) == [todo |-> Tail(call[c].todo), page |-> page, sent |-> FALSE, gone |-> call[c].gone]
OnWith(c, page) == call' = [call EXCEPT ![c] = IF Len(@.todo) = 1 THEN Idle ELSE Later(c, page)]
On(c) == OnWith(c, call[c].page)

(* The operation fails and its handler is over.                            *)
End(c) == call' = [call EXCEPT ![c] = Idle]

-----------------------------------------------------------------------------
(* A tool calls the bridge, which the first call starts under the engine's *)
(* mutex, whether or not the engine was closed before; a bridge that was   *)
(* closed refuses the call.                                                *)
Begin(c, operation) ==
  /\ bridge \in {"none", "up"} /\ call[c] = Idle
  /\ bridge' = "up"
  /\ call' = [call EXCEPT ![c].todo = operation]
  /\ UNCHANGED <<mutex, cmd, started, chrome, last, quit>>

(* The client's timeout ends the request; the handler's context with it.   *)
GiveUp(c) ==
  /\ call[c].todo # <<>> /\ ~ call[c].gone
  /\ call' = [call EXCEPT ![c].gone = TRUE]
  /\ UNCHANGED <<bridge, mutex, cmd, started, chrome, last, quit>>

-----------------------------------------------------------------------------
(* ensureChrome: ask the port without the mutex; if nothing answers, start *)
(* a Chrome under it unless the one started last still runs                *)

(* The first request for the version; it can fail though a Chrome answers. *)
Version(c) ==
  /\ At(c, "version")
  /\ \/ /\ Answering # {} /\ ~ call[c].gone
        /\ call' = [call EXCEPT ![c].todo = Tail(Tail(@))]
     \/ On(c)
  /\ UNCHANGED <<bridge, mutex, cmd, started, chrome, last, quit>>

(* Signal 0 reaches a process that has died as long as nobody waited.      *)
NeverRunning == FALSE
chromeRunningLocked == cmd # 0 /\ chrome[cmd] \in {"starting", "answers", "died"}

(* With the mutex: start a Chrome, or only wait for the one that runs.     *)
LockChrome(c) ==
  /\ At(c, "chrome") /\ mutex = NoCall
  /\ \/ /\ chromeRunningLocked
        /\ UNCHANGED <<cmd, started, chrome>>
     \/ /\ ~ chromeRunningLocked /\ started < MaxChromes
        /\ started' = started + 1 /\ cmd' = started + 1
        /\ chrome' = [chrome EXCEPT ![started + 1] = "starting"]
  /\ mutex' = c
  /\ UNCHANGED <<bridge, last, call, quit>>

(* The executable cannot be started.                                       *)
StartFails(c) ==
  /\ At(c, "chrome") /\ mutex = NoCall /\ ~ chromeRunningLocked
  /\ cmd' = 0
  /\ End(c)
  /\ UNCHANGED <<bridge, mutex, started, chrome, last, quit>>

(* waitUntil: the port answers before the deadline, or not; the mutex is   *)
(* held to the end.                                                        *)
AwaitChrome(c) ==
  /\ At(c, "chrome") /\ mutex = c
  /\ \/ Answering # {} /\ ~ call[c].gone /\ On(c)
     \/ End(c)
  /\ mutex' = NoCall
  /\ UNCHANGED <<bridge, cmd, started, chrome, last, quit>>

-----------------------------------------------------------------------------
(* Steps on a page                                                         *)

(* A new page, in whichever Chrome owns the port.                          *)
NewTarget(c) ==
  /\ At(c, "newTarget") /\ ~ call[c].gone
  /\ \E n \in Answering : OnWith(c, n)
  /\ UNCHANGED <<bridge, mutex, cmd, started, chrome, last, quit>>

(* The page to act on, read under the mutex.                               *)
LastTarget(c) ==
  /\ At(c, "lastTarget") /\ mutex = NoCall
  /\ IF last = 0 THEN End(c) ELSE OnWith(c, last)
  /\ UNCHANGED <<bridge, mutex, cmd, started, chrome, last, quit>>

OnPage == {"navigate", "waitReady", "waitReadableText", "before", "act", "waitTextChange", "extractText", "captureScreenshot"}

(* A connection to the page; it needs the client to be there still.        *)
DialCDP(c) ==
  /\ \E s \in OnPage : At(c, s)
  /\ ~ call[c].sent /\ ~ call[c].gone /\ call[c].page \in Answering
  /\ call' = [call EXCEPT ![c].sent = TRUE]
  /\ UNCHANGED <<bridge, mutex, cmd, started, chrome, last, quit>>

(* The reply: what is read from it ends the step, or the step polls again. *)
SessionCall(c) ==
  /\ call[c].sent /\ call[c].page \in Answering
  /\ \/ On(c)
     \/ /\ \E s \in {"waitReady", "waitReadableText", "waitTextChange", "extractText"} : At(c, s)
        /\ call' = [call EXCEPT ![c].sent = FALSE]
  /\ UNCHANGED <<bridge, mutex, cmd, started, chrome, last, quit>>

(* Chrome is not reached, the call fails, the label or the field is not    *)
(* found, a poll runs into its deadline: an error, except that what click  *)
(* reads before it acts and the end of the wait for a change only end the  *)
(* step.                                                                   *)
PageFails(c) ==
  /\ \E s \in OnPage \cup {"newTarget"} : At(c, s)
  /\ \/ End(c)
     \/ At(c, "before") /\ On(c)
     \/ At(c, "waitTextChange") /\ ~ call[c].gone /\ On(c)
  /\ UNCHANGED <<bridge, mutex, cmd, started, chrome, last, quit>>

(* The page becomes the one the next operation acts on, whatever was       *)
(* opened meanwhile and even if the client is gone.                        *)
Keep(c) ==
  /\ At(c, "keep") /\ mutex = NoCall
  /\ last' = call[c].page
  /\ On(c)
  /\ UNCHANGED <<bridge, mutex, cmd, started, chrome, quit>>

-----------------------------------------------------------------------------
(* Chrome                                                                  *)

Fate(n, from, to) ==
  /\ chrome[n] \in from
  /\ chrome' = [chrome EXCEPT ![n] = to]
  /\ UNCHANGED <<bridge, mutex, cmd, started, last, call, quit>>

Answer(n) == Fate(n, {"starting"}, "answers")
Die(n) == Fate(n, {"starting", "answers"}, "died")
Waited(n) == Fate(n, {"died"}, "gone")

-----------------------------------------------------------------------------
(* Close                                                                   *)

(* The console closes the engine once, after five seconds at most for the  *)
(* run to end (runtimeServiceBridge.Close).  With no bridge started there  *)
(* is nothing to close, and a run still alive can start one afterwards.    *)
CloseUnused ==
  /\ bridge = "none" /\ ~quit
  /\ quit' = TRUE
  /\ UNCHANGED <<bridge, mutex, cmd, started, chrome, last, call>>

(* Otherwise the server takes no more calls and waits for those it has.    *)
Shutdown ==
  /\ bridge = "up" /\ ~quit
  /\ bridge' = "closing" /\ quit' = TRUE
  /\ UNCHANGED <<mutex, cmd, started, chrome, last, call>>

Handled == \A c \in Calls : call[c] = Idle

(* Then the Chrome started last is killed.                                 *)
Close ==
  /\ bridge = "closing" /\ Handled /\ mutex = NoCall
  /\ bridge' = "closed"
  /\ chrome' = [n \in Chromes |-> IF n = cmd /\ n \in Live THEN "died" ELSE chrome[n]]
  /\ UNCHANGED <<mutex, cmd, started, last, call, quit>>

Next ==
  \/ \E c \in Calls :
       \/ \E o \in Operations : Begin(c, o)
       \/ GiveUp(c) \/ Version(c) \/ LockChrome(c) \/ StartFails(c) \/ AwaitChrome(c)
       \/ NewTarget(c) \/ LastTarget(c) \/ DialCDP(c) \/ SessionCall(c) \/ PageFails(c) \/ Keep(c)
  \/ \E n \in Chromes : Answer(n) \/ Die(n) \/ Waited(n)
  \/ CloseUnused \/ Shutdown \/ Close

Spec == Init /\ [][Next]_vars

-----------------------------------------------------------------------------
(* The bridge never has two of its Chromes alive, which would share the    *)
(* port and the profile directory, whatever fails, dies, answers late or   *)
(* is given up (ensureChrome); and the Close of a bridge leaves none behind *)
(* (ManagedChromeMCPBrowserProvider.Close).  Nothing is said of a bridge    *)
(* started after the engine was closed unused: it is "up" with quit, and     *)
(* its Chrome stays.                                                       *)
OneChrome ==
  /\ \A m, n \in Live : m = n
  /\ bridge = "closed" => Live = {}
=============================================================================
