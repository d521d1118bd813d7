----------------------------- MODULE EventStream -----------------------------
(***************************************************************************)
(* The console's event stream: SSEHub of channels/webconsole/sse_hub.go    *)
(* with its publishers (WebConsoleAdapter.Deliver, one goroutine per task) *)
(* and the HTTP handlers that subscribe, replay what a reconnecting client *)
(* missed and then stream (handleSSE, api_handlers.go).                    *)
(***************************************************************************)
EXTENDS Naturals, Sequences, FiniteSets, SequencesExt

CONSTANTS
  MaxConns,       \* bound: connections, one per GET /api/events
  MaxEvents,      \* bound: published events
  BufferSize,     \* bound: 50 in the code
  ChannelSize,    \* bound: 64 in the code
  MaxActivity     \* bound: connections opened and events published together

(* Events are numbered in the order in which they are appended,            *)
(* connections in the order in which they subscribe.                       *)
Events == 1 .. MaxEvents
Conns == 1 .. MaxConns
NoEvent == 0                 \* no Last-Event-ID

VARIABLES
  appended,     \* how many events were appended so far
  subscribers,  \* the keys of h.clients[channelID]
  mapNo,        \* which map h.clients[channelID] is, or was last
  mapped,       \* there is one: not before the first subscriber, and not
                \* after an unsubscribe left it empty
  inMap,        \* the map a connection was put into
  channel,      \* a connection's channel
  closed,       \* connections whose channel is closed
  publisher,    \* what Publish of an event still has to do
  droppers,     \* goroutines started for slow consumers: <<event, connection>>
  conn,         \* where a handler is
  lastId,       \* the Last-Event-ID header of a connection
  written,      \* events written to a connection
  owedFrom,     \* history: the events after this one are owed to it
  panicked      \* the process has died of a panic

hubVars == <<appended, subscribers, mapNo, mapped, inMap, channel, closed, droppers>>
vars == <<hubVars, publisher, conn, lastId, written, owedFrom, panicked>>

Idle == [stage |-> "idle", map |-> 0, visited |-> {}, must |-> {}, picked |-> {}]

TypeOK ==
  /\ appended \in 0 .. MaxEvents
  /\ subscribers \subseteq Conns /\ closed \subseteq Conns
  /\ mapNo \in Nat /\ mapped \in BOOLEAN /\ inMap \in [Conns -> Nat]
  /\ \A c \in Conns : Len(channel[c]) <= ChannelSize
  /\ \A e \in Events : publisher[e].stage \in {"idle", "sending", "done"} /\ Cardinality(publisher[e].picked) <= 1
  /\ droppers \subseteq Events \X Conns
  /\ conn \in [Conns -> {"new", "subscribed", "streaming", "leaving", "gone"}]
  /\ lastId \in [Conns -> Events \cup {NoEvent}]
  /\ written \in [Conns -> SUBSET Events]
  /\ owedFrom \in [Conns -> Nat]
  /\ panicked \in BOOLEAN

Init ==
  /\ appended = 0 /\ subscribers = {} /\ mapNo = 0 /\ mapped = FALSE /\ closed = {} /\ droppers = {}
  /\ inMap = [c \in Conns |-> 0]
  /\ channel = [c \in Conns |-> << >>]
  /\ publisher = [e \in Events |-> Idle]
  /\ conn = [c \in Conns |-> "new"]
  /\ lastId = [c \in Conns |-> NoEvent]
  /\ written = [c \in Conns |-> {}]
  /\ owedFrom = [c \in Conns |-> 0]
  /\ panicked = FALSE

Running == ~panicked

Activity == appended + Cardinality({c \in Conns : conn[c] # "new"})

-----------------------------------------------------------------------------
(* Publish                                                                 *)

(* Under the lock: the buffer grows and the map is taken by reference; if  *)
(* there is none, no later subscriber is in the one taken.                 *)
Publish(e) ==
  /\ Running /\ e = appended + 1 /\ Activity < MaxActivity
  /\ appended' = e
  /\ publisher' = [publisher EXCEPT ![e] = [Idle EXCEPT !.stage = "sending", !.map = mapNo, !.must = subscribers]]
  /\ UNCHANGED <<subscribers, mapNo, mapped, inMap, channel, closed, droppers, conn, lastId, written, owedFrom, panicked>>

(* The range over that map, without the lock: a key removed meanwhile is   *)
(* not visited, one added meanwhile may be.                                *)
Visit(e, c) ==
  LET p == publisher[e] IN
  /\ Running /\ p.stage = "sending" /\ p.picked = {}
  /\ c \in subscribers \ p.visited /\ inMap[c] = p.map
  /\ publisher' = [publisher EXCEPT ![e].picked = {c}]
  /\ UNCHANGED <<hubVars, conn, lastId, written, owedFrom, panicked>>

(* The select: a send, a goroutine that drops a slow consumer, or a panic. *)
Send(e, c) ==
  /\ Running /\ publisher[e].picked = {c}
  /\ publisher' = [publisher EXCEPT ![e].picked = {}, ![e].visited = @ \cup {c}]
  /\ panicked' = (c \in closed)
  /\ channel' = IF c \notin closed /\ Len(channel[c]) < ChannelSize
                THEN [channel EXCEPT ![c] = Append(@, e)] ELSE channel
  /\ droppers' = IF Len(channel[c]) >= ChannelSize THEN droppers \cup {<<e, c>>} ELSE droppers
  /\ UNCHANGED <<appended, subscribers, mapNo, mapped, inMap, closed, conn, lastId, written, owedFrom>>

Published(e) ==
  LET p == publisher[e] IN
  /\ Running /\ p.stage = "sending" /\ p.picked = {}
  /\ (p.must \cap subscribers) \subseteq p.visited
  /\ publisher' = [publisher EXCEPT ![e] = [Idle EXCEPT !.stage = "done"]]
  /\ UNCHANGED <<hubVars, conn, lastId, written, owedFrom, panicked>>

(* Closing a closed channel panics, here outside of any HTTP handler.  The *)
(* map stays, though nothing may be left in it.                            *)
DropSlow(e, c) ==
  /\ Running /\ <<e, c>> \in droppers
  /\ droppers' = droppers \ {<<e, c>>}
  /\ subscribers' = subscribers \ {c}
  /\ panicked' = (c \in closed)
  /\ closed' = closed \cup {c}
  /\ UNCHANGED <<appended, mapNo, mapped, inMap, channel, publisher, conn, lastId, written, owedFrom>>

-----------------------------------------------------------------------------
(* handleSSE                                                               *)

(* A client that comes back names the last event it has seen.              *)
Subscribe(c, id) ==
  /\ Running /\ conn[c] = "new" /\ (\A d \in 1 .. c - 1 : conn[d] # "new") /\ Activity < MaxActivity
  /\ conn' = [conn EXCEPT ![c] = "subscribed"]
  /\ lastId' = [lastId EXCEPT ![c] = id]
  /\ mapNo' = IF mapped THEN mapNo ELSE mapNo + 1
  /\ mapped' = TRUE
  /\ inMap' = [inMap EXCEPT ![c] = mapNo']
  /\ subscribers' = subscribers \cup {c}
  /\ owedFrom' = [owedFrom EXCEPT ![c] = appended]
  /\ UNCHANGED <<appended, channel, closed, droppers, publisher, written, panicked>>

Buffer == {e \in Events : appended - BufferSize < e /\ e <= appended}

(* Mutant of AfterEvent: one past the event that follows.                  *)
OneTooFar(i) == i + 2

AfterEvent(i) == i + 1

(* An id the buffer no longer holds brings all of the buffer.              *)
Replayed(id) ==
  IF id = NoEvent THEN {} ELSE IF id \in Buffer THEN {e \in Buffer : e >= AfterEvent(id)} ELSE Buffer

Replay(c) ==
  /\ Running /\ conn[c] = "subscribed"
  /\ conn' = [conn EXCEPT ![c] = "streaming"]
  /\ written' = [written EXCEPT ![c] = Replayed(lastId[c])]
  /\ owedFrom' = IF lastId[c] \in Buffer THEN [owedFrom EXCEPT ![c] = lastId[c]] ELSE owedFrom
  /\ UNCHANGED <<hubVars, publisher, lastId, panicked>>

Stream(c) ==
  /\ Running /\ conn[c] = "streaming"
  /\ \/ /\ channel[c] # << >>
        /\ written' = [written EXCEPT ![c] = @ \cup {Head(channel[c])}]
        /\ channel' = [channel EXCEPT ![c] = Tail(@)]
        /\ UNCHANGED conn
     \/ /\ channel[c] = << >> /\ c \in closed
        /\ conn' = [conn EXCEPT ![c] = "leaving"]
        /\ UNCHANGED <<channel, written>>
  /\ UNCHANGED <<appended, subscribers, mapNo, mapped, inMap, closed, droppers, publisher, lastId, owedFrom, panicked>>

Disconnect(c) ==
  /\ Running /\ conn[c] = "streaming"
  /\ conn' = [conn EXCEPT ![c] = "leaving"]
  /\ UNCHANGED <<hubVars, publisher, lastId, written, owedFrom, panicked>>

(* The deferred unsubscribe, which drops a map with nothing left in it.    *)
(* net/http recovers a handler's own panic.                                *)
Unsubscribe(c) ==
  /\ Running /\ conn[c] = "leaving"
  /\ conn' = [conn EXCEPT ![c] = "gone"]
  /\ subscribers' = subscribers \ {c}
  /\ mapped' = (mapped /\ subscribers' # {})
  /\ closed' = closed \cup {c}
  /\ UNCHANGED <<appended, mapNo, inMap, channel, droppers, publisher, lastId, written, owedFrom, panicked>>

Next ==
  \/ \E e \in Events :
       Publish(e) \/ Published(e) \/ \E c \in Conns : Visit(e, c) \/ Send(e, c) \/ DropSlow(e, c)
  \/ \E c \in Conns :
       Replay(c) \/ Stream(c) \/ Disconnect(c) \/ Unsubscribe(c)
       \/ \E id \in 0 .. appended : Subscribe(c, id)

Spec == Init /\ [][Next]_vars

-----------------------------------------------------------------------------
(* Properties                                                              *)

OnItsWay(e, c) ==
  \/ Contains(channel[c], e)
  \/ publisher[e].stage = "sending" /\ c \notin publisher[e].visited

TooSlow(c) == \E e \in Events : <<e, c>> \in droppers

(* A connection that is neither dropped nor left misses nothing: whatever  *)
(* is appended after the event it named (or after it subscribed) was       *)
(* written to it, waits in its channel or is about to be sent, although    *)
(* subscribing, replaying and publishing take the lock one by one and the  *)
(* map is read without it.                                                 *)
NothingMissed ==
  \A c \in subscribers : conn[c] = "streaming" /\ ~TooSlow(c) =>
    \A e \in owedFrom[c] + 1 .. appended : e \in written[c] \/ OnItsWay(e, c)

(* What the documents say of a slow consumer: it is disconnected, and      *)
(* nothing more happens (m10_4_webconsole_channel_result.md:24).  It does  *)
(* not hold: two events that find its channel full close it twice.         *)
SlowConsumerOnlyDisconnected == ~panicked
=============================================================================
