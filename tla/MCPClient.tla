------------------------------ MODULE MCPClient ------------------------------
(***************************************************************************)
(* A client of one MCP server over stdio (internal/mcp/client.go): the     *)
(* handshake, the pages of the tool list, then tool calls of parallel      *)
(* tasks.  Requests share one pipe; a single reader routes the replies by  *)
(* id, in whatever order the server writes them, and the server may answer *)
(* twice, never, or die.                                                   *)
(***************************************************************************)
EXTENDS Naturals, FiniteSets

CONSTANTS
  ToolNumbers,  \* the numbers of the tools/call requests
  MaxPages,     \* bound: pages of the tool list the server can serve
  PageLimit,    \* pages after which the list is long enough (200 tools)
  Nobody        \* no request, no reply

(* A request is named by its method and a number.                          *)
Requests == {<<"initialize", 0>>} \cup ({"tools/list"} \X (1 .. MaxPages)) \cup ({"tools/call"} \X ToolNumbers)

Ids == 1 .. Cardinality(Requests)

(* What a reply says, and which request the server meant it for.           *)
Bodies == {"result", "more", "error"}
Says(r) == IF r[1] = "tools/list" THEN Bodies ELSE {"result", "error"}
ReplyTo == [of : Requests, body : Bodies]

VARIABLES
  nextID,     \* the last id given out
  id,         \* the id of a request, 0 before it has one
  at,         \* where a request is
  lapsed,     \* requests whose context has ended
  waiting,    \* Client.pending: [Ids -> the request waiting for the id, or Nobody]
  inbox,      \* the one-element channel of a request
  reader,     \* a reply the reader took a channel for: <<request, reply>>
  received,   \* requests the server has read
  alive,      \* the server runs and readLoop reads
  result,     \* what call returned for a request
  setup       \* Initialize: the request it makes now, "ready" or "failed"

vars == <<nextID, id, at, lapsed, waiting, inbox, reader, received, alive, result, setup>>

Places == {"new", "write", "wait", "return", "done"}

TypeOK ==
  /\ nextID \in 0 .. Cardinality(Requests) /\ id \in [Requests -> 0 .. Cardinality(Requests)]
  /\ at \in [Requests -> Places]
  /\ lapsed \cup received \subseteq Requests
  /\ waiting \in [Ids -> Requests \cup {Nobody}]
  /\ inbox \in [Requests -> ReplyTo \cup {Nobody}]
  /\ reader \subseteq Requests /\ Cardinality(reader) <= 1
  /\ alive \in BOOLEAN
  /\ result \in [Requests -> ReplyTo \cup {Nobody}]
  /\ setup \in {<<"initialize", 0>>, <<"ready", 0>>, <<"failed", 0>>} \cup ({"tools/list"} \X (1 .. MaxPages))

Init ==
  /\ nextID = 0 /\ id = [r \in Requests |-> 0]
  /\ at = [r \in Requests |-> "new"]
  /\ lapsed = {} /\ received = {} /\ reader = {}
  /\ waiting = [n \in Ids |-> Nobody]
  /\ inbox = [r \in Requests |-> Nobody]
  /\ alive = TRUE
  /\ result = [r \in Requests |-> Nobody]
  /\ setup = <<"initialize", 0>>

Goto(r, place) == at' = [at EXCEPT ![r] = place]

-----------------------------------------------------------------------------
(* call and the stdio transport's send                                     *)

(* Initialize makes its requests one by one; tools are called after it.    *)
Due(r) == r = setup \/ (setup = <<"ready", 0>> /\ r[1] = "tools/call")

(* Mutant of FreshId: the number of waiters as the id.                     *)
CountedId == Cardinality({n \in Ids : waiting[n] # Nobody}) + 1

FreshId == nextID + 1

register(r) ==
  /\ at[r] = "new" /\ Due(r)
  /\ nextID' = nextID + 1
  /\ id' = [id EXCEPT ![r] = FreshId]
  /\ waiting' = [waiting EXCEPT ![FreshId] = r]
  /\ Goto(r, "write")
  /\ UNCHANGED <<lapsed, inbox, reader, received, alive, result, setup>>

(* A write to the pipe of a dead server fails, at the latest.              *)
Write(r) ==
  /\ at[r] = "write"
  /\ \/ alive /\ received' = received \cup {r} /\ Goto(r, "wait")
     \/ ~alive /\ Goto(r, "return") /\ UNCHANGED received
  /\ UNCHANGED <<nextID, id, lapsed, waiting, inbox, reader, alive, result, setup>>

Wait(r) ==
  /\ at[r] = "wait"
  /\ \/ inbox[r] # Nobody /\ r \notin reader /\ result' = [result EXCEPT ![r] = inbox[r]]
     \/ r \in lapsed /\ UNCHANGED result
  /\ Goto(r, "return")
  /\ UNCHANGED <<nextID, id, lapsed, waiting, inbox, reader, received, alive, setup>>

-----------------------------------------------------------------------------
(* The end of call: the deferred unregister, then what Initialize makes of *)
(* the result; an error on a later page ends the list, no error.           *)

Ok(r) == result[r] # Nobody /\ result[r].body # "error"

AfterPage(n) ==
  IF Ok(<<"tools/list", n>>) /\ result[<<"tools/list", n>>].body = "more" /\ n < PageLimit
  THEN <<"tools/list", n + 1>> ELSE <<"ready", 0>>

NextSetup(r) ==
  CASE r[1] = "tools/call" -> setup
    [] r[1] = "initialize" -> IF Ok(r) THEN <<"tools/list", 1>> ELSE <<"failed", 0>>
    [] r[1] = "tools/list" -> IF ~Ok(r) /\ r[2] = 1 THEN <<"failed", 0>> ELSE AfterPage(r[2])

unregister(r) ==
  /\ at[r] = "return"
  /\ waiting' = [waiting EXCEPT ![id[r]] = Nobody]
  /\ Goto(r, "done")
  /\ setup' = NextSetup(r)
  /\ UNCHANGED <<nextID, id, lapsed, inbox, reader, received, alive, result>>

-----------------------------------------------------------------------------
(* readLoop and deliver, and the server behind them                        *)

(* Mutant of deliver: the channel stays registered after its reply.        *)
KeepsWaiting(r, body) ==
  LET w == waiting[id[r]] IN
  /\ alive /\ reader = {} /\ r \in received
  /\ w # Nobody
  /\ inbox' = [inbox EXCEPT ![w] = [of |-> r, body |-> body]]
  /\ reader' = {w}
  /\ UNCHANGED <<nextID, id, at, lapsed, waiting, received, alive, result, setup>>

(* The server answers any request it has read, again if it likes; the      *)
(* reply carries the request's id.                                         *)
deliver(r, body) ==
  LET w == waiting[id[r]] IN
  /\ alive /\ reader = {} /\ r \in received
  /\ w # Nobody
  /\ waiting' = [waiting EXCEPT ![id[r]] = Nobody]
  /\ inbox' = [inbox EXCEPT ![w] = [of |-> r, body |-> body]]
  /\ reader' = {w}
  /\ UNCHANGED <<nextID, id, at, lapsed, received, alive, result, setup>>

(* The send to the channel, after the unlock.                              *)
Delivered ==
  /\ reader # {}
  /\ reader' = {}
  /\ UNCHANGED <<nextID, id, at, lapsed, waiting, inbox, received, alive, result, setup>>

ServerDies ==
  /\ alive
  /\ alive' = FALSE
  /\ UNCHANGED <<nextID, id, at, lapsed, waiting, inbox, reader, received, result, setup>>

Lapse(r) ==
  /\ at[r] \in {"write", "wait"}
  /\ lapsed' = lapsed \cup {r}
  /\ UNCHANGED <<nextID, id, at, waiting, inbox, reader, received, alive, result, setup>>

Next ==
  \/ \E r \in Requests :
       register(r) \/ Write(r) \/ Wait(r) \/ unregister(r) \/ Lapse(r) \/ \E body \in Says(r) : deliver(r, body)
  \/ Delivered \/ ServerDies

Spec == Init /\ [][Next]_vars

-----------------------------------------------------------------------------
(* Properties                                                              *)

Replies == INSTANCE OneShotReply WITH
  Answers <- ReplyTo,
  None <- Nobody,
  phase <- [r \in Requests |-> IF at[r] = "new" THEN "idle" ELSE IF at[r] = "done" THEN "closed" ELSE "open"],
  answer <- inbox,
  got <- [r \in Requests |-> IF at[r] = "done" THEN result[r] ELSE Nobody]

(* Whatever the server repeats, delays or answers out of order, a request  *)
(* takes at most one reply, and only before it returns: a second one       *)
(* would block the only reader for every other call.                       *)
RepliesOnce == Replies!Spec

(* No call returns the reply to another request, not even the late one of  *)
(* a request that gave up.                                                 *)
NoCrossedReplies == \A r \in Requests : result[r] # Nobody => result[r].of = r
=============================================================================
