------------------------------ MODULE ToolCalls ------------------------------
(***************************************************************************)
(* A tool call from Runtime.Call to its audit row, through the capability  *)
(* check, the web console's confirmation gate and the communication        *)
(* runtime that shows the confirmation card (internal/tools/runtime.go,    *)
(* internal/capability/resolver.go, internal/app/web.go,                   *)
(* internal/communication).  Calls of parallel tasks interleave with the   *)
(* users' answers, with a change of the security policy and with the end   *)
(* of a call's context (a shell tool's timeout, a stopped run).            *)
(***************************************************************************)
EXTENDS Naturals, FiniteSets

CONSTANTS
  Calls,        \* the tool calls of a run
  None,         \* no answer
  Requested,    \* which tools the calls may ask for: a set of [Calls -> Tools]
  Policies,     \* the security policies in play: a subset of AllPolicies
  MaxUpdates    \* bound: changes of the security policy

(* The registered tools that differ in what Call does with them: a shell   *)
(* command on or off the allowlist, a high-risk git tool, a tool whose     *)
(* output is an artifact, and a name without a handler.                    *)
Tools == {"shell", "listed", "commit", "write", "missing"}
RequiresShell(t) == t \in {"shell", "listed"}
riskRank(t) == IF t = "commit" THEN 3 ELSE 2
WritesArtifact(t) == t = "write"

(* threshold 0 is the empty RequireConfirmationAtRisk.                     *)
AllPolicies == [allowShell : BOOLEAN, allowlist : BOOLEAN, threshold : {0, 3}]

ASSUME ToolCallsAssumption ==
  /\ None \notin BOOLEAN
  /\ Requested \subseteq [Calls -> Tools]
  /\ Policies \subseteq AllPolicies
  /\ MaxUpdates \in Nat

VARIABLES
  tool,       \* the tool a call asks for
  stage,      \* where the call is; "new" before it, "done" after it
  expired,    \* calls whose context has ended
  security,   \* Runtime.security
  pending,    \* calls whose reply channel is in the gate's pending map
  reply,      \* what was taken for the call's reply channel
  sending,    \* calls whose channel an HTTP handler took and has not fed yet
  outcome,    \* what Confirm returned
  cards,      \* calls whose confirmation card was published
  clicked,    \* calls answered with a button of the bundled console
  approvals,  \* history: calls on whose card a user said yes
  ran,        \* calls whose handler was invoked
  failed,     \* calls with an error in their result
  row,        \* the tool_calls row of the call
  artifacts,  \* calls with an artifact row
  updates     \* policy changes so far

gateVars == <<pending, reply, sending>>
resultVars == <<ran, failed, row, artifacts>>
vars == <<tool, stage, expired, security, gateVars, outcome, cards, clicked, approvals, resultVars, updates>>

Stages == {"new", "confirm", "deliver", "mark", "wait", "forget",
           "run", "audit", "artifact", "done"}

TypeOK ==
  /\ tool \in [Calls -> Tools] /\ stage \in [Calls -> Stages]
  /\ security \in Policies /\ updates \in 0 .. MaxUpdates
  /\ expired \cup pending \cup sending \cup cards \cup clicked \cup approvals \cup ran \cup failed \cup artifacts \subseteq Calls
  /\ reply \in [Calls -> BOOLEAN \cup {None}]
  /\ outcome \in [Calls -> {"none", "approved", "rejected", "error"}]
  /\ row \in [Calls -> {"none", "succeeded", "failed"}]

Init ==
  /\ tool \in Requested
  /\ stage = [c \in Calls |-> "new"]
  /\ security \in {p \in Policies : p.threshold = 3}
  /\ expired = {} /\ pending = {} /\ sending = {} /\ cards = {} /\ clicked = {} /\ approvals = {}
  /\ ran = {} /\ failed = {} /\ artifacts = {}
  /\ reply = [c \in Calls |-> None]
  /\ outcome = [c \in Calls |-> "none"]
  /\ row = [c \in Calls |-> "none"]
  /\ updates = 0

Goto(c, s) == stage' = [stage EXCEPT ![c] = s]

-----------------------------------------------------------------------------
(* Runtime.Call: the lookup and the capability check                       *)

(* The shell switch off means allowlist only, and no allowlist none at all. *)
Blocked(t, p) == RequiresShell(t) /\ ~p.allowShell /\ ~(p.allowlist /\ t = "listed")

RiskRequiresConfirmation(t, p) == p.threshold # 0 /\ riskRank(t) >= p.threshold

Refused(c) == tool[c] = "missing" \/ Blocked(tool[c], security)

Call(c) ==
  /\ stage[c] = "new"
  /\ \/ c \in expired /\ Goto(c, "done") /\ UNCHANGED failed
     \/ c \notin expired /\ Refused(c) /\ Goto(c, "audit") /\ failed' = failed \cup {c}
     \/ /\ c \notin expired /\ ~Refused(c)
        /\ Goto(c, IF RiskRequiresConfirmation(tool[c], security) THEN "confirm" ELSE "run")
        /\ UNCHANGED failed
  /\ UNCHANGED <<tool, expired, security, gateVars, outcome, cards, clicked, approvals, ran, row, artifacts, updates>>

-----------------------------------------------------------------------------
(* webToolConfirmationGate.Confirm, with communication.Runtime.Dispatch:   *)
(* the outbox, the adapter and the final mark each check the context first. *)

Return(c, result) == Goto(c, "forget") /\ outcome' = [outcome EXCEPT ![c] = result]

Confirm(c) ==
  /\ stage[c] = "confirm"
  /\ \/ c \in expired /\ Goto(c, "audit") /\ failed' = failed \cup {c} /\ UNCHANGED pending
     \/ c \notin expired /\ Goto(c, "deliver") /\ pending' = pending \cup {c} /\ UNCHANGED failed
  /\ UNCHANGED <<tool, expired, security, reply, sending, outcome, cards, clicked, approvals, ran, row, artifacts, updates>>

Dispatch(c) ==
  /\ stage[c] = "deliver"
  /\ \/ c \in expired /\ Return(c, "error") /\ UNCHANGED cards
     \/ c \notin expired /\ cards' = cards \cup {c} /\ Goto(c, "mark") /\ UNCHANGED outcome
  /\ UNCHANGED <<tool, expired, security, gateVars, clicked, approvals, resultVars, updates>>

MarkDelivered(c) ==
  /\ stage[c] = "mark"
  /\ \/ c \in expired /\ Return(c, "error")
     \/ c \notin expired /\ Goto(c, "wait") /\ UNCHANGED outcome
  /\ UNCHANGED <<tool, expired, security, gateVars, cards, clicked, approvals, resultVars, updates>>

(* The select of Confirm; with both ready, Go picks either case.           *)
Replied(c) ==
  /\ stage[c] = "wait"
  /\ reply[c] # None /\ c \notin sending
  /\ Return(c, IF reply[c] THEN "approved" ELSE "rejected")
  /\ UNCHANGED <<tool, expired, security, gateVars, cards, clicked, approvals, resultVars, updates>>

(* Mutant of ContextDone: a select without the context's case.             *)
ContextIgnored(c) == c \in expired /\ Replied(c)

ContextDone(c) ==
  /\ stage[c] = "wait"
  /\ c \in expired
  /\ Return(c, "error")
  /\ UNCHANGED <<tool, expired, security, gateVars, cards, clicked, approvals, resultVars, updates>>

(* Mutant of Forget: only an error stops the call.                         *)
RejectedGoesOn(c) ==
  /\ stage[c] = "forget"
  /\ pending' = pending \ {c}
  /\ \/ outcome[c] # "error" /\ Goto(c, "run") /\ UNCHANGED failed
     \/ outcome[c] = "error" /\ Goto(c, "audit") /\ failed' = failed \cup {c}
  /\ UNCHANGED <<tool, expired, security, reply, sending, outcome, cards, clicked, approvals, ran, row, artifacts, updates>>

(* The deferred forget, and resolveCapability's verdict on what came back. *)
Forget(c) ==
  /\ stage[c] = "forget"
  /\ pending' = pending \ {c}
  /\ \/ outcome[c] = "approved" /\ Goto(c, "run") /\ UNCHANGED failed
     \/ outcome[c] # "approved" /\ Goto(c, "audit") /\ failed' = failed \cup {c}
  /\ UNCHANGED <<tool, expired, security, reply, sending, outcome, cards, clicked, approvals, ran, row, artifacts, updates>>

-----------------------------------------------------------------------------
(* Runtime.Call: the handler and the audit.  The command of a shell tool   *)
(* is killed with its context.                                             *)

Run(c) ==
  /\ stage[c] = "run"
  /\ ran' = ran \cup {c}
  /\ \/ failed' = failed \cup {c}
     \/ ~(RequiresShell(tool[c]) /\ c \in expired) /\ UNCHANGED failed
  /\ Goto(c, "audit")
  /\ UNCHANGED <<tool, expired, security, gateVars, outcome, cards, clicked, approvals, row, artifacts, updates>>

(* CreateToolCall runs under the call's own context.                       *)
Audit(c) ==
  /\ stage[c] = "audit"
  /\ \/ c \in expired /\ Goto(c, "done") /\ UNCHANGED row
     \/ /\ c \notin expired
        /\ row' = [row EXCEPT ![c] = IF c \in failed THEN "failed" ELSE "succeeded"]
        /\ Goto(c, IF WritesArtifact(tool[c]) /\ c \notin failed THEN "artifact" ELSE "done")
  /\ UNCHANGED <<tool, expired, security, gateVars, outcome, cards, clicked, approvals, ran, failed, artifacts, updates>>

recordArtifact(c) ==
  /\ stage[c] = "artifact"
  /\ artifacts' = artifacts \cup ({c} \ expired)
  /\ Goto(c, "done")
  /\ UNCHANGED <<tool, expired, security, gateVars, outcome, cards, clicked, approvals, ran, failed, row, updates>>

-----------------------------------------------------------------------------
(* The users and the environment                                           *)

(* The card of call c carries two ids: the gate's, in its payload, and the *)
(* adapter's event id, which the adapter also calls confirmation_id.       *)
GateId(c) == <<"gate", c>>
EventId(c) == <<"event", c>>

(* What the bundled console posts: its metadata is {...payload, ...data},  *)
(* so the event id of the data wins over the gate's id of the payload.     *)
PostedByConsole(c) == EventId(c)

(* Mutant of ResolvePending: the id stays pending after its answer.        *)
StaysPending(id, v) ==
  \/ \E c \in pending :
       /\ id = GateId(c)
       /\ reply' = [reply EXCEPT ![c] = v]
       /\ sending' = sending \cup {c}
       /\ UNCHANGED pending
  \/ (\A c \in pending : id # GateId(c)) /\ UNCHANGED gateVars

(* HandleUserConfirmation: the gate takes the channel of a pending id; any *)
(* other id goes to the service, which only records an event for a task    *)
(* that is in progress.                                                    *)
ResolvePending(id, v) ==
  \/ \E c \in pending :
       /\ id = GateId(c)
       /\ pending' = pending \ {c}
       /\ reply' = [reply EXCEPT ![c] = v]
       /\ sending' = sending \cup {c}
  \/ (\A c \in pending : id # GateId(c)) /\ UNCHANGED gateVars

Say(c, v) == approvals' = IF v THEN approvals \cup {c} ELSE approvals

Click(c, v) ==
  /\ c \in cards \ clicked
  /\ clicked' = clicked \cup {c}
  /\ ResolvePending(PostedByConsole(c), v)
  /\ Say(c, v)
  /\ UNCHANGED <<tool, stage, expired, security, outcome, cards, resultVars, updates>>

(* An API client posts the id of the payload, as often as it likes.        *)
Post(c, v) ==
  /\ c \in cards
  /\ ResolvePending(GateId(c), v)
  /\ Say(c, v)
  /\ UNCHANGED <<tool, stage, expired, security, outcome, cards, clicked, resultVars, updates>>

(* The send to the one-element channel, outside the lock.                  *)
Send(c) ==
  /\ c \in sending
  /\ sending' = sending \ {c}
  /\ UNCHANGED <<tool, stage, expired, security, pending, reply, outcome, cards, clicked, approvals, resultVars, updates>>

Expire(c) ==
  /\ stage[c] # "done"
  /\ expired' = expired \cup {c}
  /\ UNCHANGED <<tool, stage, security, gateVars, outcome, cards, clicked, approvals, resultVars, updates>>

UseSecurityPolicy(p) ==
  /\ updates < MaxUpdates
  /\ security' = p
  /\ updates' = updates + 1
  /\ UNCHANGED <<tool, stage, expired, gateVars, outcome, cards, clicked, approvals, resultVars>>

Step(c) ==
  \/ Call(c) \/ Confirm(c) \/ Dispatch(c) \/ MarkDelivered(c)
  \/ Replied(c) \/ ContextDone(c) \/ Forget(c) \/ Run(c) \/ Audit(c) \/ recordArtifact(c)

Users == \E c \in Calls, v \in BOOLEAN : Click(c, v) \/ Post(c, v)

Next ==
  \/ \E c \in Calls : Step(c) \/ Send(c) \/ Expire(c)
  \/ Users
  \/ \E p \in Policies : UseSecurityPolicy(p)

(* Goroutines are scheduled; a user, a timeout or an update need not come. *)
Fairness == \A c \in Calls : WF_vars(Step(c)) /\ WF_vars(Send(c))

Spec == Init /\ [][Next]_vars /\ Fairness
-----------------------------------------------------------------------------
(* Properties                                                              *)

InGate(c) == stage[c] \in {"deliver", "mark", "wait", "forget"}
LeftGate(c) == outcome[c] # "none" /\ ~InGate(c)

Replies == INSTANCE OneShotReply WITH
  Requests <- Calls,
  Answers <- BOOLEAN,
  phase <- [c \in Calls |-> IF InGate(c) THEN "open" ELSE IF LeftGate(c) THEN "closed" ELSE "idle"],
  answer <- reply,
  got <- [c \in Calls |-> IF ~LeftGate(c) \/ outcome[c] = "error" THEN None ELSE outcome[c] = "approved"]

(* However answers, duplicates, timeouts and the deferred forget interleave, *)
(* a confirmation is answered at most once, only while its call is in the    *)
(* gate, and the call leaves with that answer or with none: the second of    *)
(* two answers never reaches the one-element channel, where the HTTP handler *)
(* would block.                                                              *)
ConfirmsOnce == Replies!Spec

(* While the policy asks for it, a high-risk handler is invoked only after   *)
(* a user said yes to the card of this very call.                            *)
HighRiskRunsApproved ==
  updates = 0 => \A c \in ran : tool[c] = "commit" => c \in approvals

(* A call whose context ended, or whose answer reached the gate, ends:       *)
(* nothing on the way to the audit waits for anything else.                  *)
ReleasedCallEnds == \A c \in Calls : (c \in expired \/ reply[c] # None) ~> stage[c] = "done"

(* What the documents say of the console's buttons: once the user pressed    *)
(* one, the call it belongs to no longer waits for an answer.                *)
AnswerReachesCall == \A c \in clicked : stage[c] = "wait" => reply[c] # None
=============================================================================
