---------------------------- MODULE OneShotReply ----------------------------
(***************************************************************************)
(* What a caller that parks itself on a one-element channel is promised:   *)
(* its request is answered at most once and only while it is open, and it  *)
(* ends once, with that very answer or with none.  The tool confirmation   *)
(* gate (internal/app/web.go) and the MCP client (internal/mcp/client.go)  *)
(* are two implementations.                                                *)
(***************************************************************************)
CONSTANTS Requests, Answers, None

VARIABLES
  phase,    \* [Requests -> {"idle", "open", "closed"}]
  answer,   \* the answer given to an open request, or None
  got       \* what a closed request ended with, or None when it gave up

vars == <<phase, answer, got>>

Init ==
  /\ phase = [r \in Requests |-> "idle"]
  /\ answer = [r \in Requests |-> None]
  /\ got = [r \in Requests |-> None]

Ask(r) ==
  /\ phase[r] = "idle"
  /\ phase' = [phase EXCEPT ![r] = "open"]
  /\ UNCHANGED <<answer, got>>

Answer(r) ==
  /\ phase[r] = "open"
  /\ answer[r] = None
  /\ \E v \in Answers : answer' = [answer EXCEPT ![r] = v]
  /\ UNCHANGED <<phase, got>>

Finish(r) ==
  /\ phase[r] = "open"
  /\ phase' = [phase EXCEPT ![r] = "closed"]
  /\ got' \in {[got EXCEPT ![r] = answer[r]], got}
  /\ UNCHANGED answer

Next == \E r \in Requests : Ask(r) \/ Answer(r) \/ Finish(r)

Spec == Init /\ [][Next]_vars
=============================================================================
