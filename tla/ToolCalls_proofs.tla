--------------------------- MODULE ToolCalls_proofs ---------------------------
(***************************************************************************)
(* Proofs about ToolCalls: its variables keep their types, a high-risk     *)
(* handler is invoked only with an approval of its own card, and the       *)
(* confirmation gate implements OneShotReply, for any number of calls and  *)
(* any policies.                                                           *)
(***************************************************************************)
EXTENDS ToolCalls, TLAPS

-----------------------------------------------------------------------------
(* The inductive invariant                                                 *)

(* A channel is in the pending map only while its call is in the gate and  *)
(* nothing was sent to it; what Confirm returned is there from its return  *)
(* on, and a yes or no of Confirm is what came through the channel.        *)
GateInv(c) ==
  /\ c \in pending => InGate(c) /\ reply[c] = None
  /\ stage[c] \in {"new", "confirm", "deliver", "mark", "wait"} => outcome[c] = "none"
  /\ stage[c] = "forget" => outcome[c] # "none"
  /\ stage[c] \in {"new", "confirm"} => reply[c] = None
  /\ outcome[c] = "approved" => reply[c] = TRUE
  /\ outcome[c] = "rejected" => reply[c] = FALSE

(* A yes in the channel is a user's yes to the card, and a high-risk call  *)
(* gets to its handler with one, as long as the first policy is in force.  *)
ApprovalInv(c) ==
  /\ reply[c] = TRUE => c \in approvals
  /\ updates = 0 /\ tool[c] = "commit" /\ (stage[c] = "run" \/ c \in ran) => c \in approvals

IInv ==
  /\ TypeOK
  /\ updates = 0 => security.threshold = 3
  /\ \A c \in Calls : GateInv(c) /\ ApprovalInv(c)

-----------------------------------------------------------------------------
(* The initial states satisfy the invariant.                               *)
LEMMA InitInv == Init => IInv
<1> SUFFICES ASSUME Init PROVE IInv
  OBVIOUS
<1> USE ToolCallsAssumption DEF Init
<1>1. TypeOK
  BY DEF TypeOK, Stages
<1>2. security.threshold = 3
  OBVIOUS
<1>3. ASSUME NEW c \in Calls PROVE GateInv(c) /\ ApprovalInv(c)
  BY None # TRUE, None # FALSE DEF GateInv, ApprovalInv, InGate
<1> QED
  BY <1>1, <1>2, <1>3 DEF IInv

-----------------------------------------------------------------------------
(* What an answer does to the channels: nothing, or it takes the channel   *)
(* of the one pending call that it names.                                  *)
LEMMA AnswerTakesOne ==
  ASSUME NEW id, NEW v, ResolvePending(id, v)
  PROVE  \/ UNCHANGED gateVars
         \/ \E c \in pending :
              /\ id = GateId(c)
              /\ pending' = pending \ {c}
              /\ reply' = [reply EXCEPT ![c] = v]
              /\ sending' = sending \cup {c}
BY DEF ResolvePending

(* A button of the bundled console answers nothing: the id it posts is     *)
(* never that of a pending call.                                           *)
LEMMA ButtonTakesNone ==
  ASSUME NEW c, NEW v, ResolvePending(PostedByConsole(c), v)
  PROVE  UNCHANGED gateVars
<1>1. ASSUME NEW d PROVE PostedByConsole(c) # GateId(d)
  BY DEF PostedByConsole, EventId, GateId
<1> QED
  BY <1>1, AnswerTakesOne

(* An answer to the id of a call takes that call's channel or none.        *)
LEMMA PostTakesOwn ==
  ASSUME NEW c, NEW v, ResolvePending(GateId(c), v)
  PROVE  \/ UNCHANGED gateVars
         \/ /\ c \in pending
            /\ pending' = pending \ {c}
            /\ reply' = [reply EXCEPT ![c] = v]
            /\ sending' = sending \cup {c}
<1>1. ASSUME NEW d, GateId(c) = GateId(d) PROVE c = d
  BY <1>1 DEF GateId
<1> QED
  BY <1>1, AnswerTakesOne

-----------------------------------------------------------------------------
(* Every step keeps the invariant.                                         *)
LEMMA NextInv == IInv /\ [Next]_vars => IInv'
<1> SUFFICES ASSUME IInv, [Next]_vars PROVE IInv'
  OBVIOUS
<1> USE ToolCallsAssumption DEF IInv, gateVars, resultVars
<1>1. ASSUME NEW c \in Calls, Call(c) PROVE IInv'
  <2> USE <1>1 DEF Call, Goto, Refused, RiskRequiresConfirmation, riskRank
  <2>1. TypeOK'
    BY DEF TypeOK, Stages
  <2>2. ASSUME NEW d \in Calls PROVE GateInv(d)' /\ ApprovalInv(d)'
    BY DEF TypeOK, GateInv, ApprovalInv, InGate
  <2> QED
    BY <2>1, <2>2
<1>2. ASSUME NEW c \in Calls, Confirm(c) PROVE IInv'
  <2> USE <1>2 DEF Confirm, Goto
  <2>1. TypeOK'
    BY DEF TypeOK, Stages
  <2>2. ASSUME NEW d \in Calls PROVE GateInv(d)' /\ ApprovalInv(d)'
    BY DEF TypeOK, GateInv, ApprovalInv, InGate
  <2> QED
    BY <2>1, <2>2
<1>3. ASSUME NEW c \in Calls, Dispatch(c) PROVE IInv'
  <2> USE <1>3 DEF Dispatch, Goto, Return
  <2>1. TypeOK'
    BY DEF TypeOK, Stages
  <2>2. ASSUME NEW d \in Calls PROVE GateInv(d)' /\ ApprovalInv(d)'
    BY DEF TypeOK, GateInv, ApprovalInv, InGate
  <2> QED
    BY <2>1, <2>2
<1>4. ASSUME NEW c \in Calls, MarkDelivered(c) PROVE IInv'
  <2> USE <1>4 DEF MarkDelivered, Goto, Return
  <2>1. TypeOK'
    BY DEF TypeOK, Stages
  <2>2. ASSUME NEW d \in Calls PROVE GateInv(d)' /\ ApprovalInv(d)'
    BY DEF TypeOK, GateInv, ApprovalInv, InGate
  <2> QED
    BY <2>1, <2>2
<1>5. ASSUME NEW c \in Calls, Replied(c) PROVE IInv'
  <2> USE <1>5 DEF Replied, Goto, Return
  <2>1. TypeOK'
    BY DEF TypeOK, Stages
  <2>2. ASSUME NEW d \in Calls PROVE GateInv(d)' /\ ApprovalInv(d)'
    BY DEF TypeOK, GateInv, ApprovalInv, InGate
  <2> QED
    BY <2>1, <2>2
<1>6. ASSUME NEW c \in Calls, ContextDone(c) PROVE IInv'
  <2> USE <1>6 DEF ContextDone, Goto, Return
  <2>1. TypeOK'
    BY DEF TypeOK, Stages
  <2>2. ASSUME NEW d \in Calls PROVE GateInv(d)' /\ ApprovalInv(d)'
    BY DEF TypeOK, GateInv, ApprovalInv, InGate
  <2> QED
    BY <2>1, <2>2
<1>7. ASSUME NEW c \in Calls, Forget(c) PROVE IInv'
  <2> USE <1>7 DEF Forget, Goto
  <2>1. TypeOK'
    BY DEF TypeOK, Stages
  <2>2. ASSUME NEW d \in Calls PROVE GateInv(d)' /\ ApprovalInv(d)'
    BY DEF TypeOK, GateInv, ApprovalInv, InGate
  <2> QED
    BY <2>1, <2>2
<1>8. ASSUME NEW c \in Calls, Run(c) PROVE IInv'
  <2> USE <1>8 DEF Run, Goto
  <2>1. TypeOK'
    BY DEF TypeOK, Stages
  <2>2. ASSUME NEW d \in Calls PROVE GateInv(d)' /\ ApprovalInv(d)'
    BY DEF TypeOK, GateInv, ApprovalInv, InGate
  <2> QED
    BY <2>1, <2>2
<1>9. ASSUME NEW c \in Calls, Audit(c) PROVE IInv'
  <2> USE <1>9 DEF Audit, Goto
  <2>1. TypeOK'
    BY DEF TypeOK, Stages
  <2>2. ASSUME NEW d \in Calls PROVE GateInv(d)' /\ ApprovalInv(d)'
    BY DEF TypeOK, GateInv, ApprovalInv, InGate
  <2> QED
    BY <2>1, <2>2
<1>10. ASSUME NEW c \in Calls, recordArtifact(c) PROVE IInv'
  <2> USE <1>10 DEF recordArtifact, Goto
  <2>1. TypeOK'
    BY DEF TypeOK, Stages
  <2>2. ASSUME NEW d \in Calls PROVE GateInv(d)' /\ ApprovalInv(d)'
    BY DEF TypeOK, GateInv, ApprovalInv, InGate
  <2> QED
    BY <2>1, <2>2
<1>11. ASSUME NEW c \in Calls, NEW v \in BOOLEAN, Click(c, v) PROVE IInv'
  <2>1. UNCHANGED gateVars
    BY <1>11, ButtonTakesNone DEF Click
  <2>2. TypeOK'
    BY <1>11, <2>1 DEF Click, Say, TypeOK
  <2>3. approvals \subseteq approvals'
    BY <1>11 DEF Click, Say
  <2>4. ASSUME NEW d \in Calls PROVE GateInv(d)' /\ ApprovalInv(d)'
    BY <1>11, <2>1, <2>3 DEF Click, GateInv, ApprovalInv, InGate
  <2> QED
    BY <1>11, <2>2, <2>4 DEF Click
<1>12. ASSUME NEW c \in Calls, NEW v \in BOOLEAN, Post(c, v) PROVE IInv'
  <2>1. \/ UNCHANGED gateVars
        \/ /\ c \in pending
           /\ pending' = pending \ {c}
           /\ reply' = [reply EXCEPT ![c] = v]
           /\ sending' = sending \cup {c}
    BY <1>12, PostTakesOwn DEF Post
  <2>2. TypeOK'
    BY <1>12, <2>1 DEF Post, Say, TypeOK
  <2>3. approvals \subseteq approvals' /\ (v = TRUE => c \in approvals')
    BY <1>12 DEF Post, Say
  <2>4. ASSUME NEW d \in Calls PROVE GateInv(d)' /\ ApprovalInv(d)'
    <3>1. CASE UNCHANGED gateVars
      BY <1>12, <2>3, <3>1 DEF Post, GateInv, ApprovalInv, InGate
    <3>2. CASE ~UNCHANGED gateVars /\ d # c
      BY <1>12, <2>1, <2>3, <3>2 DEF Post, TypeOK, GateInv, ApprovalInv, InGate
    <3>3. CASE ~UNCHANGED gateVars /\ d = c
      <4>1. c \notin pending' /\ reply'[c] = v /\ reply[c] = None /\ InGate(c)
        BY <2>1, <3>3 DEF TypeOK, GateInv
      <4>2. outcome[c] = "approved" => FALSE
        BY <4>1 DEF GateInv
      <4>3. outcome[c] = "rejected" => FALSE
        BY <4>1 DEF GateInv
      <4> QED
        BY <1>12, <2>3, <3>3, <4>1, <4>2, <4>3 DEF Post, GateInv, ApprovalInv, InGate
    <3> QED
      BY <3>1, <3>2, <3>3
  <2> QED
    BY <1>12, <2>2, <2>4 DEF Post
<1>13. ASSUME NEW c \in Calls, Send(c) \/ Expire(c) PROVE IInv'
  <2>1. TypeOK'
    BY <1>13 DEF Send, Expire, TypeOK
  <2>2. ASSUME NEW d \in Calls PROVE GateInv(d)' /\ ApprovalInv(d)'
    BY <1>13 DEF Send, Expire, GateInv, ApprovalInv, InGate
  <2> QED
    BY <1>13, <2>1, <2>2 DEF Send, Expire
<1>14. ASSUME NEW p \in Policies, UseSecurityPolicy(p) PROVE IInv'
  <2>1. updates + 1 \in 0 .. MaxUpdates /\ updates + 1 # 0
    BY <1>14 DEF UseSecurityPolicy, TypeOK
  <2>2. TypeOK'
    BY <1>14, <2>1 DEF UseSecurityPolicy, TypeOK
  <2>3. ASSUME NEW d \in Calls PROVE GateInv(d)' /\ ApprovalInv(d)'
    BY <1>14, <2>1 DEF UseSecurityPolicy, GateInv, ApprovalInv, InGate
  <2> QED
    BY <1>14, <2>1, <2>2, <2>3 DEF UseSecurityPolicy
<1>15. CASE UNCHANGED vars
  BY <1>15 DEF vars, TypeOK, GateInv, ApprovalInv, InGate
<1> QED
  BY <1>1, <1>2, <1>3, <1>4, <1>5, <1>6, <1>7, <1>8, <1>9, <1>10, <1>11, <1>12, <1>13, <1>14, <1>15
     DEF Next, Step, Users

-----------------------------------------------------------------------------
(* The theorems                                                            *)

LEMMA Invariance == Spec => []IInv
BY InitInv, NextInv, PTL DEF Spec

(* Whatever the users answer, whenever a context ends or the policy        *)
(* changes, the variables of a call keep their types (Runtime.Call).       *)
THEOREM TypeCorrect == Spec => []TypeOK
<1>1. IInv => TypeOK
  BY DEF IInv
<1> QED
  BY <1>1, Invariance, PTL

(* For any number of calls and users, no order of answers, duplicates and  *)
(* timeouts gets a high-risk call to its handler without a yes to its own  *)
(* card, as long as the policy that asks for it is in force                *)
(* (Runtime.resolveCapability, webToolConfirmationGate.Confirm).           *)
THEOREM HighRiskNeedsApproval == Spec => []HighRiskRunsApproved
<1>1. IInv => HighRiskRunsApproved
  BY DEF IInv, ApprovalInv, TypeOK, HighRiskRunsApproved
<1> QED
  BY <1>1, Invariance, PTL

-----------------------------------------------------------------------------
(* The gate implements OneShotReply.                                       *)
LEMMA InitReplies == Init => Replies!Init
BY DEF Init, Replies!Init, InGate, LeftGate

(* A step of which the mapping sees nothing: who is in the gate, who left  *)
(* it and with what, and what was sent, stay as they are.                  *)
LEMMA MappedStutter ==
  ASSUME reply' = reply,
         \A c \in Calls : InGate(c)' = InGate(c) /\ LeftGate(c)' = LeftGate(c),
         \A c \in Calls : LeftGate(c) => outcome'[c] = outcome[c]
  PROVE  UNCHANGED Replies!vars
<1>1. \A c \in Calls : (LeftGate(c) \in BOOLEAN) /\ (InGate(c) \in BOOLEAN)
  BY DEF LeftGate, InGate
<1>2. \A c \in Calls : LeftGate(c)' => outcome'[c] = outcome[c]
  OBVIOUS
<1> QED
  BY <1>1, <1>2 DEF Replies!vars

(* Mapped to the abstract channel, every step of the calls, the users and  *)
(* the environment asks, answers or finishes one request, or is a stutter. *)
LEMMA StepReplies == IInv /\ [Next]_vars => [Replies!Next]_(Replies!vars)
<1> SUFFICES ASSUME IInv, [Next]_vars PROVE Replies!Next \/ UNCHANGED Replies!vars
  BY DEF Replies!vars
<1> USE DEF gateVars, resultVars
<1>1. ASSUME NEW c \in Calls, Confirm(c), c \notin expired PROVE Replies!Ask(c)
  <2>1. outcome[c] = "none" /\ outcome' = outcome /\ reply' = reply /\ ~InGate(c)
    BY <1>1 DEF Confirm, IInv, GateInv, InGate
  <2>2. stage' = [stage EXCEPT ![c] = "deliver"]
    BY <1>1 DEF Confirm, Goto
  <2> QED
    BY <2>1, <2>2 DEF Replies!Ask, InGate, LeftGate, IInv, TypeOK
<1>2. ASSUME NEW c \in Calls, Forget(c) PROVE Replies!Finish(c)
  <2>1. outcome[c] # "none" /\ outcome' = outcome /\ reply' = reply
    BY <1>2 DEF Forget, IInv, GateInv
  <2>2. PICK s \in {"run", "audit"} : stage' = [stage EXCEPT ![c] = s]
    BY <1>2 DEF Forget, Goto
  <2>3. InGate(c) /\ ~LeftGate(c) /\ ~InGate(c)' /\ LeftGate(c)'
    BY <1>2, <2>1, <2>2 DEF Forget, InGate, LeftGate, IInv, TypeOK
  <2>4. \A d \in Calls \ {c} : InGate(d)' = InGate(d) /\ LeftGate(d)' = LeftGate(d)
    BY <2>1, <2>2 DEF InGate, LeftGate, IInv, TypeOK
  <2>5. outcome[c] # "error" => (outcome[c] = "approved") = reply[c]
    BY <2>1 DEF IInv, GateInv, TypeOK
  <2> DEFINE phase == [d \in Calls |-> IF InGate(d) THEN "open" ELSE IF LeftGate(d) THEN "closed" ELSE "idle"]
             got == [d \in Calls |-> IF ~LeftGate(d) \/ outcome[d] = "error" THEN None ELSE outcome[d] = "approved"]
  <2>6. phase[c] = "open" /\ phase' = [phase EXCEPT ![c] = "closed"]
    BY <2>3, <2>4
  <2>7. outcome[c] = "error" => got' = got
    BY <2>1, <2>3, <2>4
  <2>8. outcome[c] # "error" => got' = [got EXCEPT ![c] = reply[c]]
    BY <2>1, <2>3, <2>4, <2>5
  <2> QED
    BY <2>1, <2>6, <2>7, <2>8 DEF Replies!Finish
<1>3. ASSUME NEW c \in Calls, NEW v \in BOOLEAN, Post(c, v)
      PROVE  Replies!Answer(c) \/ UNCHANGED Replies!vars
  <2>1. CASE UNCHANGED gateVars
    BY <1>3, <2>1, MappedStutter DEF Post, InGate, LeftGate
  <2>2. CASE c \in pending /\ reply' = [reply EXCEPT ![c] = v]
    BY <1>3, <2>2 DEF Post, Replies!Answer, IInv, GateInv, InGate, LeftGate
  <2> QED
    BY <1>3, <2>1, <2>2, PostTakesOwn DEF Post
<1>4. ASSUME NEW c \in Calls, Call(c) \/ (Confirm(c) /\ c \in expired) \/ Run(c) \/ Audit(c) \/ recordArtifact(c)
      PROVE  UNCHANGED Replies!vars
  <2>1. ~InGate(c) /\ reply' = reply /\ outcome' = outcome
    BY <1>4 DEF Call, Confirm, Run, Audit, recordArtifact, InGate
  <2>2. PICK s \in Stages \ {"deliver", "mark", "wait", "forget"} : stage' = [stage EXCEPT ![c] = s]
    BY <1>4 DEF Call, Confirm, Run, Audit, recordArtifact, Goto, Stages
  <2>3. \A d \in Calls : InGate(d)' = InGate(d)
    BY <2>1, <2>2 DEF InGate, IInv, TypeOK
  <2> QED
    BY <2>1, <2>3, MappedStutter DEF LeftGate
<1>5. ASSUME NEW c \in Calls, Dispatch(c) \/ MarkDelivered(c) \/ Replied(c) \/ ContextDone(c)
      PROVE  UNCHANGED Replies!vars
  <2>1. InGate(c) /\ reply' = reply
    BY <1>5 DEF Dispatch, MarkDelivered, Replied, ContextDone, InGate
  <2>2. PICK s \in {"mark", "wait", "forget"} : stage' = [stage EXCEPT ![c] = s]
    BY <1>5 DEF Dispatch, MarkDelivered, Replied, ContextDone, Return, Goto
  <2>3. \A d \in Calls : InGate(d)' = InGate(d)
    BY <2>1, <2>2 DEF InGate, IInv, TypeOK
  <2>4. \A d \in Calls \ {c} : outcome'[d] = outcome[d]
    BY <1>5 DEF Dispatch, MarkDelivered, Replied, ContextDone, Return, IInv, TypeOK
  <2>5. ~LeftGate(c) /\ ~LeftGate(c)'
    BY <2>1, <2>3 DEF LeftGate
  <2>6. \A d \in Calls : LeftGate(d)' = LeftGate(d)
    BY <2>3, <2>4, <2>5 DEF LeftGate
  <2> QED
    BY <2>1, <2>3, <2>4, <2>5, <2>6, MappedStutter
<1>6. ASSUME NEW c \in Calls, NEW v \in BOOLEAN, Click(c, v) PROVE UNCHANGED Replies!vars
  <2>1. UNCHANGED <<gateVars, stage, outcome>>
    BY <1>6, ButtonTakesNone DEF Click
  <2> QED
    BY <2>1, MappedStutter DEF InGate, LeftGate
<1>7. ASSUME UNCHANGED <<stage, reply, outcome>> PROVE UNCHANGED Replies!vars
  BY <1>7, MappedStutter DEF InGate, LeftGate
<1>8. ASSUME NEW c \in Calls, Send(c) \/ Expire(c) PROVE UNCHANGED Replies!vars
  BY <1>7, <1>8 DEF Send, Expire
<1>9. ASSUME NEW p \in Policies, UseSecurityPolicy(p) PROVE UNCHANGED Replies!vars
  BY <1>7, <1>9 DEF UseSecurityPolicy
<1>10. CASE UNCHANGED vars
  BY <1>7, <1>10 DEF vars
<1> QED
  BY <1>1, <1>2, <1>3, <1>4, <1>5, <1>6, <1>8, <1>9, <1>10 DEF Next, Step, Users, Replies!Next

(* For any number of calls, users and timeouts, a confirmation takes at    *)
(* most one answer, while its call is in the gate, and the call leaves     *)
(* with that answer or with none (webToolConfirmationGate).                *)
THEOREM GateRepliesOnce == Spec => ConfirmsOnce
<1>1. Init => Replies!Init
  BY InitReplies
<1>2. IInv /\ [Next]_vars => [Replies!Next]_(Replies!vars)
  BY StepReplies
<1> QED
  BY <1>1, <1>2, Invariance, PTL DEF Spec, ConfirmsOnce, Replies!Spec
=============================================================================
