---------------------------- MODULE MCToolCalls ----------------------------
(***************************************************************************)
(* ToolCalls for TLC: a high-risk call beside a call of any other kind.    *)
(***************************************************************************)
EXTENDS ToolCalls

CONSTANTS c1, c2

MCRequested == {[c \in Calls |-> IF c = c1 THEN "commit" ELSE t] : t \in Tools}

(* Everything asked for, with and without an allowlist, and nothing asked. *)
MCPolicies == {p \in AllPolicies : p.allowShell <=> p.threshold = 0} \ {[allowShell |-> TRUE, allowlist |-> TRUE, threshold |-> 0]}
=============================================================================
