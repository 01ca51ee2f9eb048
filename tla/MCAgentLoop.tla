---------------------------- MODULE MCAgentLoop ----------------------------
(* Two envelopes at one place in the channel: one of them blocks its sender, *)
(* or waits while the loop works on the other.                               *)
EXTENDS AgentLoop

=============================================================================
