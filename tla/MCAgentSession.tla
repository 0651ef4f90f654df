---------------------------- MODULE MCAgentSession ----------------------------
(* AgentSession with three kinds of behaviour: browser controls between      *)
(* Turns; a double click among the messages while profiles change; and       *)
(* attachments.                                                              *)
EXTENDS AgentSession

MCBounds ==
  {[requests |-> {1, 2}, uploads |-> {}, leases |-> 2, revisions |-> 0, controls |-> 2],
   [requests |-> {1, 2, 3}, uploads |-> {}, leases |-> 0, revisions |-> 1, controls |-> 0],
   [requests |-> {1, 2}, uploads |-> {1, 2}, leases |-> 0, revisions |-> 0, controls |-> 0]}
=============================================================================
