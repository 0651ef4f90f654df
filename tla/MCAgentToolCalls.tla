---- MODULE MCAgentToolCalls ----
(* The Turns of AgentToolCalls that TLC checks. *)
EXTENDS AgentToolCalls, TLC

CONSTANTS c1, c2

Turn(kind, signature, message, calls, repeated) ==
  [kind |-> kind, signature |-> signature, message |-> message, maxToolCalls |-> calls,
   maxRepeated |-> repeated]

Own == c1 :> c1 @@ c2 :> c2
Shared == c1 :> c1 @@ c2 :> c1
Together == c1 :> 1 @@ c2 :> 1
InTurn == c1 :> 1 @@ c2 :> 2

\* A remote tool beside one without a stored result, within the budget and
\* beyond it; a Project tool called twice with the same arguments, which is
\* one effect; a tool repeated beyond the limit; two submitted files, under two
\* names and under one.
MixedTurns ==
  {Turn(c1 :> "mcp" @@ c2 :> "plain", Own, Together, 2, 1),
   Turn(c1 :> "mcp" @@ c2 :> "plain", Own, Together, 1, 1),
   Turn(c1 :> "project" @@ c2 :> "project", Shared, Together, 2, 2),
   Turn(c1 :> "plain" @@ c2 :> "plain", Shared, Together, 2, 1),
   Turn(c1 :> "artifact" @@ c2 :> "artifact", Own, InTurn, 2, 1),
   Turn(c1 :> "artifact" @@ c2 :> "artifact", Shared, InTurn, 2, 2)}

WorkerSymmetry == Permutations(Workers)
====
