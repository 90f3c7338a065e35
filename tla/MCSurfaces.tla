----------------------------- MODULE MCSurfaces -----------------------------
(* Surfaces with two routes below the reference, one of the cheap tier, one  *)
(* strong route of a Responses provider and the plan.                        *)
EXTENDS Surfaces, TLC

CONSTANTS small, mid, bargain, large, plan, none

MCCapability == small :> 8 @@ mid :> 13 @@ bargain :> 10 @@ large :> 20 @@ plan :> 24

Say(text, call, named, args) ==
  [EmptyLine EXCEPT !.text = text, !.call = call, !.named = named, !.args = args]

\* Text, a tool call in one piece, one in fragments, arguments without a name,
\* and the three ways to finish.
MCShapes ==
  {EmptyLine, Say(TRUE, none, FALSE, FALSE), Say(FALSE, 0, TRUE, TRUE),
   Say(TRUE, 1, FALSE, FALSE), Say(FALSE, 1, TRUE, FALSE), Say(FALSE, 1, FALSE, TRUE)}
  \cup {[EmptyLine EXCEPT !.finish = f] : f \in {"stop", "length", "tool_calls"}}
=============================================================================
