----------------------------- MODULE MCGateway -----------------------------
(* Gateway on a small catalog: two routes below the reference, one strong  *)
(* metered route and one plan route.                                       *)
EXTENDS Gateway, TLC

CONSTANTS tiny, small, mid, large, plan, t1, t2

Table(f) == [r \in Route |-> f[r]]

MCCapability == Table(tiny :> 8 @@ small :> 10 @@ mid :> 15 @@ large :> 20 @@ plan :> 24)
MCLevel      == Table(tiny :> 1 @@ small :> 1 @@ mid :> 2 @@ large :> 3 @@ plan :> 3)
MCMaxOutput  == Table(tiny :> 1 @@ small :> 2 @@ mid :> 1 @@ large :> 2 @@ plan :> 2)
MCContext    == Table(tiny :> 1 @@ small :> 1 @@ mid :> 1 @@ large :> 2 @@ plan :> 2)
=============================================================================
