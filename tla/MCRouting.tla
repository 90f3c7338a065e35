----------------------------- MODULE MCRouting -----------------------------
(* Routing with a cheap and a strong priced route and two plans, one of    *)
(* which gives access to the strong route's model.                         *)
EXTENDS Routing, TLC
CONSTANTS cheap, strong, pa, pb
Caps(c, g1) == [coding |-> c, general |-> g1]
Base == [key |-> "cheap", vision |-> FALSE, tools |-> TRUE, context |-> 20, maxOutput |-> 4,
         capability |-> Caps(40, 45), override |-> {}, strength |-> [coding |-> "derived"],
         stale |-> FALSE, benchmaxxing |-> 2, latency |-> 1, appetite |-> 10, taskTokens |-> None,
         plan |-> None, reference |-> None,
         prices |-> [in |-> 1, out |-> 2, read |-> None, write |-> None],
         cache |-> [ttl |-> 2, min |-> 4, hit |-> 9]]
MCModel ==
     cheap  :> Base
  @@ strong :> [Base EXCEPT !.key = "strong", !.vision = TRUE, !.context = 40, !.maxOutput = 8,
                            !.capability = Caps(64, 60), !.override = {"coding"}, !.taskTokens = 12,
                            !.prices = [in |-> 6, out |-> 20, read |-> 1, write |-> 7]]
  @@ pa     :> [Base EXCEPT !.key = "strong", !.capability = Caps(60, 58), !.plan = "a", !.reference = "strong",
                            !.prices = Free, !.appetite = 15, !.context = 40]
  @@ pb     :> [Base EXCEPT !.key = "pb", !.capability = Caps(55, 50), !.stale = TRUE, !.plan = "b",
                            !.prices = Free, !.latency = 4]
MCLogistic == [z \in -5..5 |-> 5 + z]
Ask(cat, d, stakes, tools, follow) ==
  [category |-> cat, difficulty |-> d, stakes |-> stakes, tools |-> tools, vision |-> FALSE,
   followUp |-> follow, confidence |-> 8]
T(ask, prompt) == [ask |-> ask, prompt |-> prompt, stated |-> None, tools |-> FALSE,
                   exclude |-> FALSE, continues |-> FALSE, errors |-> FALSE, cut |-> FALSE]
MCTurns == {T(Ask("coding", 2, 2, FALSE, 8), 8), T(Ask("coding", 8, 3, FALSE, 2), 12),
            [T(Ask("general", 4, 1, TRUE, 5), 3) EXCEPT !.tools = TRUE, !.exclude = TRUE],
            [T(Ask("coding", 3, 2, FALSE, 8), 30) EXCEPT !.stated = 6],
            [T(Ask("coding", 2, 2, FALSE, 8), 8) EXCEPT !.cut = TRUE],
            [T(None, 10) EXCEPT !.continues = TRUE, !.tools = TRUE, !.errors = TRUE],
            [T(None, 10) EXCEPT !.continues = TRUE, !.tools = TRUE]}
J(tier, force) == [ask |-> Ask("coding", 5, 2, TRUE, 5), prompt |-> 6, only |-> {strong, pa, pb},
                   tier |-> tier, force |-> force]
MCJobs == {J("auto", None), J("cheap", None), J("strong", None), J("auto", pb),
           [J("cheap", None) EXCEPT !.only = {pa, pb}, !.ask = None]}
Full(a, b) == "a" :> a @@ "b" :> b
Cells == <<"strong", "coding", "hard">> :> 8
Setup(policy, success, full, turns, jobs, bound) ==
  [policy |-> policy, success |-> success, full |-> full, turns |-> turns, jobs |-> jobs,
   bound |-> bound]
\* The last one is long enough for a floor to rise, decay and count.
MCSetups ==
       {Setup(p, SuccessV1(Cells), Full(9, 0), MCTurns, {}, 1) : p \in {"A_static", "B_naive"}}
  \cup {Setup(p, SuccessV1(Cells), Full(9, 0), {t \in MCTurns : t.stated = None}, {}, 2) : p \in {"C_ev_switch", "D_escalate"}}
  \cup {Setup("E_escalate_sub", SuccessV2(Cells), Full(9, 0), {t \in MCTurns : ~t.cut /\ ~t.errors}, MCJobs, 2),
        Setup("F_expected", SuccessV2(Cells), Full(1, 9), MCTurns, MCJobs, 2),
        Setup("F_expected", SuccessV1(Cells), Full(9, 0),
              {[T(Ask("coding", d, 4, FALSE, 10), 8) EXCEPT !.exclude = TRUE] : d \in {2, 8}}
              \cup {[T(None, 10) EXCEPT !.continues = TRUE, !.errors = TRUE]}, {}, 3)}
MCPaid == [route |-> strong, least |-> 6]
=============================================================================
