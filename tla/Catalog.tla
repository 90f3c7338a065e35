------------------------------ MODULE Catalog -------------------------------
(***************************************************************************)
(* What the router knows about a route (catalog.py), what a call on it     *)
(* costs and how likely it is to get a turn right (economics.py,           *)
(* pricing.py). Pure operators on the record of a route; no state.         *)
(*                                                                         *)
(* Probabilities, rates and multipliers are whole tenths, capabilities     *)
(* whole points, amounts whole tenths of a price unit; divisions round     *)
(* down. The logistic function is the constant Logistic, of which only its *)
(* monotony is used; a logarithm is a number of whole steps of base three. *)
(***************************************************************************)
EXTENDS Values, Integers, FiniteSets

CONSTANT Logistic

ASSUME LogisticRises ==
  /\ Logistic \in [-5..5 -> 0..10]
  /\ \A z \in -5..4 : Logistic[z] <= Logistic[z + 1]

Least(a, b) == IF a <= b THEN a ELSE b
Most(a, b)  == IF a >= b THEN a ELSE b
Within(lo, x, hi) == Most(lo, Least(hi, x))
----------------------------------------------------------------------------
(* Evidence *)

Weight == [direct |-> 10, derived |-> 6, weak |-> 4, none |-> 0]

Category == {"coding", "agentic", "math", "knowledge", "long_context", "tool_use",
             "design", "summarisation", "general"}

Prices == [in : Nat, out : Nat, read : Nat \cup {None}, write : Nat \cup {None}]

CacheRules == [ttl : Nat, min : Nat, hit : 0..10]

\* The fields of a route that decide anything. `key` is what its measurements
\* are filed under, `override` the categories the operator stated.
IsModelInfo(m) ==
  /\ {"prices", "cache"} \subseteq DOMAIN m /\ m.key \in STRING
  /\ m.prices \in Prices /\ m.cache \in CacheRules
  /\ m.context \in Nat /\ m.maxOutput \in Nat
  /\ m.vision \in BOOLEAN /\ m.tools \in BOOLEAN /\ m.stale \in BOOLEAN
  /\ DOMAIN m.capability \subseteq Category
  /\ \A c \in DOMAIN m.capability : m.capability[c] \in 0..100
  /\ \A c \in DOMAIN m.strength : c \in Category /\ m.strength[c] \in DOMAIN Weight
  /\ m.override \subseteq Category
  /\ {m.plan, m.reference} \subseteq STRING \cup {None}
  /\ m.benchmaxxing \in Int /\ m.latency \in Nat /\ m.appetite \in Nat
  /\ m.taskTokens \in Nat \cup {None}

\* `override` are the categories whose basis is CONFIG_OVERRIDE.
EvidenceStrength(m, category) ==
  LET noted(default) == IF category \in DOMAIN m.strength THEN m.strength[category] ELSE default
  IN IF category \notin DOMAIN m.capability THEN "none"
     ELSE IF category \in m.override THEN noted("direct")
     ELSE IF m.stale THEN IF noted("none") = "direct" THEN "weak" ELSE "none"
     ELSE noted("derived")

Neutral == 50

\* discount in percent; benchmaxxing_weight is its default, one half.
Cap(m, category, discount) ==
  LET base   == IF category \in DOMAIN m.capability THEN m.capability[category]
                ELSE IF "general" \in DOMAIN m.capability THEN m.capability["general"]
                ELSE Neutral
      score  == base - Most(0, m.benchmaxxing) \div 2
      shrink == discount * (10 - Weight[EvidenceStrength(m, category)])
  IN (score * (1000 - shrink) + Neutral * shrink) \div 1000

\* Catalog.eligible, for one route.
Eligible(m, vision, tools, prompt) ==
  /\ vision => m.vision
  /\ tools => m.tools
  /\ 10 * prompt <= 9 * m.context
----------------------------------------------------------------------------
(* Cost *)

Free == [in |-> 0, out |-> 0, read |-> 0, write |-> 0]

IsFree(p) == p.in = 0 /\ p.out = 0
ReadPrice(p)  == IF p.read = None THEN p.in ELSE p.read
WritePrice(p) == IF p.write = None THEN p.in ELSE p.write

\* `safety` is the 15 s by which a cache is taken to end early.
IsWarm(m, at, now, safety) ==
  /\ m.cache.ttl > 0
  /\ now - at <= Most(0, m.cache.ttl - safety)

\* Every price but the plain one is multiplied by the hit rate's ten.
TurnCost(m, prompt, warmTokens, output) ==
  LET p    == m.prices
      warm == Within(0, warmTokens, prompt)
  IN IF IsFree(p) THEN 0
     ELSE IF prompt < m.cache.min THEN 10 * (prompt * p.in + output * p.out)
     ELSE   warm * (m.cache.hit * ReadPrice(p) + (10 - m.cache.hit) * WritePrice(p))
          + 10 * ((prompt - warm) * WritePrice(p) + output * p.out)

HorizonCost(m, prompt, warm, output, turns, growth) ==
  TurnCost(m, prompt, warm, output)
    + Most(0, turns - 1) * TurnCost(m, prompt + growth, prompt + output, output)

\* OpenAI counts the cached tokens in prompt_tokens, Anthropic beside it.
OpenAIUsage(u) == [uncached |-> Most(0, u.prompt - u.cached - u.written),
                   read |-> u.cached, written |-> u.written, output |-> u.output]

AnthropicUsage(u) == [uncached |-> u.prompt, read |-> u.cached,
                      written |-> u.written, output |-> u.output]

TotalInput(usage) == usage.uncached + usage.read + usage.written
----------------------------------------------------------------------------
(* Success *)

\* SuccessModel's defaults, with a table of measured cells.
SuccessV1(measured) ==
  [offset |-> 20, slope |-> 5, scale |-> 6, floor |-> 0, ceiling |-> 10,
   discount |-> 35, measured |-> measured, priorN |-> None, measuredN |-> 6,
   lengthPenalty |-> 0, smooth |-> FALSE]

\* success_v2: a penalty on length, a smooth ceiling, and cells that only
\* move the curve.
SuccessV2(measured) ==
  [SuccessV1(measured) EXCEPT !.priorN = 6, !.lengthPenalty = 1, !.smooth = TRUE,
                              !.ceiling = 9, !.floor = 1]

Bucket(d) == IF d < 4 THEN "easy" ELSE IF d < 7 THEN "medium" ELSE "hard"

\* How many times over a exceeds b, in steps of three, held within -2..3.
LogRatio(a, b) ==
  IF 3 * a < b THEN -2 ELSE IF a < b THEN -1 ELSE IF a < 3 * b THEN 0
  ELSE IF a < 9 * b THEN 1 ELSE IF a < 27 * b THEN 2 ELSE 3

\* maxTokens is never given by the router: the route's own ceiling counts.
Curve(s, m, category, d) ==
  LET raw   == (Cap(m, category, s.discount) - (s.offset + s.slope * d)) \div s.scale
      cut   == IF m.taskTokens = None THEN 0
               ELSE s.lengthPenalty * LogRatio(Most(m.taskTokens, 1), Most(m.maxOutput, 1))
      value == Logistic[Within(-5, raw - cut, 5)]
  IN IF s.smooth THEN s.floor + ((s.ceiling - s.floor) * value) \div 10
     ELSE Within(s.floor, value, s.ceiling)

WithCell(s, cell, curve) ==
  IF cell \notin DOMAIN s.measured THEN curve
  ELSE IF s.priorN = None THEN s.measured[cell]
  ELSE (s.priorN * curve + s.measuredN * s.measured[cell]) \div (s.priorN + s.measuredN)

P(s, m, category, d) ==
  WithCell(s, <<m.key, category, Bucket(d)>>, Curve(s, m, category, d))

\* The difficulty at which m succeeds half of the time.
DifficultyAt(s, m, category) ==
  Within(0, (Cap(m, category, s.discount) - s.offset) \div s.slope, 10)
=============================================================================
