------------------------------ MODULE Routing ------------------------------
(***************************************************************************)
(* What one conversation is routed to over its turns, and what one         *)
(* launched job is: the six policies (policies.py), the pacing of plans    *)
(* and its two caches (quota.py), and the decision record (router.py,      *)
(* decision.py).                                                           *)
(*                                                                         *)
(* The numbers are computed here; what happens inside a turn after its     *)
(* route is chosen, and all interleavings of it, is Gateway. A decision    *)
(* (`Router.route`) is one step. Time passes between steps.                *)
(***************************************************************************)
EXTENDS Catalog, Functions

CONSTANTS
  Model,        \* route -> its ModelInfo
  Checked,      \* routes whose answers the judge would be asked about
  Setups,       \* a policy, its success model, when each plan runs full, and
                \* the requests there may be, `bound` of them at most
  PaidRule,     \* None or [route |-> .., least |-> ..]
  Margin,       \* switch_margin, in percent
  Safety,       \* seconds a provider's cache is taken to end early
  HalfLife,     \* of the difficulty memory
  QuotaTTL, CommandTTL, Staleness, \* router cache, reader cache, max_staleness_s
  WeekEnds,     \* when every plan's week ends
  MaxNow        \* bound on the clock

Names == DOMAIN Model
PlanName == {Model[r].plan : r \in Names} \ {None}

\* A reference nowhere to be found counts as None.
ASSUME Models ==
  /\ IsFiniteSet(Names) /\ None \notin Names
  /\ \A r \in Names : IsModelInfo(Model[r]) /\ Model[r].reference \in Names \cup {None}

ASSUME RoutingNumbers ==
  /\ {Margin, Safety, QuotaTTL, CommandTTL, Staleness, WeekEnds} \subseteq Nat
  /\ HalfLife \in Nat \ {0}

\* The least a prompt is estimated at is one token.
IsAsk(a) ==
  /\ a.category \in Category /\ {a.difficulty, a.followUp, a.confidence} \subseteq 0..10
  /\ a.stakes \in 1..4 /\ {a.tools, a.vision} \subseteq BOOLEAN

IsTurn(t) ==
  /\ t.ask = None \/ IsAsk(t.ask)
  /\ t.prompt \in Nat \ {0} /\ t.stated \in Nat \cup {None}
  /\ {t.tools, t.exclude, t.continues, t.errors, t.cut} \subseteq BOOLEAN

IsJob(j) ==
  /\ j.ask = None \/ IsAsk(j.ask)
  /\ j.prompt \in Nat \ {0} /\ j.only \subseteq Names
  /\ j.tier \in {"auto", "cheap", "strong"} /\ j.force \in Names \cup {None}

IsSuccess(s) ==
  /\ {s.offset, s.floor, s.ceiling, s.discount, s.lengthPenalty} \subseteq Int
  /\ {s.slope, s.scale, s.measuredN} \subseteq Nat \ {0}
  /\ s.priorN \in Nat \cup {None} /\ s.smooth \in BOOLEAN
  /\ \A cell \in DOMAIN s.measured : s.measured[cell] \in Int

PolicyName == {"A_static", "B_naive", "C_ev_switch", "D_escalate", "E_escalate_sub", "F_expected"}

IsSetup(s) ==
  /\ s.policy \in PolicyName /\ IsSuccess(s.success)
  /\ s.full \in [PlanName -> Int]
  /\ \A t \in s.turns : IsTurn(t)
  /\ \A j \in s.jobs : IsJob(j)

ASSUME SetupsTyped == \A s \in Setups : IsSetup(s)

VARIABLE g      \* the router and what is around it

Infinite == 1000000
Week == 10      \* ticks in a week
HardStop == 8
SessionStop == 7

\* The member of S with the least F, G breaking ties; further ties are
\* settled by the catalog's order in the code and by CHOOSE here.
LeastKey(keyed) ==
  CHOOSE k \in keyed : \A x \in keyed : k[1] < x[1] \/ (k[1] = x[1] /\ k[2] <= x[2])

First(S, F(_), G(_)) == LeastKey({<<F(m), G(m), m>> : m \in S})[3]

Zero(m) == 0
----------------------------------------------------------------------------
(* Pacing *)

Closed == [open |-> FALSE, multiplier |-> 10]

\* decide: a reading is [used, session, resets, at] in tenths and ticks.
Decide(reading, now) ==
  IF reading = None THEN Closed
  ELSE IF now - reading.at > Staleness THEN Closed
  ELSE IF reading.used >= HardStop THEN Closed
  ELSE IF reading.session >= SessionStop THEN Closed
  ELSE LET remaining == Most(0, reading.resets - now)
           elapsed   == Most(1, Week - remaining)
           projected == (10 * reading.used * (elapsed + remaining)) \div elapsed
           reserve   == IF remaining <= 2 THEN 85 ELSE 65
           slack     == reserve - projected
       IN IF slack <= 0 THEN Closed
          ELSE [open |-> TRUE, multiplier |-> IF slack >= 15 THEN 0 ELSE 10 - (10 * slack) \div 15]

Use(s, p, t) == IF t >= s.c.full[p] THEN 9 ELSE 4

QuotaState(s, p, t) == [used |-> Use(s, p, t), session |-> 0, resets |-> WeekEnds, at |-> t]

\* Mutant: one entry per command, whichever plan is asked about.
CommandKeyOfAll(plan) == CHOOSE p \in PlanName : TRUE

\* from_command: what the usage command says of a plan, its own cache being
\* kept per command and plan. `said` is when what it prints was measured,
\* None when it fails.
CommandKey(plan) == plan

Asked(s, said) ==
  [p \in PlanName |->
     LET kept == s.commands[p]
     IN IF kept # None /\ s.now - kept.at < CommandTTL THEN kept
        ELSE [at |-> s.now, state |-> IF said = None THEN None ELSE QuotaState(s, p, said)]]

\* The budget file, or the client's own log, was written at the start.
BudgetFile(s, p) == QuotaState(s, p, 0)

\* _read_quota: the command is the truth, a file its fallback.
ReadQuota(s, commands) ==
  [p \in PlanName |->
     LET asked == commands[CommandKey(p)].state
     IN Decide(IF asked # None THEN asked ELSE BudgetFile(s, p), s.now)]

WithCommands(s, commands) ==
  [s EXCEPT !.commands = commands, !.quota = [at |-> s.now, plans |-> ReadQuota(s, commands)]]

\* Router.quota: decisions are kept for a while.
Refreshed(s, said) ==
  IF s.now - s.quota.at <= QuotaTTL THEN s
  ELSE WithCommands(s, Asked(s, said))
----------------------------------------------------------------------------
(* Candidates and prices *)

\* _priced: a plan costs its pacing multiplier times its reference's list
\* price. ctx.routes are the candidates, references are looked up anywhere.
PlanOpen(m, ctx) == m.plan = None \/ ctx.quota[m.plan].open

Scaled(price, by) == IF price = None THEN None ELSE (price * by) \div 10

Priced(m, ctx) ==
  IF m.plan = None \/ m.reference = None \/ ctx.quota[m.plan].multiplier = 0 THEN m
  ELSE LET ref == Model[m.reference]
           by  == ctx.quota[m.plan].multiplier
       IN [m EXCEPT !.prices = [k \in DOMAIN ref.prices |-> Scaled(ref.prices[k], by)],
                    !.cache = ref.cache]

WarmTokens(conv, r, now) ==
  LET w == conv.warm[r]
  IN IF w # None /\ IsWarm(Model[r], w.at, now, Safety) THEN w.tokens ELSE 0

\* turn_call_cost: `steps` calls, each after the first on a warm prefix.
CallsCost(m, req, warm, per) ==
  LET prompt(i) == req.prompt + i * req.growth
      cost[i \in 0..req.steps] ==
        IF i = 0 THEN 0
        ELSE cost[i - 1] + TurnCost(m, prompt(i - 1),
                                    IF i = 1 THEN warm ELSE prompt(i - 2) + per, per)
  IN cost[req.steps]

TurnCallCost(r, req, warm, ctx) ==
  IF ~ PlanOpen(Model[r], ctx) THEN Infinite
  ELSE CallsCost(Priced(Model[r], ctx), req, warm,
                 Most(1, ((req.output * Model[r].appetite) \div 10) \div Most(1, req.steps)))

CallCost(r, conv, req, ctx) == TurnCallCost(r, req, WarmTokens(conv, r, req.now), ctx)

EligibleOr(fitting, usable) ==
  IF fitting # {} THEN fitting
  ELSE {r \in usable : \A x \in usable : Model[r].context >= Model[x].context}

FittingIn(usable, req) ==
  EligibleOr({r \in usable : Eligible(Model[r], req.vision, req.tools, req.prompt)}, usable)

Candidates(req, ctx, plansToo) ==
  FittingIn({r \in ctx.routes : Model[r].plan = None \/ (plansToo /\ PlanOpen(Model[r], ctx))}, req)

ListBlended(r) == 8 * Model[r].prices.in + 2 * Model[r].prices.out

RawCap(r, category) == Cap(Model[r], category, 0)

\* None stands for NoRouteAvailable.
Strongest(pool, category) ==
  IF pool = {} THEN None
  ELSE First(pool, LAMBDA r : -RawCap(r, category), ListBlended)
----------------------------------------------------------------------------
(* Policies *)

PlansAllowed(policy) == policy \in {"E_escalate_sub", "F_expected"}
Remembers(policy)    == policy \in {"D_escalate", "E_escalate_sub", "F_expected"}

\* The difficulty memory, as a plain follow-up and decayed by whole
\* half-lives.
Lifted(req, floor) == req.difficulty + (Most(0, floor - req.difficulty) * req.followUp) \div 10

EffectiveDifficulty(conv, req) == Lifted(req, conv.floor)

Halved(x, n) == LET h[i \in 0..n] == IF i = 0 THEN x ELSE h[i - 1] \div 2 IN h[n]

DecayedFloor(conv, now) == Halved(conv.floor, Most(0, now - conv.floorAt) \div HalfLife)

Success(c, r, req, d) == P(c.success, Model[r], req.category, d)

\* NaivePolicy.target, for policies B and C.
TargetIn(c, req, pool, ok) ==
  IF pool = {} THEN None
  ELSE IF ok = {} THEN First(pool, LAMBDA r : -Success(c, r, req, req.difficulty), ListBlended)
  ELSE First(ok, ListBlended, LAMBDA r : -RawCap(r, req.category))

Reaching(c, req, pool, bar) == {r \in pool : Success(c, r, req, req.difficulty) >= bar}

TargetAmong(c, req, pool, bar) == TargetIn(c, req, pool, Reaching(c, req, pool, bar))

Target(c, req, ctx, bar) == TargetAmong(c, req, Candidates(req, ctx, FALSE), bar)

\* _downgrade: leave `current` only if the saving beats the risk.
RiskOf(p, redo, req) == ((10 - p) * (10 * redo + (10 - req.detect) * req.stakes)) \div 100

Downgrade(c, conv, req, current, target, d) ==
  LET cost[r \in {current, target}] ==
        HorizonCost(Model[r], req.prompt, WarmTokens(conv, r, req.now), req.output,
                    IF c.policy = "F_expected" THEN 3 ELSE 4, req.growth * req.steps)
  IN IF cost[current] - cost[target]
          > RiskOf(Success(c, target, req, d), TurnCost(Model[current], req.prompt, 0, req.output), req)
     THEN target ELSE current

LeaveFor(c, conv, req, ctx, target) ==
  IF target = None \/ conv.current \notin ctx.routes \/ conv.current = target THEN target
  ELSE IF RawCap(target, req.category) > RawCap(conv.current, req.category) THEN target
  ELSE Downgrade(c, conv, req, conv.current, target, req.difficulty)

ChooseC(c, conv, req, ctx) == LeaveFor(c, conv, req, ctx, Target(c, req, ctx, 8))

Cheapest(c, conv, req, ctx, pool, ok) ==
  IF ok = {} THEN Strongest(pool, req.category)
  ELSE First(ok, LAMBDA r : CallCost(r, conv, req, ctx), LAMBDA r : -RawCap(r, req.category))

StayOr(c, conv, req, pool, d, cheapest) ==
  IF cheapest = None \/ conv.current \notin pool \/ conv.current = cheapest THEN cheapest
  ELSE IF RawCap(cheapest, req.category) > RawCap(conv.current, req.category) THEN cheapest
  ELSE IF WarmTokens(conv, conv.current, req.now) = 0 THEN cheapest
  ELSE Downgrade(c, conv, req, conv.current, cheapest, d)

ChooseAmong(c, conv, req, ctx, pool, d) ==
  StayOr(c, conv, req, pool, d,
         Cheapest(c, conv, req, ctx, pool, {r \in pool : Success(c, r, req, d) >= 6}))

ChooseDE(c, conv, req, ctx) ==
  ChooseAmong(c, conv, req, ctx, Candidates(req, ctx, PlansAllowed(c.policy)),
              Lifted(req, DecayedFloor(conv, req.now)))

\* ExpectedCostPolicy.value. The judge's measured rates are verify.py's
\* defaults in tenths.
Catch == 5
FalseFlag == 1
Fix == 5
JudgeUsd == 1

\* What the candidates cost, can and promise; `again` is the route a failure
\* on k would be retried on.
Offers(c, conv, req, ctx, d, pool) ==
  {[route |-> r, cost |-> CallCost(r, conv, req, ctx), p |-> Success(c, r, req, d),
    cap |-> RawCap(r, req.category)] : r \in pool}

\* A failure that is noticed costs a retry; the judge's own catches among
\* them are fixed less often than a user's.
Retried(k, again, req) ==
  LET asked    == (10 - req.detect) * Catch
      share    == asked + 10 * req.detect
      ordinary == again.cost + ((10 - again.p) * (10 - req.detect) * req.stakes) \div 100
      judged   == again.cost + ((10 - Fix) * req.stakes) \div 10
  IN [call |-> again.cost,
      usd |-> IF k.route \in Checked THEN ((share - asked) * ordinary + asked * judged) \div share
              ELSE ordinary]

Retry(k, stronger, req) ==
  IF stronger = {} THEN [call |-> k.cost, usd |-> k.cost + ((10 - k.p) * req.stakes) \div 10]
  ELSE Retried(k, First(stronger, LAMBDA x : -((1000 * x.p) \div Most(x.cost, 1)), Zero), req)

Fail(k, retry, detect, req) ==
  ((10 - k.p) * (detect * retry.usd + (10 - detect) * req.stakes)) \div 100

CheckedCall(k, retry) ==
  k.cost + IF k.route \in Checked THEN JudgeUsd + (k.p * FalseFlag * retry.call) \div 100 ELSE 0

\* The rest of the conversation, on the prefix this turn leaves warm.
Later(k, later, ctx) == TurnCallCost(k.route, later, later.prompt, ctx)

WithLater(call, fail, later, req) ==
  call + fail + ((Least(3, req.remaining + 1) - 1) * (later + fail)) \div 2

ValueOf(k, retry, req, ctx) ==
  WithLater(CheckedCall(k, retry),
            Fail(k, retry, IF k.route \in Checked THEN req.detect + ((10 - req.detect) * Catch) \div 10
                           ELSE req.detect, req),
            Later(k, [req EXCEPT !.prompt = @ + req.growth * req.steps], ctx), req)

Value(k, offers, req, ctx) ==
  ValueOf(k, Retry(k, {x \in offers : x.cap > k.cap + 1}, req), req, ctx)

\* Mutant: the record forgets that the memory decays.
RankUndecayed(c, conv, req) == EffectiveDifficulty(conv, req)

\* Policy.evaluate and ExpectedCostPolicy.evaluate: what each candidate is
\* ranked by. The decision record and the retry rules read it again.
RankDifficulty(c, conv, req) ==
  IF c.policy = "F_expected" THEN Lifted(req, DecayedFloor(conv, req.now))
  ELSE EffectiveDifficulty(conv, req)

Rank(c, k, offers, req, ctx) ==
  IF c.policy = "F_expected" THEN Value(k, offers, req, ctx)
  ELSE (10 * k.cost) \div Most(k.p, 1)

RankedOffers(c, offers, req, ctx) ==
  {[route |-> k.route, cap |-> k.cap, value |-> Rank(c, k, offers, req, ctx)] : k \in offers}

Ranked(c, conv, req, ctx, d) ==
  RankedOffers(c, Offers(c, conv, req, ctx, d, Candidates(req, ctx, PlansAllowed(c.policy))), req, ctx)

Evaluate(c, conv, req, ctx) == Ranked(c, conv, req, ctx, RankDifficulty(c, conv, req))

\* _expected, with the margin under which the conversation stays.
Expected(conv, scored) ==
  LET best  == First(scored, LAMBDA k : k.value, LAMBDA k : -k.cap)
      stays == \E k \in scored : k.route = conv.current
                                  /\ 100 * k.value <= best.value * (100 + Margin)
  IN IF scored = {} THEN [route |-> None, why |-> "none"]
     ELSE IF stays THEN [route |-> conv.current, why |-> "stay"]
     ELSE [route |-> best.route, why |-> "expected"]

RuleApplies(req) == PaidRule # None /\ req.stated # None /\ req.stated >= PaidRule.least

ChooseF(c, conv, req, ctx) ==
  IF RuleApplies(req) /\ PaidRule.route \in Candidates(req, ctx, TRUE)
  THEN [route |-> PaidRule.route, why |-> "rule"]
  ELSE Expected(conv, Ranked(c, conv, req, ctx, Lifted(req, DecayedFloor(conv, req.now))))

Choose(c, conv, req, ctx) ==
  LET plain(r) == [route |-> r, why |-> "policy"]
  IN CASE c.policy = "A_static" -> plain(Strongest(Candidates(req, ctx, FALSE), req.category))
       [] c.policy = "B_naive" -> plain(Target(c, req, ctx, 8))
       [] c.policy = "C_ev_switch" -> plain(ChooseC(c, conv, req, ctx))
       [] c.policy \in {"D_escalate", "E_escalate_sub"} -> plain(ChooseDE(c, conv, req, ctx))
       [] OTHER -> ChooseF(c, conv, req, ctx)

\* on_failure: the new conversation, and the cheapest clearly stronger route.
Raised(c, conv, req, failed) ==
  IF Remembers(c.policy)
  THEN [conv EXCEPT !.floor = Most(@, Most(DifficultyAt(c.success, Model[failed], req.category),
                                           req.difficulty)),
                    !.floorAt = req.now]
  ELSE conv

PerSuccess(c, conv, req, ctx, d, better) ==
  IF better = {} THEN None
  ELSE First(better, LAMBDA r : (100 * CallCost(r, conv, req, ctx)) \div Most(Success(c, r, req, d), 1),
             Zero)

AboveFailed(pool, req, failed) ==
  {r \in pool : RawCap(r, req.category) > RawCap(failed, req.category) + 1}

OnFailure(c, conv, req, ctx, failed, tried) ==
  IF c.policy = "A_static" THEN failed
  ELSE PerSuccess(c, conv, req, ctx, Most(EffectiveDifficulty(conv, req), req.difficulty),
         AboveFailed(Candidates(req, ctx, PlansAllowed(c.policy)) \ tried, req, failed))
----------------------------------------------------------------------------
(* One turn *)

\* _turn_request; `ask` is the classifier's answer, None without one or when
\* it failed.
Stakes == <<5, 50, 300, 2000>>

TurnRequest(ask, prompt, maxTokens, now, hasTools) ==
  IF ask = None
  THEN [category |-> IF hasTools THEN "agentic" ELSE "general", difficulty |-> 5,
        prompt |-> prompt, output |-> IF maxTokens = None THEN 2 ELSE maxTokens, now |-> now,
        steps |-> 1, growth |-> 2, tools |-> hasTools, vision |-> FALSE, followUp |-> 5,
        stakes |-> Stakes[3], detect |-> 6, remaining |-> 3, stated |-> maxTokens]
  ELSE LET agentic == hasTools /\ ask.tools
       IN [category |-> ask.category, difficulty |-> ask.difficulty, prompt |-> prompt,
           output |-> IF agentic THEN 6 ELSE IF maxTokens = None THEN 4 ELSE Least(maxTokens, 4),
           now |-> now, steps |-> IF agentic THEN 3 ELSE 1, growth |-> 2, tools |-> hasTools,
           vision |-> ask.vision, followUp |-> ask.followUp, stakes |-> Stakes[ask.stakes],
           detect |-> IF agentic THEN 8 ELSE 5, remaining |-> 3, stated |-> maxTokens]

CacheStatus(r, conv, req) ==
  IF Model[r].cache.ttl <= 0 THEN "no-cache"
  ELSE IF req.prompt < Model[r].cache.min THEN "too-short"
  ELSE IF WarmTokens(conv, r, req.now) > 0 THEN "warm" ELSE "cold"

\* A saving is only claimed for a warm cache whose read price is published.
Avoided(m, status, warm, req) ==
  IF status # "warm" \/ m.prices.read = None \/ IsFree(m.prices) THEN None
  ELSE Most(0, TurnCost(m, req.prompt, 0, req.output) - TurnCost(m, req.prompt, warm, req.output))

CacheRecord(m, status, warm, req) ==
  [status |-> status, warm |-> warm, avoided |-> Avoided(m, status, warm, req)]

CacheDecision(r, conv, req) ==
  CacheRecord(Model[r], CacheStatus(r, conv, req), WarmTokens(conv, r, req.now), req)

FallbackAmong(others, stronger) ==
  IF others = {} THEN None
  ELSE First(IF stronger # {} THEN stronger ELSE others, LAMBDA k : k.value, Zero).route

Fallback(r, listed, category, c) ==
  LET cap[x \in Names] == Cap(Model[x], category, c.success.discount)
  IN FallbackAmong({k \in listed : k.route # r}, {k \in listed : cap[k.route] > cap[r]})

SafeFallback(r, ask, turnStart, category) ==
  IF ask = None /\ turnStart THEN "classifier"
  ELSE IF Model[r].stale THEN "stale-evidence"
  ELSE IF EvidenceStrength(Model[r], category) \in {"none", "weak"} THEN "weak-category-evidence"
  ELSE None

\* Half the capability's evidence, half the classifier's confidence.
EvidenceConfidence(r, ask, category) ==
  (Weight[EvidenceStrength(Model[r], category)] + (IF ask = None THEN 0 ELSE ask.confidence)) \div 2

TaskClassification(ask, req, turnStart) ==
  [category |-> req.category, difficulty |-> req.difficulty,
   source |-> IF ~ turnStart THEN "tool-loop" ELSE IF ask = None THEN "fallback" ELSE "jev"]

\* A route the policy would not consider is listed without a value.
WithChosen(scored, r, req) ==
  IF \E k \in scored : k.route = r THEN scored
  ELSE scored \cup {[route |-> r, cap |-> RawCap(r, req.category), value |-> Infinite]}

CandidateEvaluations(c, conv, req, ctx, r, turnStart) ==
  WithChosen(IF turnStart THEN Evaluate(c, conv, req, ctx) ELSE {}, r, req)

RouteSelection(c, conv, req, r, why, ask, turnStart, listed) ==
  [selected |-> r, why |-> why, turnStart |-> turnStart,
   fallback |-> Fallback(r, listed, req.category, c),
   safe |-> SafeFallback(r, ask, turnStart, req.category),
   confidence |-> EvidenceConfidence(r, ask, req.category),
   switchedFrom |-> IF conv.current = r THEN None ELSE conv.current]

EstimatedOutcome(c, conv, req, ctx, r) ==
  [p |-> Success(c, r, req, req.difficulty), cost |-> CallCost(r, conv, req, ctx)]

\* explain: the record of a choice, computed after it from the same state.
Record(c, conv, req, ctx, r, why, ask, turnStart, listed) ==
  [kind |-> "turn", at |-> req.now,
   selection |-> RouteSelection(c, conv, req, r, why, ask, turnStart, listed),
   candidates |-> {<<k.route, k.value>> : k \in listed},
   classification |-> TaskClassification(ask, req, turnStart),
   estimated |-> EstimatedOutcome(c, conv, req, ctx, r),
   cache |-> CacheDecision(r, conv, req)]

Explain(c, conv, req, ctx, r, why, ask, turnStart) ==
  Record(c, conv, req, ctx, r, why, ask, turnStart,
         CandidateEvaluations(c, conv, req, ctx, r, turnStart))

\* _avoid_repeated_truncation, where the memory flags `flagged`.
LongEnough(scored, choice, req, flagged) ==
  {k \in scored : /\ k.route \notin flagged
                  /\ Model[k.route].maxOutput >= Model[choice.route].maxOutput
                  /\ req.stated = None \/ Model[k.route].maxOutput >= req.stated}

Avoiding(choice, usable) ==
  IF usable = {} THEN choice
  ELSE [route |-> First(usable, LAMBDA k : k.value, Zero).route, why |-> "avoid"]

AvoidTruncation(c, conv, req, ctx, choice, flagged) ==
  IF choice.route \notin flagged THEN choice
  ELSE Avoiding(choice, LongEnough(Evaluate(c, conv, req, ctx), choice, req, flagged))

Offered(exclude) == IF exclude THEN {r \in Names : Model[r].plan = None} ELSE Names

\* A call starts, and the provider caches what it is sent from then on.
Called(s, r, prompt) ==
  [s EXCEPT !.turns = @ + 1,
            !.calls = @ \cup {[route |-> r, at |-> s.now, prompt |-> prompt]},
            !.held[r] = IF prompt >= Model[r].cache.min THEN s.now + Model[r].cache.ttl ELSE @]

\* route at the start of a user's turn. No candidate at all is a 503.
Final(s, t, ctx, req, choice) ==
  [Called(s, choice.route, t.prompt) EXCEPT !.last =
     Explain(s.c, s.conv, req, ctx, choice.route, choice.why, t.ask, TRUE)]

Chosen(s, t, ctx, req, choice) ==
  IF choice.route = None THEN [s EXCEPT !.turns = @ + 1, !.last = None]
  ELSE Final(s, t, ctx, req, AvoidTruncation(s.c, s.conv, req, ctx, choice,
                                             IF t.cut THEN {choice.route} ELSE {}))

Routed(s, t, ctx, req) == Chosen(s, t, ctx, req, Choose(s.c, s.conv, req, ctx))

UserTurn(s, t, ctx) ==
  Routed(s, t, ctx, TurnRequest(t.ask, t.prompt, t.stated, s.now, t.tools))

\* route on a tool result: the turn's route stays unless tools keep failing.
Looped(s, t, ctx, req, conv, r) ==
  [Called(s, r, t.prompt) EXCEPT !.conv = conv,
     !.last = Explain(s.c, conv, req, ctx, r, "loop", None, FALSE)]

Failing(s, ctx, req, conv) ==
  [conv |-> conv, next |-> OnFailure(s.c, conv, req, ctx, s.conv.current, {s.conv.current})]

Staying(s, t, ctx, req, failing) ==
  Looped(s, t, ctx, req, failing.conv,
         IF failing.next = None THEN s.conv.current ELSE failing.next)

InTurn(s, t, ctx, req) ==
  Staying(s, t, ctx, req,
          IF t.errors THEN Failing(s, ctx, req, Raised(s.c, s.conv, req, s.conv.current))
          ELSE [conv |-> s.conv, next |-> None])

InLoop(s, t, ctx) ==
  InTurn(s, t, ctx, [TurnRequest(None, t.prompt, t.stated, s.now, TRUE) EXCEPT
                        !.difficulty = s.conv.floor, !.stakes = 200])

Sent(s, t, ctx) ==
  IF t.continues /\ s.conv.current \in ctx.routes THEN InLoop(s, t, ctx) ELSE UserTurn(s, t, ctx)

WithPlans(s, t) == Sent(s, t, [routes |-> Offered(t.exclude), quota |-> s.quota.plans])

Turn(t, said) == g.turns < g.c.bound /\ g' = WithPlans(Refreshed(g, said), t)

\* Mutant: stamped with the time the call ended.
RecordCallEnd(call, usage) ==
  LET m == Model[call.route]
      tokens == IF TotalInput(usage) = 0 THEN call.prompt ELSE TotalInput(usage)
      warm == tokens >= m.cache.min /\ m.cache.ttl > 0
  IN [g.conv EXCEPT !.current = call.route,
                    !.warm[call.route] =
                       IF warm THEN [tokens |-> tokens + usage.output, at |-> g.now] ELSE @]

\* commit, once the answer is in: what was sent is now warm on the route, as
\* of the time the call started.
RecordCall(call, usage) ==
  LET m == Model[call.route]
      tokens == IF TotalInput(usage) = 0 THEN call.prompt ELSE TotalInput(usage)
      warm == tokens >= m.cache.min /\ m.cache.ttl > 0
  IN [g.conv EXCEPT !.current = call.route,
                    !.warm[call.route] =
                       IF warm THEN [tokens |-> tokens + usage.output, at |-> call.at] ELSE @]

\* A failed call leaves no trace here; a plan reports no usage.
Reported(call) ==
  IF Model[call.route].plan = None
  THEN OpenAIUsage([prompt |-> call.prompt, cached |-> 1, written |-> 0, output |-> 2])
  ELSE AnthropicUsage([prompt |-> 0, cached |-> 0, written |-> 0, output |-> 0])

CallEnds(call, answered) ==
  g' = [g EXCEPT !.calls = @ \ {call},
                 !.conv = IF answered THEN RecordCall(call, Reported(call)) ELSE @]

----------------------------------------------------------------------------
(* One job *)

\* _tier_choice: inside what the policy itself would allow.
ListPrice(m) == m.prices.in + m.prices.out

TierIn(tier, req, ctx, chosen, pool) ==
  IF pool = {} THEN chosen
  ELSE IF tier = "strong"
  THEN First(pool, LAMBDA r : -RawCap(r, req.category), LAMBDA r : Model[r].latency)
  ELSE IF req.difficulty < 7
  THEN First(pool, LAMBDA r : ListPrice(Priced(Model[r], ctx)), LAMBDA r : -RawCap(r, req.category))
  ELSE chosen

TierChoice(tier, req, ctx, chosen, c) ==
  TierIn(tier, req, ctx, chosen,
         {r \in Candidates(req, ctx, PlansAllowed(c.policy)) :
            Eligible(Model[r], req.vision, req.tools, req.prompt)})

Cold == [current |-> None, warm |-> [r \in Names |-> None], floor |-> 0, floorAt |-> 0]

JobExplained(s, j, req, ctx, chosen, r) ==
  Explain(s.c, Cold, req, ctx, r,
          IF r = chosen.route THEN chosen.why ELSE IF j.force # None THEN "force" ELSE "tier",
          j.ask, TRUE)

JobChosen(s, j, req, ctx, chosen) ==
  IF chosen.route = None THEN None
  ELSE JobExplained(s, j, req, ctx, chosen,
         IF j.force # None THEN j.force
         ELSE IF j.tier = "auto" THEN chosen.route
         ELSE TierChoice(j.tier, req, ctx, chosen.route, s.c))

JobRouted(s, j, req, ctx) == JobChosen(s, j, req, ctx, Choose(s.c, Cold, req, ctx))

JobIn(s, j) ==
  [s EXCEPT !.turns = @ + 1, !.last =
     JobRouted(s, j, [TurnRequest(j.ask, j.prompt, None, g.now, TRUE) EXCEPT
                        !.steps = 4, !.output = 8, !.remaining = 0],
               [routes |-> j.only, quota |-> s.quota.plans])]

\* route_job: `only` are the routes with a runner, `force` the operator's.
Job(j, said) == g.turns < g.c.bound /\ g' = JobIn(Refreshed(g, said), j)
----------------------------------------------------------------------------
RoutingStart(setup) ==
  [c |-> setup, now |-> 0, turns |-> 0, conv |-> Cold, calls |-> {}, last |-> None,
   quota |-> [at |-> -100, plans |-> [p \in PlanName |-> Closed]],
   commands |-> [p \in PlanName |-> None],
   held |-> [r \in Names |-> -1]]

RoutingInit == \E setup \in Setups : g = RoutingStart(setup)

Tick == g.now < MaxNow /\ g' = [g EXCEPT !.now = @ + 1]

RoutingNext ==
  \/ \E t \in g.c.turns, said \in {None, 0, g.now} : Turn(t, said)
  \/ \E j \in g.c.jobs, said \in {None, g.now} : Job(j, said)
  \/ \E call \in g.calls, answered \in BOOLEAN : CallEnds(call, answered)
  \/ Tick
RoutingSpec == RoutingInit /\ [][RoutingNext]_g
----------------------------------------------------------------------------
(* Properties *)

Decided == g.last # None

\* A plan is chosen only if it was below its hard stop at some time within
\* max_staleness_s and the 60 s the router keeps a decision, however the
\* command, its cache, the budget file and the router's cache have taken
\* turns. An operator's override and the inside of a tool loop are exempt.
PlanWasOpen ==
  LET mine == Model[g.last.selection.selected].plan
      since == Most(0, g.last.at - QuotaTTL - Staleness)
  IN (Decided /\ g.last.selection.turnStart /\ g.last.selection.why # "force" /\ mine # None)
     => \E t \in since..g.last.at : Use(g, mine, t) < HardStop

\* What the router believes a provider holds warm, the provider still holds,
\* however long calls take and in whatever order they end.
WarmIsHeld ==
  \A r \in Names : WarmTokens(g.conv, r, g.now) > 0 => g.held[r] >= g.now

\* The record, computed after the choice and separately, bears the choice
\* out: what policy F chose is the least of the values on record, but for
\* the margin under which a conversation stays where it is.
RecordExplains ==
  LET made == g.last.selection
  IN (Decided /\ made.why \in {"expected", "stay"})
     => \E own \in g.last.candidates : own[1] = made.selected /\ \A other \in g.last.candidates :
          100 * own[2] <= other[2] * (IF made.why = "stay" THEN 100 + Margin ELSE 100)
=============================================================================
