------------------------------ MODULE Gateway ------------------------------
(***************************************************************************)
(* The turn engine behind POST /v1/chat/completions (unstreamed): a turn   *)
(* is routed, its route is called, and a failure, a length stop or a       *)
(* rejecting answer judge moves it to another route, within three budgets  *)
(* (attempts, truncation retries, verified escalations).  Several turns of *)
(* one conversation run at once.  The HTTP handler runs on the event loop; *)
(* routing, grading and verified escalation run in worker threads          *)
(* (asyncio.to_thread), so a read of the conversation's floor and the      *)
(* write that follows it are two steps.                                    *)
(*                                                                         *)
(* Prices are abstracted: where the code takes the cheapest of a set of    *)
(* routes (a cost that moves with the cache, the quota and the clock) the  *)
(* model may take any member of that set.                                  *)
(***************************************************************************)
EXTENDS Integers, Sequences, FiniteSets

CONSTANTS
  Turn,               \* the requests served, all of one conversation
  Route,              \* the catalog
  Plan,               \* the routes of a flat-rate subscription
  NoRoute,            \* Python's None where a route is expected
  Policy,             \* a key of policies.POLICIES
  Capability,         \* [Route -> Nat], points for the turn's category
  Level,              \* [Route -> Nat], difficulty a route solves half the time
  MaxOutput,          \* [Route -> Nat], max_output_tokens
  ContextTokens,      \* [Route -> Nat], context_tokens
  Eligible,           \* what Catalog.eligible returns for these requests
  Below,              \* routes below the intelligence reference
  Cheap,              \* the other routes of the verified cheap tier
  RequiredOutput,     \* the caller's max_tokens, 0 when not stated
  Difficulty,         \* the classifier's difficulty of a fresh turn
  DifficultyFloor,    \* verify.difficulty_floor
  MinGain,            \* verify.min_capability_gain
  MaxAttempts,        \* AUTO_ROUTER_MAX_ATTEMPTS
  TruncationRetries,  \* AUTO_ROUTER_TRUNCATION_RETRIES
  MaxEscalations,     \* verify.max_escalations
  MemoryWindow,       \* truncation_memory.window
  MinTruncations      \* truncation_memory.min_truncations

Policies == {"A_static", "B_naive", "C_ev_switch", "D_escalate",
             "E_escalate_sub", "F_expected"}

ASSUME RoutesAssumption ==
  /\ Plan \subseteq Route /\ Eligible \subseteq Route
  /\ NoRoute \notin Route
  /\ Below \subseteq Route \ Plan       \* a plan is never held to the reference
  /\ Cheap \subseteq Route              \*   and graded only if verify.always says so

\* verify.always, empty by default, names no plan.
NoPlanGraded == Cheap \cap Plan = {}

ASSUME NumbersAssumption ==
  /\ Policy \in Policies
  /\ Capability \in [Route -> Nat] /\ Level \in [Route -> Nat]
  /\ MaxOutput \in [Route -> Nat] /\ ContextTokens \in [Route -> Nat]
  /\ RequiredOutput \in Nat /\ Difficulty \in Nat /\ DifficultyFloor \in Nat
  /\ MinGain \in Nat
  /\ MaxAttempts \in Nat \ {0}          \* the loop runs at least once
  /\ TruncationRetries \in Nat /\ MaxEscalations \in Nat
  /\ MemoryWindow \in Nat \ {0} /\ MinTruncations \in Nat \ {0}

VARIABLES
  turn,      \* [Turn -> the local variables of its handler]
  floor,     \* Conversation.floor
  current,   \* Conversation.current
  memory,    \* OutcomeMemory._seen, of the one comparable key
  open       \* the plans whose quota decision is open

vars == <<turn, floor, current, memory, open>>

----------------------------------------------------------------------------
(* Data *)

\* What the judge said about one answer; `to` is escalated_to.
Verdict == [status : {"unchecked", "adequate", "rejected", "unavailable"},
            to : Route \cup {NoRoute}, escalations : 0..MaxEscalations]

NoVerdict == [status |-> "unchecked", to |-> NoRoute, escalations |-> 0]

\* A decision record: the route, its observed outcome, its verification.
Decision == [route : Route, verdict : Verdict,
             observed : {"pending", "ok", "truncated", "error"}]

NewDecision(r, v) == [route |-> r, verdict |-> v, observed |-> "pending"]

\* The reply: the decisions (indexes) its body and its headers come from.
\* "raised": the handler ends with an exception, a 500 without a decision.
Reply == [kind : {"none", "answer", "partial", "error", "unroutable", "raised"},
          body : Nat, headers : Nat, verdict : Verdict]

NoReply == [kind |-> "none", body |-> 0, headers |-> 0, verdict |-> NoVerdict]

Reasons == {"none", "outage", "refused", "cut", "stuck", "verdict"}

\* The failures handled on the event loop, without an await until the retry
\* route is known.
LoopReasons == {"outage", "refused", "cut"}

NewTurn == [pc |-> "new", trail |-> <<>>, tried |-> {}, attempt |-> 0,
            truncations |-> TruncationRetries, escalations |-> MaxEscalations,
            checked |-> NoVerdict, unfinished |-> 0, lastError |-> 0,
            gradable |-> FALSE, difficulty |-> Difficulty, why |-> "none",
            raised |-> 0, reply |-> NoReply]

Last(t) == Len(turn[t].trail)
Result(t) == turn[t].trail[Last(t)]
Larger(a, b) == IF a >= b THEN a ELSE b

----------------------------------------------------------------------------
(* Which routes a policy may use *)

AllowsPlans == Policy \in {"E_escalate_sub", "F_expected"}
RaisesFloor == Policy \in {"D_escalate", "E_escalate_sub", "F_expected"}

Usable(excludePlans) ==
  {r \in Route : r \in Plan => AllowsPlans /\ ~excludePlans /\ r \in open}

Widest(S) == {r \in S : \A q \in S : ContextTokens[q] <= ContextTokens[r]}

\* With no route large enough, the widest remaining ones.
Candidates(excludePlans) ==
  LET usable == Usable(excludePlans)
  IN  IF usable \cap Eligible # {} THEN usable \cap Eligible ELSE Widest(usable)

\* Mutant: any untried route counts as stronger.
StrongerAnyUntried(failed, tried, excludePlans) == Candidates(excludePlans) \ tried

\* What Policy.on_failure may return after `failed`.
Stronger(failed, tried, excludePlans) ==
  IF Policy = "A_static" THEN {failed}
  ELSE {r \in Candidates(excludePlans) \ tried :
          Capability[r] > Capability[failed] + 1}

\* What verify.escalation_choice may return after `failed` was rejected.
VerifiedStepUp(failed, tried) ==
  LET bar    == {r \in Candidates(TRUE) \ tried :
                   Capability[r] >= Capability[failed] + MinGain}
      above  == bar \ Below
  IN  IF failed \in Below /\ above # {} THEN above ELSE bar

----------------------------------------------------------------------------
(* The outcome memory: ok and truncated outcomes, the newest MemoryWindow. *)

Remember(r, status) ==
  LET seen == Append(memory[r], status)
      n    == Len(seen)
  IN  [memory EXCEPT ![r] = IF n > MemoryWindow
                            THEN SubSeq(seen, n - MemoryWindow + 1, n) ELSE seen]

Count(r, S) == Cardinality({i \in 1..Len(memory[r]) : memory[r][i] \in S})

\* At least MinTruncations length stops, and half of what is within the TTL.
ShouldAvoid(r) ==
  /\ Count(r, {"truncated"}) >= MinTruncations
  /\ 2 * Count(r, {"truncated"}) >= Count(r, {"ok", "truncated"})

\* The routes a turn whose policy chose r may really start on.
AvoidRepeatedTruncation(r) ==
  LET usable == {m \in Candidates(FALSE) \ {r} :
                   /\ ~ShouldAvoid(m)
                   /\ MaxOutput[m] >= Larger(MaxOutput[r], RequiredOutput)}
  IN  IF ShouldAvoid(r) /\ usable # {} THEN usable ELSE {r}

----------------------------------------------------------------------------
Init ==
  /\ turn = [t \in Turn |-> NewTurn]
  /\ floor = 0
  /\ current = NoRoute
  /\ memory = [r \in Route |-> <<>>]
  /\ open \in SUBSET Plan

----------------------------------------------------------------------------
(* Routing *)

\* Policy C weighs its current model against the target without asking
\* whether it is still a candidate.
Choosable ==
  Candidates(FALSE) \cup (IF Policy = "C_ev_switch" /\ Candidates(FALSE) # {}
                          THEN {current} \ {NoRoute} ELSE {})

\* A new user message: the policy chooses, the memory may overrule it.
RouteTurn(t) ==
  /\ turn[t].pc = "new"
  /\ \E chosen \in Choosable, gradable \in BOOLEAN :
       \E r \in AvoidRepeatedTruncation(chosen) :
         turn' = [turn EXCEPT ![t].pc = "calling", ![t].attempt = 1,
                              ![t].gradable = gradable,
                              ![t].trail = <<NewDecision(r, NoVerdict)>>]
  /\ UNCHANGED <<floor, current, memory, open>>

\* Mutant: a request nobody can serve is reported like a failed call.
UnroutableAsError(t) ==
  /\ turn[t].pc = "new"
  /\ Candidates(FALSE) = {}
  /\ turn' = [turn EXCEPT ![t].pc = "done", ![t].reply.kind = "error"]
  /\ UNCHANGED <<floor, current, memory, open>>

\* No candidate: NoRoute, answered with an error before any call.
NoRouteAvailable(t) ==
  /\ turn[t].pc = "new"
  /\ Candidates(FALSE) = {}
  /\ turn' = [turn EXCEPT ![t].pc = "done", ![t].reply.kind = "unroutable"]
  /\ UNCHANGED <<floor, current, memory, open>>

\* A tool result: inside a tool loop the turn's model stays.
ContinueToolLoop(t) ==
  /\ turn[t].pc = "new"
  /\ current # NoRoute
  /\ \E gradable \in BOOLEAN :
       turn' = [turn EXCEPT ![t].pc = "calling", ![t].attempt = 1,
                            ![t].gradable = gradable, ![t].difficulty = floor,
                            ![t].trail = <<NewDecision(current, NoVerdict)>>]
  /\ UNCHANGED <<floor, current, memory, open>>

\* The value EscalatePolicy.on_failure is about to store, computed from the
\* floor as it is now.
FloorAfter(failed, difficulty) ==
  IF RaisesFloor THEN Larger(floor, Larger(Level[failed], difficulty)) ELSE floor

\* Several failing tool results in a row: on_failure starts, in route's thread.
EscalateToolLoop(t) ==
  /\ turn[t].pc = "new"
  /\ current # NoRoute
  /\ \E gradable \in BOOLEAN :
       turn' = [turn EXCEPT ![t].pc = "raising", ![t].why = "stuck",
                            ![t].gradable = gradable, ![t].difficulty = floor,
                            ![t].trail = <<NewDecision(current, NoVerdict)>>,
                            ![t].raised = FloorAfter(current, floor)]
  /\ UNCHANGED <<floor, current, memory, open>>

----------------------------------------------------------------------------
(* The attempt loop *)

\* No handler is between on_failure's read and its write on the event loop.
LoopFree(t) ==
  \A u \in Turn \ {t} : ~(turn[u].pc = "raising" /\ turn[u].why \in LoopReasons)

\* Mutant: the last error wins over a truncated answer.
AfterLoopErrorFirst(s) ==
  [s EXCEPT !.pc = "done",
            !.reply = IF s.lastError = 0
                      THEN [NoReply EXCEPT !.kind = "partial", !.body = s.unfinished,
                                           !.headers = s.unfinished]
                      ELSE [NoReply EXCEPT !.kind = "error", !.body = s.lastError,
                                           !.headers = Len(s.trail)]]

\* After the loop: the first unfinished answer, or else the last error with
\* the headers of `result` as it now stands.
AfterLoop(s) ==
  [s EXCEPT !.pc = "done",
            !.reply = IF s.unfinished # 0
                      THEN [NoReply EXCEPT !.kind = "partial", !.body = s.unfinished,
                                           !.headers = s.unfinished]
                      ELSE [NoReply EXCEPT !.kind = "error", !.body = s.lastError,
                                           !.headers = Len(s.trail)]]

\* Mutant: the retry remembers only the route it replaces.
AdoptForgetsTried(s, r, v) ==
  LET next == [s EXCEPT !.trail = Append(@, NewDecision(r, v)),
                        !.tried = {s.trail[Len(s.trail)].route},
                        !.why = "none"]
  IN  IF s.attempt < MaxAttempts
      THEN [next EXCEPT !.pc = "calling", !.attempt = @ + 1]
      ELSE AfterLoop(next)

\* `result = retry` and the end of the iteration: the next attempt, if any.
Adopt(s, r, v) ==
  LET next == [s EXCEPT !.trail = Append(@, NewDecision(r, v)),
                        !.tried = @ \cup {s.trail[Len(s.trail)].route},
                        !.why = "none"]
  IN  IF s.attempt < MaxAttempts
      THEN [next EXCEPT !.pc = "calling", !.attempt = @ + 1]
      ELSE AfterLoop(next)

\* Router.escalate starts: on_failure has read the floor.
Fail(s, why) ==
  [s EXCEPT !.pc = "raising", !.why = why,
            !.raised = FloorAfter(s.trail[Len(s.trail)].route, s.difficulty)]

Observe(s, status) == [s EXCEPT !.trail[Len(s.trail)].observed = status]

\* A 200 with a complete answer: committed, recorded, handed to the judge.
AnswerComplete(t) ==
  /\ turn[t].pc = "calling" /\ LoopFree(t)
  /\ turn' = [turn EXCEPT ![t] = [Observe(@, "ok") EXCEPT !.pc = "judging"]]
  /\ current' = Result(t).route
  /\ memory' = Remember(Result(t).route, "ok")
  /\ UNCHANGED <<floor, open>>

\* Mutant: a length stop is retried for as long as attempts are left.
AnswerCutUnlimited(t) ==
  /\ turn[t].pc = "calling" /\ LoopFree(t)
  /\ LET kept == [Observe(turn[t], "truncated") EXCEPT
                    !.unfinished = IF @ = 0 THEN Last(t) ELSE @]
     IN  turn' = [turn EXCEPT ![t] = Fail(kept, "cut")]
  /\ current' = Result(t).route
  /\ memory' = Remember(Result(t).route, "truncated")
  /\ UNCHANGED <<floor, open>>

\* Mutant: the answer kept is the newest unfinished one.
AnswerCutKeepsLast(t) ==
  /\ turn[t].pc = "calling" /\ LoopFree(t)
  /\ LET kept == [Observe(turn[t], "truncated") EXCEPT !.unfinished = Last(t)]
     IN  turn' = [turn EXCEPT ![t] =
                    IF kept.truncations = 0 THEN AfterLoop(kept)
                    ELSE Fail([kept EXCEPT !.truncations = @ - 1], "cut")]
  /\ current' = Result(t).route
  /\ memory' = Remember(Result(t).route, "truncated")
  /\ UNCHANGED <<floor, open>>

\* A 200 the provider flags as a length stop: the first one is kept, and the
\* truncation budget decides whether another route is tried.
AnswerCut(t) ==
  /\ turn[t].pc = "calling" /\ LoopFree(t)
  /\ LET kept == [Observe(turn[t], "truncated") EXCEPT
                    !.unfinished = IF @ = 0 THEN Last(t) ELSE @]
     IN  turn' = [turn EXCEPT ![t] =
                    IF kept.truncations = 0 THEN AfterLoop(kept)
                    ELSE Fail([kept EXCEPT !.truncations = @ - 1], "cut")]
  /\ current' = Result(t).route
  /\ memory' = Remember(Result(t).route, "truncated")
  /\ UNCHANGED <<floor, open>>

\* A 5xx or a broken connection ("outage"), or any other status ("refused").
CallFails(t) ==
  /\ turn[t].pc = "calling" /\ LoopFree(t)
  /\ \E why \in {"outage", "refused"} :
       turn' = [turn EXCEPT ![t] =
                  Fail([Observe(@, "error") EXCEPT !.lastError = Last(t)], why)]
  /\ UNCHANGED <<floor, current, memory, open>>

----------------------------------------------------------------------------
(* Verification *)

\* Is the answer of r graded, and if so may the verdict be that of a judge?
Applies(t, r) == turn[t].gradable /\ r \in Below \cup Cheap

\* Router.check: a second attempt keeps the verdict that caused it, unless
\* the threshold rule grades it again; a tool call, an empty answer and a
\* judge that raises are "unchecked".
CheckVerdicts(t) ==
  LET d       == Result(t)
      applies == Applies(t, d.route)
      second  == d.verdict.to # NoRoute
  IN  IF second /\ ~(applies /\ d.route \in Below
                     /\ d.verdict.escalations < MaxEscalations)
      THEN {d.verdict}
      ELSE {[status |-> s, to |-> NoRoute, escalations |-> d.verdict.escalations] :
              s \in IF applies THEN {"unchecked", "adequate", "rejected", "unavailable"}
                               ELSE {"unchecked"}}

\* Mutant: an unreachable judge counts as a rejection.
EscalatesOnOutage(v) == v.status \in {"rejected", "unavailable"} /\ v.to = NoRoute

Escalates(v) == v.status = "rejected" /\ v.to = NoRoute

AnswerReply(t, v) ==
  [kind |-> "answer", body |-> Last(t), headers |-> Last(t), verdict |-> v]

\* Mutant: a rejection escalates without asking what is left to spend.
JudgeOverspends(t) ==
  /\ turn[t].pc = "judging"
  /\ \E v \in CheckVerdicts(t) :
       LET s     == [turn[t] EXCEPT !.trail[Last(t)].verdict = v]
           shown == IF s.checked # NoVerdict /\ v.status = "unchecked"
                    THEN s.checked ELSE v
       IN  turn' = [turn EXCEPT ![t] =
             IF Escalates(shown)
             THEN [s EXCEPT !.pc = "bumping", !.escalations = @ - 1]
             ELSE [s EXCEPT !.pc = "done", !.reply = AnswerReply(t, shown)]]
  /\ UNCHANGED <<floor, current, memory, open>>

\* The judge's thread ends; the handler replies or spends one escalation.
Judge(t) ==
  /\ turn[t].pc = "judging"
  /\ \E v \in CheckVerdicts(t) :
       LET s     == [turn[t] EXCEPT !.trail[Last(t)].verdict = v]
           shown == IF s.checked # NoVerdict /\ v.status = "unchecked"
                    THEN s.checked ELSE v
       IN  turn' = [turn EXCEPT ![t] =
             IF Escalates(shown) /\ s.escalations > 0
             THEN [s EXCEPT !.pc = "bumping", !.escalations = @ - 1]
             ELSE [s EXCEPT !.pc = "done", !.reply = AnswerReply(t, shown)]]
  /\ UNCHANGED <<floor, current, memory, open>>

\* Mutant: the bound is set, not taken as a lower bound.
BumpFloorReplaces(t) ==
  /\ turn[t].pc = "bumping"
  /\ \A u \in Turn : turn[u].pc # "bumped"
  /\ turn' = [turn EXCEPT ![t].pc = "bumped", ![t].raised = DifficultyFloor]
  /\ UNCHANGED <<floor, current, memory, open>>

\* bump_floor, under Router._lock: the read ...
BumpFloorRead(t) ==
  /\ turn[t].pc = "bumping"
  /\ \A u \in Turn : turn[u].pc # "bumped"
  /\ turn' = [turn EXCEPT ![t].pc = "bumped",
                          ![t].raised = Larger(floor, DifficultyFloor)]
  /\ UNCHANGED <<floor, current, memory, open>>

\* ... and the write.
BumpFloorWrite(t) ==
  /\ turn[t].pc = "bumped"
  /\ floor' = turn[t].raised
  /\ turn' = [turn EXCEPT ![t].pc = "steppingUp"]
  /\ UNCHANGED <<current, memory, open>>

\* A rejected answer's retry is recorded on both decisions and remembered.
Escalated(s, r) ==
  LET v == [s.trail[Len(s.trail)].verdict EXCEPT !.to = r, !.escalations = @ + 1]
  IN  Adopt([s EXCEPT !.trail[Len(s.trail)].verdict = v, !.checked = v], r, v)

\* _verified_retry: a clear step up, or else the ordinary failure rule starts.
StepUp(t) ==
  /\ turn[t].pc = "steppingUp" /\ Result(t).route \notin Plan
  /\ LET s       == turn[t]
         targets == VerifiedStepUp(Result(t).route, s.tried \cup {Result(t).route})
     IN  \/ \E r \in targets : turn' = [turn EXCEPT ![t] = Escalated(s, r)]
         \/ /\ targets = {}
            /\ turn' = [turn EXCEPT ![t] = Fail(s, "verdict")]
  /\ UNCHANGED <<floor, current, memory, open>>

\* A plan whose answer was rejected is not in the retry's catalog, which holds
\* no plans: there is no step up from it, and on_failure, which looks it up
\* before it does anything else, raises KeyError.
RejectedPlanRaises(t) ==
  /\ turn[t].pc = "steppingUp" /\ Result(t).route \in Plan
  /\ turn' = [turn EXCEPT ![t].pc = "done", ![t].reply.kind = "raised"]
  /\ UNCHANGED <<floor, current, memory, open>>

----------------------------------------------------------------------------
(* The second half of on_failure: the floor is stored, a route is chosen. *)

Failed(t) == Result(t).route
TriedNow(t) == turn[t].tried \cup {Failed(t)}

\* The stronger routes, or for an availability failure any other usable one.
Targets(t) ==
  LET excl     == turn[t].why = "verdict"
      stronger == Stronger(Failed(t), TriedNow(t), excl)
  IN  IF stronger = {} /\ turn[t].why \in {"outage", "cut"}
      THEN Candidates(excl) \ TriedNow(t) ELSE stronger

StoreFloor(t) == floor' = IF RaisesFloor THEN turn[t].raised ELSE floor

\* A failing tool loop: the turn starts on the stronger route, or stays.
StartAfterToolErrors(t) ==
  /\ turn[t].pc = "raising" /\ turn[t].why = "stuck"
  /\ StoreFloor(t)
  /\ \E r \in IF Targets(t) # {} THEN Targets(t) ELSE {current} :
       turn' = [turn EXCEPT ![t].pc = "calling", ![t].why = "none", ![t].attempt = 1,
                            ![t].trail = <<NewDecision(r, NoVerdict)>>]
  /\ UNCHANGED <<current, memory, open>>

Retry(t) ==
  /\ turn[t].pc = "raising" /\ turn[t].why # "stuck"
  /\ StoreFloor(t)
  /\ \E r \in Targets(t) :
       turn' = [turn EXCEPT ![t] = IF turn[t].why = "verdict" THEN Escalated(@, r)
                                   ELSE Adopt(@, r, NoVerdict)]
  /\ UNCHANGED <<current, memory, open>>

\* Mutant: a rejection nobody can improve on is left without a reply.
GiveUpOnFailuresOnly(t) ==
  /\ turn[t].pc = "raising" /\ turn[t].why \in LoopReasons
  /\ Targets(t) = {}
  /\ StoreFloor(t)
  /\ turn' = [turn EXCEPT ![t] = AfterLoop([@ EXCEPT !.why = "none"])]
  /\ UNCHANGED <<current, memory, open>>

\* Nowhere left to go: a rejected answer stands, a failure ends the turn.
GiveUp(t) ==
  /\ turn[t].pc = "raising" /\ turn[t].why # "stuck"
  /\ Targets(t) = {}
  /\ StoreFloor(t)
  /\ turn' = [turn EXCEPT ![t] =
                IF turn[t].why = "verdict"
                THEN [@ EXCEPT !.pc = "done", !.why = "none",
                               !.reply = AnswerReply(t, Result(t).verdict)]
                ELSE AfterLoop([@ EXCEPT !.why = "none"])]
  /\ UNCHANGED <<current, memory, open>>

----------------------------------------------------------------------------
(* The surroundings: quota readings change, remembered outcomes age out. *)

QuotaTurns ==
  /\ \E p \in Plan : open' = IF p \in open THEN open \ {p} ELSE open \cup {p}
  /\ UNCHANGED <<turn, floor, current, memory>>

\* An entry older than ttl_s stays in the deque and no longer counts.
OutcomeExpires ==
  /\ \E r \in Route : \E i \in 1..Len(memory[r]) :
       /\ memory[r][i] # "stale"
       /\ memory' = [memory EXCEPT ![r][i] = "stale"]
  /\ UNCHANGED <<turn, floor, current, open>>

AllDone == \A t \in Turn : turn[t].pc = "done"

\* What the process does for one turn once its request is in.
Serve(t) ==
  \/ AnswerComplete(t) \/ AnswerCut(t) \/ CallFails(t)
  \/ Judge(t) \/ BumpFloorRead(t) \/ BumpFloorWrite(t)
  \/ StepUp(t) \/ RejectedPlanRaises(t)
  \/ StartAfterToolErrors(t) \/ Retry(t) \/ GiveUp(t)

Request(t) ==
  RouteTurn(t) \/ NoRouteAvailable(t) \/ ContinueToolLoop(t) \/ EscalateToolLoop(t)

Next ==
  \/ \E t \in Turn : Request(t) \/ Serve(t)
  \/ QuotaTurns \/ OutcomeExpires
  \/ AllDone /\ UNCHANGED vars

\* Upstream calls and judge calls end (both have timeouts), threads run.
Fairness == \A t \in Turn : WF_vars(Serve(t))

Spec == Init /\ [][Next]_vars /\ Fairness
----------------------------------------------------------------------------
(* Properties *)

TurnState == [
  pc : {"new", "calling", "judging", "bumping", "bumped", "steppingUp", "raising", "done"},
  trail : Seq(Decision), tried : SUBSET Route, attempt : 0..MaxAttempts,
  truncations : 0..TruncationRetries, escalations : 0..MaxEscalations,
  checked : Verdict, unfinished : Nat, lastError : Nat, gradable : BOOLEAN,
  difficulty : Nat, why : Reasons, raised : Nat, reply : Reply]

\* Every variable has the type its declaration in the code gives it.
TypeOK ==
  /\ turn \in [Turn -> TurnState]
  /\ floor \in Nat
  /\ current \in Route \cup {NoRoute}
  /\ memory \in [Route -> Seq({"ok", "truncated", "stale"})]
  /\ open \in SUBSET Plan

Indexes(t) == 1..Last(t)
Errors == {"error", "raised"}
Seen(t, S) == {i \in Indexes(t) : turn[t].trail[i].observed \in S}

\* A turn never calls a route twice: `tried` is carried through every retry,
\* whatever mix of failures and rejections caused them.
NoRouteTwice ==
  \A t \in Turn : \A i, j \in Indexes(t) :
    turn[t].trail[i].route = turn[t].trail[j].route => i = j

\* Answers are billed whether or not they are finished or kept: a turn pays
\* for at most one plus its truncation retries plus its escalations.
BilledWithinBudgets ==
  \A t \in Turn : Cardinality(Seen(t, {"ok", "truncated"}))
                    <= 1 + TruncationRetries + MaxEscalations

\* A complete answer is only ever replaced because the judge rejected it: an
\* unreachable judge, a skipped check or a tool call never buys a second call.
OnlyRejectionReplacesAnAnswer ==
  \A t \in Turn : \A i \in Seen(t, {"ok"}) :
    i < Last(t) => turn[t].trail[i].verdict.status = "rejected"

\* What replaces a rejected answer is a clearly stronger route, and the
\* rejecting verdict names it.
RejectionStepsUp ==
  \A t \in Turn : \A i \in Seen(t, {"ok"}) :
    i < Last(t) =>
      LET d == turn[t].trail[i]
          e == turn[t].trail[i + 1]
      IN  /\ d.verdict.to = e.route
          /\ Capability[e.route] > Capability[d.route]

\* A turn that got a truncated answer never ends in an error, an upstream one
\* or one of the gateway's own, and what it returns when nothing finishes is
\* the first one, with its own headers.
UnfinishedAnswerSurvives ==
  \A t \in Turn :
    /\ turn[t].reply.kind \in Errors => Seen(t, {"truncated"}) = {}
    /\ turn[t].reply.kind = "partial" =>
         /\ turn[t].trail[turn[t].reply.body].observed = "truncated"
         /\ turn[t].reply.headers = turn[t].reply.body
         /\ \A i \in Seen(t, {"truncated"}) : turn[t].reply.body <= i

\* What the conversation has shown: the routes whose calls returned, whether
\* the judge rejected an answer, and so how hard its turns may be.
Returned(t) == Seen(t, {"ok", "truncated", "error"})
RoutesTried == UNION {{turn[t].trail[i].route : i \in Returned(t)} : t \in Turn}
AnswerRejected ==
  \E t \in Turn : \E i \in Seen(t, {"ok"}) : turn[t].trail[i].verdict.status = "rejected"
ShownHard ==
  {Level[r] : r \in RoutesTried} \cup {Difficulty}
    \cup (IF AnswerRejected THEN {DifficultyFloor} ELSE {})

\* Whatever turns of a conversation raise its floor at once, and whichever of
\* their writes is the last, the floor is a difficulty that one of its calls
\* has shown: a route that failed, the judge's bound after a rejection, or the
\* difficulty of a turn that went wrong.
FloorIsEarned == floor > 0 => RoutesTried # {} /\ floor \in ShownHard

\* Neither the judge's lower bound nor the policy's failure rule ever lowers
\* what the conversation has already proved hard.
FloorNeverDrops == [][floor' >= floor]_floor

\* A turn that got a complete answer never ends in an error.
CompleteAnswerSurvives ==
  \A t \in Turn : turn[t].reply.kind \in Errors => Seen(t, {"ok"}) = {}

\* Every request that was routed is answered.
EveryTurnReplies ==
  \A t \in Turn : turn[t].pc # "new" ~> turn[t].reply.kind # "none"

----------------------------------------------------------------------------
(* The service the client sees, of which this engine is an implementation. *)

CallsOf(t) ==
  {[route |-> turn[t].trail[i].route, outcome |-> turn[t].trail[i].observed] :
     i \in Seen(t, {"ok", "truncated", "error"})}

CallsMade == [t \in Turn |-> CallsOf(t)]
RepliesMade == [t \in Turn |-> turn[t].reply.kind]

Service == INSTANCE TurnService WITH calls <- CallsMade, reply <- RepliesMade

\* Every behaviour of the engine is one of the service: distinct routes, one
\* after another, and one reply that fits what they returned.  (Where a plan
\* is graded it is not: the service does not raise.)
ServiceKept == Service!Spec
=============================================================================
