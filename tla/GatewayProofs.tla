--------------------------- MODULE GatewayProofs ---------------------------
(* For every catalog, policy and budget: type correctness and route         *)
(* repetition; then what a turn pays for, why an answer is replaced, the    *)
(* fate of unfinished answers, that the engine's steps are steps of the     *)
(* service its client sees, and what the floor may be.  A step of the       *)
(* engine changes the local state of one turn, so the inductive invariants  *)
(* are predicates on that state and each lemma is about one operator of the *)
(* attempt loop.                                                            *)
EXTENDS Gateway, FiniteSetTheorems, TLAPS

\* `tried` covers every route but the last.
TriedCovers(trail, tried) ==
  \A i \in 1..Len(trail) : i < Len(trail) => trail[i].route \in tried

\* No route comes twice; policy A retries its own route, and only it may.
NoneTwice(trail) ==
  Policy # "A_static" =>
    \A i, j \in 1..Len(trail) : trail[i].route = trail[j].route => i = j

\* The escalations on record and those left are within the budget.
Paid(trail, left) ==
  trail # <<>> => trail[Len(trail)].verdict.escalations + left <= MaxEscalations

\* `first` is the first truncated answer, 0 when there is none.
FirstCut(trail, first) ==
  /\ first \in 0..Len(trail)
  /\ first = 0 => \A i \in 1..Len(trail) : trail[i].observed # "truncated"
  /\ first # 0 =>
       /\ trail[first].observed = "truncated"
       /\ \A i \in 1..Len(trail) : trail[i].observed = "truncated" => first <= i

\* What holds of a turn wherever its handler stands.
Core(s) ==
  /\ s \in TurnState
  /\ TriedCovers(s.trail, s.tried)
  /\ NoneTwice(s.trail)
  /\ Paid(s.trail, s.escalations)
  /\ FirstCut(s.trail, s.unfinished)

\* A step up after a rejection is under way: its escalation is already taken.
Escalating(s) ==
  s.pc \in {"bumping", "bumped", "steppingUp"} \/ (s.pc = "raising" /\ s.why = "verdict")

\* What depends on where it stands: a fresh turn has no past, a call in
\* flight is not yet observed, an escalation is not yet on record, and a reply
\* is the one its history entitles the client to.
Placed(s) ==
  /\ s.pc = "new" => s.trail = <<>> /\ s.tried = {} /\ s.unfinished = 0
  /\ s.pc \notin {"new", "done"} => s.trail # <<>>
  /\ s.pc # "done" => s.reply = NoReply
  /\ s.pc = "calling" => s.trail[Len(s.trail)].observed = "pending"
  /\ s.pc = "raising" /\ s.why = "stuck" => s.tried = {} /\ s.unfinished = 0
  /\ Escalating(s) => Paid(s.trail, s.escalations + 1)
  /\ s.reply.kind = "error" => s.unfinished = 0
  /\ s.reply.kind = "partial" =>
       /\ s.unfinished # 0
       /\ s.reply.body = s.unfinished /\ s.reply.headers = s.unfinished

TurnInv(s) == Core(s) /\ Placed(s)

\* The inductive invariant of the engine.
IInv ==
  /\ turn \in [Turn -> TurnState]
  /\ \A t \in Turn : TurnInv(turn[t])
  /\ floor \in Nat
  /\ current \in Route \cup {NoRoute}
  /\ memory \in [Route -> Seq({"ok", "truncated", "stale"})]
  /\ open \in SUBSET Plan
  /\ \A t \in Turn : turn[t].pc = "raising" /\ turn[t].why = "stuck" => current \in Route

----------------------------------------------------------------------------
(* The trail: its last decision is rewritten, or a decision is appended.   *)

LEMMA CandidatesAreRoutes ==
  ASSUME NEW x \in BOOLEAN
  PROVE  Candidates(x) \subseteq Route
BY DEF Candidates, Usable, Widest

LEMMA LargerInNat ==
  ASSUME NEW a \in Nat, NEW b \in Nat
  PROVE  Larger(a, b) \in Nat
BY DEF Larger

\* The last decision gets another verdict or outcome, its route stays.
LEMMA RewriteLast ==
  ASSUME NEW trail \in Seq(Decision), trail # <<>>, NEW d \in Decision,
         d.route = trail[Len(trail)].route, NEW tried
  PROVE  LET o == [trail EXCEPT ![Len(trail)] = d]
         IN  /\ o \in Seq(Decision) /\ o # <<>>
             /\ Len(o) = Len(trail) /\ o[Len(o)] = d
             /\ \A i \in 1..Len(o) : i # Len(o) => o[i] = trail[i]
             /\ TriedCovers(trail, tried) => TriedCovers(o, tried)
             /\ NoneTwice(trail) => NoneTwice(o)
<1> DEFINE n == Len(trail)
           o == [trail EXCEPT ![n] = d]
<1>1. n \in Nat /\ n # 0 /\ n \in 1..n
  OBVIOUS
<1>2. o \in Seq(Decision) /\ Len(o) = n /\ o[n] = d /\ o # <<>>
  BY <1>1
<1>3. \A i \in 1..n : i # n => o[i] = trail[i]
  BY <1>1
<1>4. \A i \in 1..n : o[i].route = trail[i].route
  BY <1>1, <1>2, <1>3
<1> HIDE DEF o
<1>5. TriedCovers(trail, tried) => TriedCovers(o, tried)
  BY <1>1, <1>2, <1>4 DEF TriedCovers
<1>6. NoneTwice(trail) => NoneTwice(o)
  BY <1>1, <1>2, <1>4 DEF NoneTwice
<1> QED
  BY <1>2, <1>3, <1>5, <1>6 DEF o

\* A new decision on a route the turn has not used.
LEMMA AppendFresh ==
  ASSUME NEW trail \in Seq(Decision), trail # <<>>, NEW d \in Decision,
         NEW tried, TriedCovers(trail, tried), NoneTwice(trail),
         Policy # "A_static" => d.route \notin tried \cup {trail[Len(trail)].route}
  PROVE  LET o == Append(trail, d)
         IN  /\ o \in Seq(Decision) /\ o # <<>>
             /\ Len(o) = Len(trail) + 1 /\ o[Len(o)] = d
             /\ \A i \in 1..Len(trail) : o[i] = trail[i]
             /\ TriedCovers(o, tried \cup {trail[Len(trail)].route})
             /\ NoneTwice(o)
<1> DEFINE n == Len(trail)
           o == Append(trail, d)
<1>1. n \in Nat /\ n # 0
  OBVIOUS
<1>2. o \in Seq(Decision) /\ Len(o) = n + 1 /\ o[n + 1] = d /\ o # <<>>
  BY <1>1
<1>3. \A i \in 1..n : o[i] = trail[i]
  BY <1>1
<1>4. \A i \in 1..n : trail[i].route \in tried \cup {trail[n].route}
  BY <1>1 DEF TriedCovers
<1> HIDE DEF o
<1>5. TriedCovers(o, tried \cup {trail[n].route})
  BY <1>1, <1>2, <1>3, <1>4 DEF TriedCovers
<1>6. NoneTwice(o)
  BY <1>1, <1>2, <1>3, <1>4 DEF NoneTwice
<1> QED
  BY <1>1, <1>2, <1>3, <1>5, <1>6 DEF o

----------------------------------------------------------------------------
(* The operators of the attempt loop *)

LEMMA LastDecision ==
  ASSUME NEW trail \in Seq(Decision), trail # <<>>
  PROVE  LET d == trail[Len(trail)]
         IN  /\ Len(trail) \in 1..Len(trail) /\ d \in Decision
             /\ d.route \in Route /\ d.verdict \in Verdict
             /\ d.verdict.escalations \in 0..MaxEscalations
<1>1. Len(trail) \in 1..Len(trail) /\ trail[Len(trail)] \in Decision
  OBVIOUS
<1>2. \A d \in Decision : d.route \in Route /\ d.verdict \in Verdict
  BY DEF Decision
<1>3. \A v \in Verdict : v.escalations \in 0..MaxEscalations
  BY DEF Verdict
<1> QED
  BY <1>1, <1>2, <1>3

LEMMA ObservedDecision ==
  ASSUME NEW d \in Decision, NEW status \in {"pending", "ok", "truncated", "error"}
  PROVE  LET e == [d EXCEPT !.observed = status]
         IN  e \in Decision /\ e.route = d.route /\ e.verdict = d.verdict
             /\ e.observed = status
BY DEF Decision

\* The parts of Core that a step which leaves the trail alone must show again.
LEMMA CoreFrame ==
  ASSUME NEW s, Core(s), NEW q \in TurnState,
         q.trail = s.trail, q.tried = s.tried, q.unfinished = s.unfinished,
         q.escalations <= s.escalations
  PROVE  Core(q)
<1>1. s \in TurnState
  BY DEF Core
<1>2. Paid(q.trail, q.escalations)
  <2> SUFFICES ASSUME q.trail # <<>>
      PROVE  q.trail[Len(q.trail)].verdict.escalations + q.escalations <= MaxEscalations
    BY DEF Paid
  <2>1. q.trail \in Seq(Decision) /\ q.escalations \in Int /\ s.escalations \in Int
    BY <1>1 DEF TurnState
  <2>2. q.trail[Len(q.trail)].verdict.escalations \in Int
    BY <2>1, LastDecision
  <2>3. q.trail[Len(q.trail)].verdict.escalations + s.escalations <= MaxEscalations
    BY DEF Core, Paid
  <2> QED
    BY <2>1, <2>2, <2>3, NumbersAssumption
<1> QED
  BY <1>2 DEF Core

\* Observing the call in flight: a complete answer or a failure.
LEMMA ObserveInv ==
  ASSUME NEW s, Core(s), s.trail # <<>>, NEW status \in {"ok", "error"},
         s.trail[Len(s.trail)].observed = "pending"
  PROVE  Core(Observe(s, status)) /\ Observe(s, status).trail # <<>>
<1> DEFINE n == Len(s.trail)
           d == [s.trail[n] EXCEPT !.observed = status]
           o == [s.trail EXCEPT ![n] = d]
           q == [s EXCEPT !.trail = o]
<1>1. s \in TurnState /\ s.trail \in Seq(Decision) /\ n \in 1..n /\ n \in Nat
  BY DEF Core, TurnState
<1>2. d \in Decision /\ d.route = s.trail[n].route /\ d.verdict = s.trail[n].verdict
      /\ d.observed = status
  <2>1. status \in {"pending", "ok", "truncated", "error"}
    OBVIOUS
  <2> QED
    BY <1>1, <2>1, ObservedDecision, LastDecision
<1>3. Observe(s, status) = q
  BY <1>1 DEF Observe, TurnState
<1> HIDE DEF d
<1>4. /\ o \in Seq(Decision) /\ o # <<>> /\ Len(o) = n /\ o[n] = d
      /\ \A i \in 1..n : i # n => o[i] = s.trail[i]
      /\ TriedCovers(o, s.tried) /\ NoneTwice(o)
  BY <1>1, <1>2, RewriteLast DEF Core
<1> HIDE DEF o
<1>5. q \in TurnState /\ q.trail = o /\ q.tried = s.tried
      /\ q.unfinished = s.unfinished /\ q.escalations = s.escalations
  BY <1>1, <1>4 DEF TurnState
<1>6. Paid(o, s.escalations)
  BY <1>1, <1>2, <1>4 DEF Core, Paid
<1>7. FirstCut(o, s.unfinished)
  BY <1>1, <1>2, <1>4 DEF Core, FirstCut
<1> QED
  BY <1>3, <1>4, <1>5, <1>6, <1>7 DEF Core

\* Observing a length stop, and keeping the first one.
LEMMA ObserveCutInv ==
  ASSUME NEW s, Core(s), s.trail # <<>>,
         s.trail[Len(s.trail)].observed = "pending"
  PROVE  LET kept == [Observe(s, "truncated") EXCEPT
                        !.unfinished = IF @ = 0 THEN Len(s.trail) ELSE @]
         IN  Core(kept) /\ kept.trail # <<>> /\ kept.reply = s.reply
<1> DEFINE n == Len(s.trail)
           d == [s.trail[n] EXCEPT !.observed = "truncated"]
           o == [s.trail EXCEPT ![n] = d]
           first == IF s.unfinished = 0 THEN n ELSE s.unfinished
           q == [s EXCEPT !.trail = o, !.unfinished = first]
<1>1. s \in TurnState /\ s.trail \in Seq(Decision) /\ n \in 1..n /\ n \in Nat
  BY DEF Core, TurnState
<1>2. d \in Decision /\ d.route = s.trail[n].route /\ d.verdict = s.trail[n].verdict
      /\ d.observed = "truncated"
  BY <1>1, ObservedDecision, LastDecision
<1>3. [Observe(s, "truncated") EXCEPT !.unfinished = IF @ = 0 THEN n ELSE @] = q
  BY <1>1 DEF Observe, TurnState
<1> HIDE DEF d
<1>4. /\ o \in Seq(Decision) /\ o # <<>> /\ Len(o) = n /\ o[n] = d
      /\ \A i \in 1..n : i # n => o[i] = s.trail[i]
      /\ TriedCovers(o, s.tried) /\ NoneTwice(o)
  BY <1>1, <1>2, RewriteLast DEF Core
<1> HIDE DEF o
<1>5. FirstCut(o, first) /\ first \in Nat
  BY <1>1, <1>2, <1>4 DEF Core, FirstCut
<1> HIDE DEF first
<1>6. q \in TurnState /\ q.trail = o /\ q.tried = s.tried /\ q.reply = s.reply
      /\ q.unfinished = first /\ q.escalations = s.escalations
  BY <1>1, <1>4, <1>5 DEF TurnState
<1>7. Paid(o, s.escalations)
  BY <1>1, <1>2, <1>4 DEF Core, Paid
<1> QED
  BY <1>3, <1>4, <1>5, <1>6, <1>7 DEF Core

\* The floor a failure is about to store is a number.
LEMMA FloorAfterInNat ==
  ASSUME NEW r \in Route, NEW difficulty \in Nat, floor \in Nat
  PROVE  FloorAfter(r, difficulty) \in Nat
BY NumbersAssumption, LargerInNat DEF FloorAfter

\* The failure rule starts.
LEMMA FailInv ==
  ASSUME NEW s, Core(s), s.trail # <<>>, s.reply = NoReply, floor \in Nat,
         NEW why \in LoopReasons \cup {"verdict"},
         why = "verdict" => Paid(s.trail, s.escalations + 1)
  PROVE  TurnInv(Fail(s, why))
<1> DEFINE raised == FloorAfter(s.trail[Len(s.trail)].route, s.difficulty)
           q == [s EXCEPT !.pc = "raising", !.why = why, !.raised = raised]
<1>1. s \in TurnState /\ s.trail \in Seq(Decision) /\ Len(s.trail) \in 1..Len(s.trail)
  BY DEF Core, TurnState
<1>2. s.trail[Len(s.trail)].route \in Route /\ s.difficulty \in Nat
  BY <1>1, LastDecision DEF TurnState
<1>3. raised \in Nat
  BY <1>2, FloorAfterInNat
<1>4. Fail(s, why) = q
  BY DEF Fail
<1> HIDE DEF raised
<1>5. /\ q \in TurnState /\ q.pc = "raising" /\ q.why = why /\ q.trail = s.trail
      /\ q.tried = s.tried /\ q.unfinished = s.unfinished
      /\ q.escalations = s.escalations /\ q.reply = s.reply
  BY <1>1, <1>3 DEF TurnState, Reasons, LoopReasons
<1>6. q.escalations <= s.escalations
  BY <1>1, <1>5 DEF TurnState
<1> HIDE DEF q
<1>7. Core(q)
  BY <1>1, <1>5, <1>6, CoreFrame
<1>8. Placed(q)
  BY <1>5 DEF Placed, Escalating, NoReply, LoopReasons
<1> QED
  BY <1>4, <1>7, <1>8 DEF TurnInv

\* After the loop a turn with a past gets the reply its past calls for.
LEMMA AfterLoopInv ==
  ASSUME NEW s, Core(s), s.trail # <<>>
  PROVE  TurnInv(AfterLoop(s))
<1> USE NumbersAssumption
<1> DEFINE q == AfterLoop(s)
<1>1. s \in TurnState /\ Len(s.trail) \in Nat /\ s.unfinished \in Nat
      /\ s.lastError \in Nat /\ s.escalations \in Int
  BY DEF Core, TurnState
<1>2. NoVerdict \in Verdict
  BY DEF NoVerdict, Verdict
<1>3. q \in TurnState
  BY <1>1, <1>2 DEF AfterLoop, TurnState, NoReply, Reply
<1>4. /\ q.trail = s.trail /\ q.tried = s.tried /\ q.unfinished = s.unfinished
      /\ q.escalations <= s.escalations /\ q.pc = "done"
  BY <1>1 DEF AfterLoop, TurnState
<1>5. /\ q.reply.kind = "error" => s.unfinished = 0
      /\ q.reply.kind = "partial" => /\ s.unfinished # 0
           /\ q.reply.body = s.unfinished /\ q.reply.headers = s.unfinished
  BY <1>1 DEF AfterLoop, NoReply, TurnState
<1> HIDE DEF q
<1>6. Core(q)
  BY <1>3, <1>4, CoreFrame
<1>7. Placed(q)
  BY <1>4, <1>5 DEF Placed, Escalating
<1> QED BY <1>6, <1>7 DEF TurnInv, q

\* The next route is adopted, with the verdict that caused it, if any.
LEMMA AdoptInv ==
  ASSUME NEW s, Core(s), s.trail # <<>>, s.reply = NoReply,
         NEW r \in Route, NEW v \in Verdict, v.escalations + s.escalations <= MaxEscalations,
         Policy # "A_static" => r \notin s.tried \cup {s.trail[Len(s.trail)].route}
  PROVE  TurnInv(Adopt(s, r, v))
<1> DEFINE n == Len(s.trail)
           d == NewDecision(r, v)
           o == Append(s.trail, d)
           left == s.trail[n].route
           next == [s EXCEPT !.trail = o, !.tried = @ \cup {left}, !.why = "none"]
           again == [next EXCEPT !.pc = "calling", !.attempt = @ + 1]
<1>1. s \in TurnState /\ s.trail \in Seq(Decision) /\ n \in Nat /\ s.tried \subseteq Route
      /\ s.attempt \in 0..MaxAttempts /\ TriedCovers(s.trail, s.tried)
      /\ NoneTwice(s.trail) /\ FirstCut(s.trail, s.unfinished)
  BY DEF Core, TurnState
<1>2. d \in Decision /\ d.route = r /\ d.verdict = v /\ d.observed = "pending"
  BY DEF NewDecision, Decision
<1>3. left \in Route
  BY <1>1, LastDecision
<1> HIDE DEF d, left
<1>4. /\ o \in Seq(Decision) /\ o # <<>> /\ Len(o) = n + 1 /\ o[n + 1] = d
      /\ \A i \in 1..n : o[i] = s.trail[i]
      /\ TriedCovers(o, s.tried \cup {left}) /\ NoneTwice(o)
  <2>1. Policy # "A_static" => d.route \notin s.tried \cup {s.trail[n].route}
    BY <1>2
  <2> QED
    BY <1>1, <1>2, <2>1, AppendFresh DEF left
<1> HIDE DEF o
<1>5. Paid(o, s.escalations)
  BY <1>1, <1>2, <1>4 DEF Paid
<1>6. FirstCut(o, s.unfinished)
  <2>1. \A i \in 1..Len(o) : i # n + 1 => i \in 1..n
    BY <1>1, <1>4
  <2>2. s.unfinished \in 0..n /\ (s.unfinished # 0 => s.unfinished \in 1..n)
    BY <1>1 DEF FirstCut
  <2>3. \A i \in 1..Len(o) : o[i].observed = "truncated"
                              => i \in 1..n /\ s.trail[i].observed = "truncated"
    BY <1>2, <1>4, <2>1
  <2>4. s.unfinished \in 0..Len(o)
    BY <1>1, <1>4, <2>2
  <2>5. CASE s.unfinished = 0
    BY <1>1, <2>3, <2>4, <2>5 DEF FirstCut
  <2>6. CASE s.unfinished # 0
    BY <1>1, <1>4, <2>2, <2>3, <2>4, <2>6 DEF FirstCut
  <2> QED
    BY <2>5, <2>6
<1>7. next \in TurnState /\ next.trail = o /\ next.tried = s.tried \cup {left}
      /\ next.unfinished = s.unfinished /\ next.escalations = s.escalations
      /\ next.reply = NoReply /\ next.why = "none" /\ next.attempt = s.attempt
  BY <1>1, <1>3, <1>4 DEF TurnState, Reasons
<1>8. Adopt(s, r, v) = IF s.attempt < MaxAttempts THEN again ELSE AfterLoop(next)
  BY DEF Adopt, o, d, left
<1> HIDE DEF next
<1>9. next.escalations \in Int
  BY <1>7 DEF TurnState
<1>10. Core(next)
  BY <1>4, <1>5, <1>6, <1>7 DEF Core
<1>11. CASE s.attempt < MaxAttempts
  <2>0. next.attempt + 1 \in 0..MaxAttempts
    BY <1>1, <1>7, <1>11, NumbersAssumption
  <2>1. /\ again \in TurnState /\ again.trail = o /\ again.tried = next.tried
        /\ again.unfinished = next.unfinished /\ again.escalations = next.escalations
        /\ again.pc = "calling" /\ again.reply = NoReply
    BY <1>7, <2>0 DEF TurnState
  <2> HIDE DEF again
  <2>2. again.escalations <= next.escalations /\ again.trail = next.trail
    BY <1>7, <1>9, <2>1
  <2>3. Core(again)
    BY <1>10, <2>1, <2>2, CoreFrame
  <2>4. Placed(again)
    BY <1>2, <1>4, <2>1 DEF Placed, Escalating, NoReply
  <2> QED
    BY <1>8, <1>11, <2>3, <2>4 DEF TurnInv
<1>12. CASE ~(s.attempt < MaxAttempts)
  BY <1>4, <1>7, <1>8, <1>10, <1>12, AfterLoopInv
<1> QED BY <1>11, <1>12

\* A rejected answer is replaced: the escalation goes on record twice.
LEMMA EscalatedInv ==
  ASSUME NEW s, Core(s), s.trail # <<>>, s.reply = NoReply,
         Paid(s.trail, s.escalations + 1), NEW r \in Route,
         Policy # "A_static" => r \notin s.tried \cup {s.trail[Len(s.trail)].route}
  PROVE  TurnInv(Escalated(s, r))
<1> DEFINE n == Len(s.trail)
           v == [s.trail[n].verdict EXCEPT !.to = r, !.escalations = @ + 1]
           d == [s.trail[n] EXCEPT !.verdict = v]
           o == [s.trail EXCEPT ![n] = d]
           q == [s EXCEPT !.trail = o, !.checked = v]
<1>1. s \in TurnState /\ s.trail \in Seq(Decision) /\ s.escalations \in Nat
      /\ FirstCut(s.trail, s.unfinished)
  BY DEF Core, TurnState
<1>2. n \in 1..n /\ s.trail[n] \in Decision /\ s.trail[n].verdict \in Verdict
      /\ s.trail[n].verdict.escalations \in 0..MaxEscalations
  BY <1>1, LastDecision
<1> DEFINE spent == s.trail[n].verdict.escalations
<1>3. /\ spent + 1 + s.escalations <= MaxEscalations
      /\ spent + 1 \in 0..MaxEscalations
  <2>1. spent + (s.escalations + 1) <= MaxEscalations
    BY DEF Paid
  <2>2. spent \in Nat /\ s.escalations \in Nat /\ MaxEscalations \in Nat
    BY <1>1, <1>2, NumbersAssumption
  <2>3. \A a, b, m \in Nat : a + (b + 1) <= m => a + 1 + b <= m /\ a + 1 \in 0..m
    OBVIOUS
  <2> HIDE DEF spent
  <2> QED
    BY <2>1, <2>2, <2>3
<1>4. v.escalations = s.trail[n].verdict.escalations + 1 /\ v \in Verdict
  <2>1. \A w \in Verdict : \A e \in 0..MaxEscalations :
          LET u == [w EXCEPT !.to = r, !.escalations = e]
          IN  u \in Verdict /\ u.escalations = e
    BY DEF Verdict
  <2> QED
    BY <1>2, <1>3, <2>1
<1>5. v.escalations + s.escalations <= MaxEscalations
  BY <1>3, <1>4
<1> HIDE DEF v
<1>6. d \in Decision /\ d.route = s.trail[n].route /\ d.verdict = v
      /\ d.observed = s.trail[n].observed
  BY <1>2, <1>4 DEF Decision
<1> HIDE DEF d
<1>7. /\ o \in Seq(Decision) /\ o # <<>> /\ Len(o) = n /\ o[n] = d
      /\ \A i \in 1..n : i # n => o[i] = s.trail[i]
      /\ TriedCovers(o, s.tried) /\ NoneTwice(o)
  BY <1>1, <1>6, RewriteLast DEF Core
<1> HIDE DEF o
<1>8. q \in TurnState /\ q.trail = o /\ q.tried = s.tried /\ q.reply = NoReply
      /\ q.unfinished = s.unfinished /\ q.escalations = s.escalations
  BY <1>1, <1>4, <1>7 DEF TurnState
<1>9. Paid(o, s.escalations)
  BY <1>5, <1>6, <1>7 DEF Paid
<1>10. FirstCut(o, s.unfinished)
  BY <1>1, <1>2, <1>6, <1>7 DEF FirstCut
<1>11. Escalated(s, r) = Adopt(q, r, v)
  BY <1>1 DEF Escalated, TurnState, o, d, v
<1> HIDE DEF q
<1>12. Core(q)
  BY <1>7, <1>8, <1>9, <1>10 DEF Core
<1>13. Policy # "A_static" => r \notin q.tried \cup {q.trail[Len(q.trail)].route}
  BY <1>6, <1>7, <1>8
<1> QED
  BY <1>4, <1>5, <1>7, <1>8, <1>11, <1>12, <1>13, AdoptInv

----------------------------------------------------------------------------
(* The actions *)

\* A step changes the local state of one turn, and leaves a conversation that
\* has a model with a model.
LEMMA OneTurn ==
  ASSUME IInv, NEW t \in Turn, NEW s, TurnInv(s), turn' = [turn EXCEPT ![t] = s],
         floor' \in Nat, current' = current \/ current' \in Route,
         s.pc = "raising" /\ s.why = "stuck" => current' \in Route,
         memory' \in [Route -> Seq({"ok", "truncated", "stale"})], open' \in SUBSET Plan
  PROVE  IInv'
<1>1. s \in TurnState
  BY DEF TurnInv, Core
<1>2. turn' \in [Turn -> TurnState]
  BY <1>1 DEF IInv
<1>3. \A u \in Turn : turn'[u] = IF u = t THEN s ELSE turn[u]
  BY DEF IInv
<1>4. \A u \in Turn : TurnInv(turn'[u])
  BY <1>3 DEF IInv
<1>5. \A u \in Turn : turn'[u].pc = "raising" /\ turn'[u].why = "stuck" => current' \in Route
  BY <1>3 DEF IInv
<1>6. current' \in Route \cup {NoRoute}
  BY DEF IInv
<1> QED
  BY <1>2, <1>4, <1>5, <1>6 DEF IInv

LEMMA ChoicesAreRoutes ==
  ASSUME IInv, NEW chosen \in Choosable
  PROVE  AvoidRepeatedTruncation(chosen) \subseteq Route
<1>1. Candidates(FALSE) \subseteq Route
  BY CandidatesAreRoutes
<1>2. chosen \in Route
  BY <1>1 DEF Choosable, IInv
<1> QED
  BY <1>1, <1>2 DEF AvoidRepeatedTruncation

LEMMA RememberType ==
  ASSUME IInv, NEW r \in Route, NEW status \in {"ok", "truncated"}
  PROVE  Remember(r, status) \in [Route -> Seq({"ok", "truncated", "stale"})]
<1> DEFINE S == {"ok", "truncated", "stale"}
           seen == Append(memory[r], status)
           n == Len(seen)
           kept == IF n > MemoryWindow THEN SubSeq(seen, n - MemoryWindow + 1, n) ELSE seen
<1>1. memory[r] \in Seq(S) /\ memory \in [Route -> Seq(S)]
  BY DEF IInv
<1> HIDE DEF S
<1>2. status \in S
  BY DEF S
<1>3. seen \in Seq(S) /\ n \in Nat
  BY <1>1, <1>2
<1> HIDE DEF seen
<1>4. n > MemoryWindow => n - MemoryWindow + 1 \in 1..n
  BY <1>3, NumbersAssumption
<1>5. kept \in Seq(S)
  BY <1>3, <1>4
<1>6. Remember(r, status) = [memory EXCEPT ![r] = kept]
  BY DEF Remember, seen
<1> HIDE DEF kept
<1> QED
  BY <1>1, <1>5, <1>6 DEF S

\* A first decision starts a trail.
LEMMA FirstDecision ==
  ASSUME NEW r \in Route
  PROVE  LET trail == <<NewDecision(r, NoVerdict)>>
         IN  /\ trail \in Seq(Decision) /\ trail # <<>> /\ Len(trail) = 1
             /\ trail[1].observed = "pending" /\ trail[1].verdict = NoVerdict
             /\ trail[1].route = r
<1>1. NoVerdict \in Verdict
  BY NumbersAssumption DEF NoVerdict, Verdict
<1>2. NewDecision(r, NoVerdict) \in Decision
  BY <1>1 DEF NewDecision, Decision
<1> QED
  BY <1>2 DEF NewDecision

\* A turn that has not called anything starts, in front of a call or of the
\* failure rule of a stuck tool loop.
LEMMA StartInv ==
  ASSUME NEW s, Core(s), s.tried = {}, s.unfinished = 0, s.reply = NoReply,
         NEW r \in Route, NEW q \in TurnState,
         q.trail = <<NewDecision(r, NoVerdict)>>, q.tried = {}, q.unfinished = 0,
         q.reply = NoReply, q.escalations = s.escalations,
         q.pc = "calling" \/ (q.pc = "raising" /\ q.why = "stuck")
  PROVE  TurnInv(q)
<1>1. /\ q.trail # <<>> /\ Len(q.trail) = 1
      /\ q.trail[1].observed = "pending" /\ q.trail[1].verdict = NoVerdict
  BY FirstDecision
<1>2. q.escalations \in 0..MaxEscalations
  BY DEF TurnState
<1>3. Paid(q.trail, q.escalations)
  BY <1>1, <1>2, NumbersAssumption DEF Paid, NoVerdict
<1>4. TriedCovers(q.trail, q.tried) /\ NoneTwice(q.trail) /\ FirstCut(q.trail, q.unfinished)
  BY <1>1 DEF TriedCovers, NoneTwice, FirstCut
<1>5. Placed(q)
  BY <1>1 DEF Placed, Escalating, NoReply
<1> QED
  BY <1>3, <1>4, <1>5 DEF TurnInv, Core

LEMMA RouteTurnInv ==
  ASSUME IInv, NEW t \in Turn, RouteTurn(t)
  PROVE  IInv'
<1>0. PICK chosen \in Choosable, gradable \in BOOLEAN :
        \E r \in AvoidRepeatedTruncation(chosen) :
          turn' = [turn EXCEPT ![t].pc = "calling", ![t].attempt = 1,
                               ![t].gradable = gradable,
                               ![t].trail = <<NewDecision(r, NoVerdict)>>]
  BY DEF RouteTurn
<1>1. PICK r \in AvoidRepeatedTruncation(chosen) :
        turn' = [turn EXCEPT ![t].pc = "calling", ![t].attempt = 1,
                             ![t].gradable = gradable,
                             ![t].trail = <<NewDecision(r, NoVerdict)>>]
  BY <1>0
<1> DEFINE q == [turn[t] EXCEPT !.pc = "calling", !.attempt = 1, !.gradable = gradable,
                                !.trail = <<NewDecision(r, NoVerdict)>>]
<1>2. turn' = [turn EXCEPT ![t] = q]
  BY <1>1
<1>3. r \in Route
  BY ChoicesAreRoutes
<1>4. TurnInv(turn[t]) /\ turn[t] \in TurnState /\ turn[t].pc = "new"
  BY DEF IInv, RouteTurn
<1>5. <<NewDecision(r, NoVerdict)>> \in Seq(Decision) /\ 1 \in 0..MaxAttempts
  BY <1>3, FirstDecision, NumbersAssumption
<1>6. /\ q \in TurnState /\ q.trail = <<NewDecision(r, NoVerdict)>> /\ q.pc = "calling"
      /\ q.tried = turn[t].tried /\ q.unfinished = turn[t].unfinished
      /\ q.reply = turn[t].reply /\ q.escalations = turn[t].escalations
  BY <1>4, <1>5 DEF TurnState
<1>7. Core(turn[t]) /\ turn[t].tried = {} /\ turn[t].unfinished = 0 /\ turn[t].reply = NoReply
  BY <1>4 DEF TurnInv, Placed
<1> HIDE DEF q
<1>8. TurnInv(q)
  BY <1>3, <1>6, <1>7, StartInv
<1> QED
  BY <1>2, <1>6, <1>8, OneTurn DEF RouteTurn, IInv

\* A reply other than the last error or an unfinished answer ends a turn.
LEMMA RepliedInv ==
  ASSUME NEW s, Core(s), NEW q \in TurnState, q.pc = "done",
         q.trail = s.trail, q.tried = s.tried, q.unfinished = s.unfinished,
         q.escalations = s.escalations, q.reply.kind \notin {"error", "partial"}
  PROVE  TurnInv(q)
<1>1. q.escalations <= s.escalations
  BY DEF TurnState
<1>2. Core(q)
  BY <1>1, CoreFrame
<1>3. Placed(q)
  BY DEF Placed, Escalating
<1> QED
  BY <1>2, <1>3 DEF TurnInv

LEMMA NoRouteAvailableInv ==
  ASSUME IInv, NEW t \in Turn, NoRouteAvailable(t)
  PROVE  IInv'
<1> DEFINE p == [turn[t].reply EXCEPT !.kind = "unroutable"]
           q == [turn[t] EXCEPT !.pc = "done", !.reply = p]
<1>1. TurnInv(turn[t]) /\ turn[t] \in TurnState /\ turn[t].reply \in Reply
  BY DEF IInv, TurnState
<1>2. turn' = [turn EXCEPT ![t] = q]
  BY <1>1 DEF NoRouteAvailable, TurnState
<1>3. p \in Reply /\ p.kind = "unroutable"
  BY <1>1 DEF Reply
<1> HIDE DEF p
<1>4. /\ q \in TurnState /\ q.pc = "done" /\ q.trail = turn[t].trail
      /\ q.tried = turn[t].tried /\ q.unfinished = turn[t].unfinished
      /\ q.escalations = turn[t].escalations /\ q.reply = p
  BY <1>1, <1>3 DEF TurnState
<1> HIDE DEF q
<1>5. TurnInv(q)
  BY <1>1, <1>3, <1>4, RepliedInv DEF TurnInv
<1> QED
  BY <1>2, <1>4, <1>5, OneTurn DEF NoRouteAvailable, IInv

LEMMA ContinueToolLoopInv ==
  ASSUME IInv, NEW t \in Turn, ContinueToolLoop(t)
  PROVE  IInv'
<1>1. PICK gradable \in BOOLEAN :
        turn' = [turn EXCEPT ![t].pc = "calling", ![t].attempt = 1,
                             ![t].gradable = gradable, ![t].difficulty = floor,
                             ![t].trail = <<NewDecision(current, NoVerdict)>>]
  BY DEF ContinueToolLoop
<1> DEFINE q == [turn[t] EXCEPT !.pc = "calling", !.attempt = 1, !.gradable = gradable,
                                !.difficulty = floor,
                                !.trail = <<NewDecision(current, NoVerdict)>>]
<1>2. turn' = [turn EXCEPT ![t] = q]
  BY <1>1
<1>3. current \in Route
  BY DEF IInv, ContinueToolLoop
<1>4. TurnInv(turn[t]) /\ turn[t] \in TurnState /\ turn[t].pc = "new" /\ floor \in Nat
  BY DEF IInv, ContinueToolLoop
<1>5. <<NewDecision(current, NoVerdict)>> \in Seq(Decision) /\ 1 \in 0..MaxAttempts
  BY <1>3, FirstDecision, NumbersAssumption
<1>6. /\ q \in TurnState /\ q.trail = <<NewDecision(current, NoVerdict)>> /\ q.pc = "calling"
      /\ q.tried = turn[t].tried /\ q.unfinished = turn[t].unfinished
      /\ q.reply = turn[t].reply /\ q.escalations = turn[t].escalations
  BY <1>4, <1>5 DEF TurnState
<1>7. Core(turn[t]) /\ turn[t].tried = {} /\ turn[t].unfinished = 0 /\ turn[t].reply = NoReply
  BY <1>4 DEF TurnInv, Placed
<1> HIDE DEF q
<1>8. TurnInv(q)
  BY <1>3, <1>6, <1>7, StartInv
<1> QED
  BY <1>2, <1>6, <1>8, OneTurn DEF ContinueToolLoop, IInv

LEMMA EscalateToolLoopInv ==
  ASSUME IInv, NEW t \in Turn, EscalateToolLoop(t)
  PROVE  IInv'
<1>1. PICK gradable \in BOOLEAN :
        turn' = [turn EXCEPT ![t].pc = "raising", ![t].why = "stuck",
                             ![t].gradable = gradable, ![t].difficulty = floor,
                             ![t].trail = <<NewDecision(current, NoVerdict)>>,
                             ![t].raised = FloorAfter(current, floor)]
  BY DEF EscalateToolLoop
<1> DEFINE q == [turn[t] EXCEPT !.pc = "raising", !.why = "stuck", !.gradable = gradable,
                                !.difficulty = floor,
                                !.trail = <<NewDecision(current, NoVerdict)>>,
                                !.raised = FloorAfter(current, floor)]
<1>2. turn' = [turn EXCEPT ![t] = q]
  BY <1>1
<1>3. current \in Route
  BY DEF IInv, EscalateToolLoop
<1>4. TurnInv(turn[t]) /\ turn[t] \in TurnState /\ turn[t].pc = "new" /\ floor \in Nat
  BY DEF IInv, EscalateToolLoop
<1>5. <<NewDecision(current, NoVerdict)>> \in Seq(Decision) /\ FloorAfter(current, floor) \in Nat
  BY <1>3, <1>4, FirstDecision, FloorAfterInNat
<1>6. /\ q \in TurnState /\ q.trail = <<NewDecision(current, NoVerdict)>>
      /\ q.pc = "raising" /\ q.why = "stuck"
      /\ q.tried = turn[t].tried /\ q.unfinished = turn[t].unfinished
      /\ q.reply = turn[t].reply /\ q.escalations = turn[t].escalations
  BY <1>4, <1>5 DEF TurnState, Reasons
<1>7. Core(turn[t]) /\ turn[t].tried = {} /\ turn[t].unfinished = 0 /\ turn[t].reply = NoReply
  BY <1>4 DEF TurnInv, Placed
<1> HIDE DEF q
<1>8. TurnInv(q)
  BY <1>3, <1>6, <1>7, StartInv
<1> QED
  BY <1>2, <1>3, <1>6, <1>8, OneTurn DEF EscalateToolLoop, IInv

\* What every turn whose call is in flight, or whose failure is being handled,
\* looks like.
LEMMA Underway ==
  ASSUME IInv, NEW t \in Turn, turn[t].pc \notin {"new", "done"}
  PROVE  /\ turn[t] \in TurnState /\ Core(turn[t]) /\ Placed(turn[t])
         /\ turn[t].trail # <<>> /\ turn[t].reply = NoReply
         /\ Result(t) \in Decision /\ Result(t).route \in Route
         /\ Result(t).verdict \in Verdict
         /\ Last(t) \in Nat /\ Last(t) \in 1..Len(turn[t].trail)
<1>1. turn[t] \in TurnState /\ Core(turn[t]) /\ Placed(turn[t])
  BY DEF IInv, TurnInv
<1>2. turn[t].trail # <<>> /\ turn[t].reply = NoReply
  BY <1>1 DEF Placed
<1>3. turn[t].trail \in Seq(Decision)
  BY <1>1 DEF TurnState
<1> QED
  BY <1>1, <1>2, <1>3, LastDecision DEF Result, Last

LEMMA AnswerCompleteInv ==
  ASSUME IInv, NEW t \in Turn, AnswerComplete(t)
  PROVE  IInv'
<1> DEFINE s == turn[t]
           q == [Observe(s, "ok") EXCEPT !.pc = "judging"]
<1>1. turn' = [turn EXCEPT ![t] = q] /\ s.pc = "calling"
  BY DEF AnswerComplete
<1>2. /\ s \in TurnState /\ Core(s) /\ s.trail # <<>> /\ s.reply = NoReply
      /\ s.trail[Len(s.trail)].observed = "pending" /\ Result(t).route \in Route
  BY <1>1, Underway DEF Placed
<1>3. Core(Observe(s, "ok")) /\ Observe(s, "ok").trail # <<>> /\ Observe(s, "ok").reply = NoReply
  BY <1>2, ObserveInv DEF Observe, TurnState
<1>4. Observe(s, "ok") \in TurnState
  BY <1>3 DEF Core
<1>5. /\ q \in TurnState /\ q.trail = Observe(s, "ok").trail /\ q.tried = Observe(s, "ok").tried
      /\ q.unfinished = Observe(s, "ok").unfinished /\ q.pc = "judging"
      /\ q.escalations <= Observe(s, "ok").escalations /\ q.reply = NoReply
  BY <1>3, <1>4 DEF TurnState
<1> HIDE DEF q, s
<1>6. Core(q)
  BY <1>3, <1>5, CoreFrame
<1>7. Placed(q)
  BY <1>3, <1>5 DEF Placed, Escalating, NoReply
<1>8. memory' \in [Route -> Seq({"ok", "truncated", "stale"})]
  BY <1>2, RememberType DEF AnswerComplete
<1> QED
  BY <1>1, <1>2, <1>5, <1>6, <1>7, <1>8, OneTurn DEF AnswerComplete, IInv, TurnInv

LEMMA AnswerCutInv ==
  ASSUME IInv, NEW t \in Turn, AnswerCut(t)
  PROVE  IInv'
<1> DEFINE s == turn[t]
           kept == [Observe(s, "truncated") EXCEPT
                      !.unfinished = IF @ = 0 THEN Len(s.trail) ELSE @]
           spent == [kept EXCEPT !.truncations = @ - 1]
           q == IF kept.truncations = 0 THEN AfterLoop(kept) ELSE Fail(spent, "cut")
<1>1. turn' = [turn EXCEPT ![t] = q] /\ s.pc = "calling"
  BY DEF AnswerCut, Last
<1>2. /\ s \in TurnState /\ Core(s) /\ s.trail # <<>> /\ s.reply = NoReply
      /\ s.trail[Len(s.trail)].observed = "pending" /\ Result(t).route \in Route
  BY <1>1, Underway DEF Placed
<1> HIDE DEF s
<1>3. Core(kept) /\ kept.trail # <<>> /\ kept.reply = NoReply
  BY <1>2, ObserveCutInv
<1>4. kept \in TurnState
  BY <1>3 DEF Core
<1> HIDE DEF kept
<1>5. CASE kept.truncations = 0
  <2>1. TurnInv(q) /\ q.pc = "done"
    BY <1>3, <1>4, <1>5, AfterLoopInv DEF AfterLoop, TurnState
  <2> QED
    BY <1>1, <1>2, <2>1, OneTurn, RememberType DEF AnswerCut, IInv
<1>6. CASE kept.truncations # 0
  <2>1. /\ spent \in TurnState /\ spent.trail = kept.trail /\ spent.tried = kept.tried
        /\ spent.unfinished = kept.unfinished /\ spent.reply = NoReply
        /\ spent.escalations <= kept.escalations
    <3>1. kept.truncations - 1 \in 0..TruncationRetries
      BY <1>4, <1>6, NumbersAssumption DEF TurnState
    <3>2. kept.escalations <= kept.escalations
      BY <1>4 DEF TurnState
    <3>3. /\ spent \in TurnState /\ spent.trail = kept.trail /\ spent.tried = kept.tried
          /\ spent.unfinished = kept.unfinished /\ spent.reply = kept.reply
          /\ spent.escalations = kept.escalations
      BY <1>4, <3>1 DEF TurnState
    <3> QED
      BY <1>3, <3>2, <3>3
  <2> HIDE DEF spent
  <2>2. Core(spent)
    BY <1>3, <2>1, CoreFrame
  <2>3. TurnInv(Fail(spent, "cut"))
    BY <1>3, <2>1, <2>2, FailInv DEF IInv, LoopReasons
  <2>4. Fail(spent, "cut").why = "cut"
    BY <2>1 DEF Fail, TurnState
  <2> QED
    BY <1>1, <1>2, <1>6, <2>3, <2>4, OneTurn, RememberType DEF AnswerCut, IInv
<1> QED
  BY <1>5, <1>6

LEMMA CallFailsInv ==
  ASSUME IInv, NEW t \in Turn, CallFails(t)
  PROVE  IInv'
<1> DEFINE s == turn[t]
           o == Observe(s, "error")
           q == [o EXCEPT !.lastError = Len(s.trail)]
<1>1. PICK why \in {"outage", "refused"} : turn' = [turn EXCEPT ![t] = Fail(q, why)]
  BY DEF CallFails, Last
<1>2. s.pc = "calling"
  BY DEF CallFails
<1>3. /\ s \in TurnState /\ Core(s) /\ s.trail # <<>> /\ s.reply = NoReply
      /\ s.trail[Len(s.trail)].observed = "pending" /\ Len(s.trail) \in Nat
  BY <1>2, Underway DEF Placed, Last
<1> HIDE DEF s
<1>4. Core(o) /\ o.trail # <<>> /\ o.reply = NoReply
  BY <1>3, ObserveInv DEF Observe, TurnState
<1> HIDE DEF o
<1>5. o \in TurnState
  BY <1>4 DEF Core
<1>6. /\ q \in TurnState /\ q.trail = o.trail /\ q.tried = o.tried
      /\ q.unfinished = o.unfinished /\ q.reply = NoReply /\ q.escalations <= o.escalations
  <2>1. \A n \in Nat : LET p == [o EXCEPT !.lastError = n]
           IN  /\ p \in TurnState /\ p.trail = o.trail /\ p.tried = o.tried
               /\ p.unfinished = o.unfinished /\ p.reply = o.reply
               /\ p.escalations = o.escalations
    BY <1>5 DEF TurnState
  <2>2. o.escalations <= o.escalations
    BY <1>5 DEF TurnState
  <2> QED
    BY <1>3, <1>4, <2>1, <2>2
<1> HIDE DEF q
<1>7. Core(q)
  BY <1>4, <1>6, CoreFrame
<1>8. TurnInv(Fail(q, why)) /\ Fail(q, why).why # "stuck"
  <2>1. why \in LoopReasons /\ why # "verdict" /\ why # "stuck"
    BY DEF LoopReasons
  <2>2. Fail(q, why).why = why
    BY <1>6 DEF Fail, TurnState
  <2> QED
    BY <1>4, <1>6, <1>7, <2>1, <2>2, FailInv DEF IInv
<1> QED
  BY <1>1, <1>8, OneTurn DEF CallFails, IInv

LEMMA BumpFloorInv ==
  ASSUME IInv, NEW t \in Turn, BumpFloorRead(t) \/ BumpFloorWrite(t)
  PROVE  IInv'
<1>1. turn[t].pc \in {"bumping", "bumped"}
  BY DEF BumpFloorRead, BumpFloorWrite
<1>2. /\ turn[t] \in TurnState /\ Core(turn[t]) /\ Placed(turn[t])
      /\ turn[t].trail # <<>> /\ turn[t].reply = NoReply
  BY <1>1, Underway
<1>3. Paid(turn[t].trail, turn[t].escalations + 1)
  BY <1>1, <1>2 DEF Placed, Escalating
<1>4. ASSUME NEW q \in TurnState, q.trail = turn[t].trail, q.tried = turn[t].tried,
             q.unfinished = turn[t].unfinished, q.escalations = turn[t].escalations,
             q.reply = NoReply, q.pc \in {"bumped", "steppingUp"}
      PROVE  TurnInv(q)
  <2>1. q.escalations <= turn[t].escalations
    BY <1>4 DEF TurnState
  <2>2. Core(q)
    BY <1>2, <1>4, <2>1, CoreFrame
  <2>3. Placed(q)
    BY <1>2, <1>3, <1>4 DEF Placed, Escalating, NoReply
  <2> QED
    BY <2>2, <2>3 DEF TurnInv
<1>5. CASE BumpFloorRead(t)
  <2> DEFINE q == [turn[t] EXCEPT !.pc = "bumped", !.raised = Larger(floor, DifficultyFloor)]
  <2>1. turn' = [turn EXCEPT ![t] = q]
    BY <1>5 DEF BumpFloorRead
  <2>2. Larger(floor, DifficultyFloor) \in Nat
    BY LargerInNat, NumbersAssumption DEF IInv
  <2>3. /\ q \in TurnState /\ q.trail = turn[t].trail /\ q.tried = turn[t].tried
        /\ q.unfinished = turn[t].unfinished /\ q.escalations = turn[t].escalations
        /\ q.reply = NoReply /\ q.pc = "bumped"
    BY <1>2, <2>2 DEF TurnState
  <2> HIDE DEF q
  <2>4. TurnInv(q)
    BY <1>4, <2>3
  <2> QED
    BY <1>5, <2>1, <2>3, <2>4, OneTurn DEF BumpFloorRead, IInv
<1>6. CASE BumpFloorWrite(t)
  <2> DEFINE q == [turn[t] EXCEPT !.pc = "steppingUp"]
  <2>1. turn' = [turn EXCEPT ![t] = q] /\ floor' = turn[t].raised
    BY <1>6 DEF BumpFloorWrite
  <2>2. /\ q \in TurnState /\ q.trail = turn[t].trail /\ q.tried = turn[t].tried
        /\ q.unfinished = turn[t].unfinished /\ q.escalations = turn[t].escalations
        /\ q.reply = NoReply /\ q.pc = "steppingUp" /\ turn[t].raised \in Nat
    BY <1>2 DEF TurnState
  <2> HIDE DEF q
  <2>3. TurnInv(q)
    BY <1>4, <2>2
  <2> QED
    BY <1>6, <2>1, <2>2, <2>3, OneTurn DEF BumpFloorWrite, IInv
<1> QED
  BY <1>5, <1>6

LEMMA CheckVerdictsType ==
  ASSUME IInv, NEW t \in Turn, turn[t].pc = "judging", NEW v \in CheckVerdicts(t)
  PROVE  v \in Verdict /\ v.escalations = Result(t).verdict.escalations
<1>1. Result(t).verdict \in Verdict
  BY Underway
<1>2. CASE v = Result(t).verdict
  BY <1>1, <1>2
<1>3. CASE \E status \in {"unchecked", "adequate", "rejected", "unavailable"} :
             v = [status |-> status, to |-> NoRoute,
                  escalations |-> Result(t).verdict.escalations]
  BY <1>1, <1>3 DEF Verdict
<1> QED
  BY <1>2, <1>3 DEF CheckVerdicts

\* The judge's verdict on the last answer of a turn.
LEMMA VerdictInv ==
  ASSUME NEW s, Core(s), s.trail # <<>>, NEW v \in Verdict,
         v.escalations = s.trail[Len(s.trail)].verdict.escalations
  PROVE  LET q == [s EXCEPT !.trail[Len(s.trail)].verdict = v]
         IN  Core(q) /\ q.trail # <<>>
<1> DEFINE n == Len(s.trail)
           d == [s.trail[n] EXCEPT !.verdict = v]
           o == [s.trail EXCEPT ![n] = d]
           q == [s EXCEPT !.trail = o]
<1>1. s \in TurnState /\ s.trail \in Seq(Decision) /\ n \in 1..n /\ n \in Nat
      /\ s.trail[n] \in Decision
  BY LastDecision DEF Core, TurnState
<1>2. d \in Decision /\ d.route = s.trail[n].route /\ d.verdict = v
      /\ d.observed = s.trail[n].observed
  BY <1>1 DEF Decision
<1>3. [s EXCEPT !.trail[n].verdict = v] = q
  BY <1>1 DEF TurnState
<1> HIDE DEF d
<1>4. /\ o \in Seq(Decision) /\ o # <<>> /\ Len(o) = n /\ o[n] = d
      /\ \A i \in 1..n : i # n => o[i] = s.trail[i]
      /\ TriedCovers(o, s.tried) /\ NoneTwice(o)
  BY <1>1, <1>2, RewriteLast DEF Core
<1> HIDE DEF o
<1>5. q \in TurnState /\ q.trail = o /\ q.tried = s.tried
      /\ q.unfinished = s.unfinished /\ q.escalations = s.escalations
  BY <1>1, <1>4 DEF TurnState
<1>6. Paid(o, s.escalations)
  BY <1>1, <1>2, <1>4 DEF Core, Paid
<1>7. FirstCut(o, s.unfinished)
  BY <1>1, <1>2, <1>4 DEF Core, FirstCut
<1> QED
  BY <1>3, <1>4, <1>5, <1>6, <1>7 DEF Core

LEMMA JudgeInv ==
  ASSUME IInv, NEW t \in Turn, Judge(t)
  PROVE  IInv'
<1>1. PICK v \in CheckVerdicts(t) :
        LET s     == [turn[t] EXCEPT !.trail[Last(t)].verdict = v]
            shown == IF s.checked # NoVerdict /\ v.status = "unchecked"
                     THEN s.checked ELSE v
        IN  turn' = [turn EXCEPT ![t] =
              IF Escalates(shown) /\ s.escalations > 0
              THEN [s EXCEPT !.pc = "bumping", !.escalations = @ - 1]
              ELSE [s EXCEPT !.pc = "done", !.reply = AnswerReply(t, shown)]]
  BY DEF Judge
<1> DEFINE s == [turn[t] EXCEPT !.trail[Len(turn[t].trail)].verdict = v]
           shown == IF s.checked # NoVerdict /\ v.status = "unchecked" THEN s.checked ELSE v
           up == [s EXCEPT !.pc = "bumping", !.escalations = @ - 1]
           end == [s EXCEPT !.pc = "done", !.reply = AnswerReply(t, shown)]
<1>2. turn' = [turn EXCEPT ![t] = IF Escalates(shown) /\ s.escalations > 0 THEN up ELSE end]
  BY <1>1 DEF Last
<1>3. /\ turn[t] \in TurnState /\ Core(turn[t]) /\ turn[t].trail # <<>>
      /\ turn[t].reply = NoReply /\ Last(t) \in Nat
      /\ Result(t) = turn[t].trail[Len(turn[t].trail)]
  BY Underway DEF Judge, Result, Last
<1>4. v \in Verdict /\ v.escalations = turn[t].trail[Len(turn[t].trail)].verdict.escalations
  BY <1>3, CheckVerdictsType DEF Judge
<1>5. Core(s) /\ s.trail # <<>>
  BY <1>3, <1>4, VerdictInv
<1>6. s.reply = NoReply
  BY <1>3 DEF TurnState
<1> HIDE DEF s
<1>7. s \in TurnState /\ shown \in Verdict
  BY <1>4, <1>5 DEF Core, TurnState
<1> HIDE DEF shown
<1>8. AnswerReply(t, shown) \in Reply /\ AnswerReply(t, shown).kind = "answer"
  BY <1>3, <1>7 DEF AnswerReply, Reply
<1>9. CASE Escalates(shown) /\ s.escalations > 0
  <2>1. s.escalations \in 0..MaxEscalations /\ s.escalations - 1 \in 0..MaxEscalations
    BY <1>7, <1>9, NumbersAssumption DEF TurnState
  <2>2. /\ up \in TurnState /\ up.trail = s.trail /\ up.tried = s.tried
        /\ up.unfinished = s.unfinished /\ up.escalations = s.escalations - 1
        /\ up.reply = NoReply /\ up.pc = "bumping"
    BY <1>6, <1>7, <2>1 DEF TurnState
  <2> HIDE DEF up
  <2>3. up.escalations + 1 = s.escalations /\ up.escalations <= s.escalations
    BY <2>1, <2>2, NumbersAssumption
  <2>4. Core(up)
    BY <1>5, <2>2, <2>3, CoreFrame
  <2>5. Paid(up.trail, up.escalations + 1)
    BY <1>5, <2>2, <2>3 DEF Core
  <2>6. Placed(up)
    BY <1>5, <2>2, <2>5 DEF Placed, Escalating, NoReply
  <2> QED
    BY <1>2, <1>9, <2>2, <2>4, <2>6, OneTurn DEF Judge, IInv, TurnInv
<1>10. CASE ~(Escalates(shown) /\ s.escalations > 0)
  <2>1. /\ end \in TurnState /\ end.pc = "done" /\ end.trail = s.trail /\ end.tried = s.tried
        /\ end.unfinished = s.unfinished /\ end.escalations = s.escalations
        /\ end.reply = AnswerReply(t, shown)
    BY <1>7, <1>8 DEF TurnState
  <2> HIDE DEF end
  <2>2. TurnInv(end)
    BY <1>5, <1>8, <2>1, RepliedInv
  <2> QED
    BY <1>2, <1>10, <2>1, <2>2, OneTurn DEF Judge, IInv
<1> QED
  BY <1>9, <1>10

LEMMA StepUpInv ==
  ASSUME IInv, NEW t \in Turn, StepUp(t)
  PROVE  IInv'
<1> DEFINE s == turn[t]
           targets == VerifiedStepUp(Result(t).route, s.tried \cup {Result(t).route})
<1>1. \/ \E r \in targets : turn' = [turn EXCEPT ![t] = Escalated(s, r)]
      \/ turn' = [turn EXCEPT ![t] = Fail(s, "verdict")]
  BY DEF StepUp
<1>2. /\ s \in TurnState /\ Core(s) /\ Placed(s) /\ s.trail # <<>> /\ s.reply = NoReply
      /\ Result(t) = s.trail[Len(s.trail)] /\ s.pc = "steppingUp"
  BY Underway DEF StepUp, Result, Last
<1>3. Paid(s.trail, s.escalations + 1)
  BY <1>2 DEF Placed, Escalating
<1>4. targets \subseteq Route \ (s.tried \cup {s.trail[Len(s.trail)].route})
  BY <1>2, CandidatesAreRoutes DEF VerifiedStepUp
<1> HIDE DEF s, targets
<1>5. ASSUME NEW r \in targets, turn' = [turn EXCEPT ![t] = Escalated(s, r)]
      PROVE  IInv'
  <2>1. TurnInv(Escalated(s, r))
    BY <1>2, <1>3, <1>4, EscalatedInv
  <2>2. Escalated(s, r).pc # "raising"
    BY <1>2 DEF Escalated, Adopt, AfterLoop, TurnState
  <2> QED
    BY <1>5, <2>1, <2>2, OneTurn DEF StepUp, IInv
<1>6. ASSUME turn' = [turn EXCEPT ![t] = Fail(s, "verdict")]
      PROVE  IInv'
  <2>1. TurnInv(Fail(s, "verdict"))
    BY <1>2, <1>3, FailInv DEF IInv
  <2>2. Fail(s, "verdict").why = "verdict"
    BY <1>2 DEF Fail, TurnState
  <2> QED
    BY <1>6, <2>1, <2>2, OneTurn DEF StepUp, IInv
<1> QED
  BY <1>1, <1>5, <1>6

LEMMA RejectedPlanRaisesInv ==
  ASSUME IInv, NEW t \in Turn, RejectedPlanRaises(t)
  PROVE  IInv'
<1> DEFINE p == [turn[t].reply EXCEPT !.kind = "raised"]
           q == [turn[t] EXCEPT !.pc = "done", !.reply = p]
<1>1. TurnInv(turn[t]) /\ turn[t] \in TurnState /\ turn[t].reply \in Reply
  BY DEF IInv, TurnState
<1>2. turn' = [turn EXCEPT ![t] = q]
  BY <1>1 DEF RejectedPlanRaises, TurnState
<1>3. p \in Reply /\ p.kind = "raised"
  BY <1>1 DEF Reply
<1> HIDE DEF p
<1>4. /\ q \in TurnState /\ q.pc = "done" /\ q.trail = turn[t].trail
      /\ q.tried = turn[t].tried /\ q.unfinished = turn[t].unfinished
      /\ q.escalations = turn[t].escalations /\ q.reply = p
  BY <1>1, <1>3 DEF TurnState
<1> HIDE DEF q
<1>5. TurnInv(q)
  BY <1>1, <1>3, <1>4, RepliedInv DEF TurnInv
<1> QED
  BY <1>2, <1>4, <1>5, OneTurn DEF RejectedPlanRaises, IInv

\* Policy A retries its own route; no other rule returns to one it has used.
LEMMA TargetsAreFresh ==
  ASSUME IInv, NEW t \in Turn, turn[t].pc = "raising"
  PROVE  /\ Targets(t) \subseteq Route
         /\ Policy # "A_static" => Targets(t) \cap TriedNow(t) = {}
<1>1. Result(t).route \in Route
  BY Underway
<1>2. \A x \in BOOLEAN : Candidates(x) \subseteq Route
  BY CandidatesAreRoutes
<1> QED
  BY <1>1, <1>2 DEF Targets, Stronger, Failed

LEMMA StoreFloorType ==
  ASSUME IInv, NEW t \in Turn, StoreFloor(t)
  PROVE  floor' \in Nat
BY DEF StoreFloor, IInv, TurnState

LEMMA StartAfterToolErrorsInv ==
  ASSUME IInv, NEW t \in Turn, StartAfterToolErrors(t)
  PROVE  IInv'
<1> DEFINE s == turn[t]
<1>1. s.pc = "raising" /\ s.why = "stuck"
  BY DEF StartAfterToolErrors
<1>2. /\ s \in TurnState /\ Core(s) /\ s.reply = NoReply
      /\ s.tried = {} /\ s.unfinished = 0 /\ current \in Route
  BY <1>1, Underway DEF Placed, IInv
<1>3. PICK r \in IF Targets(t) # {} THEN Targets(t) ELSE {current} :
        turn' = [turn EXCEPT ![t].pc = "calling", ![t].why = "none", ![t].attempt = 1,
                             ![t].trail = <<NewDecision(r, NoVerdict)>>]
  BY DEF StartAfterToolErrors
<1>4. r \in Route
  BY <1>1, <1>2, <1>3, TargetsAreFresh
<1> DEFINE q == [s EXCEPT !.pc = "calling", !.why = "none", !.attempt = 1,
                          !.trail = <<NewDecision(r, NoVerdict)>>]
<1>5. turn' = [turn EXCEPT ![t] = q]
  BY <1>3
<1> HIDE DEF s
<1>6. <<NewDecision(r, NoVerdict)>> \in Seq(Decision) /\ 1 \in 0..MaxAttempts
  BY <1>4, FirstDecision, NumbersAssumption
<1>7. /\ q \in TurnState /\ q.trail = <<NewDecision(r, NoVerdict)>> /\ q.pc = "calling"
      /\ q.tried = s.tried /\ q.unfinished = s.unfinished
      /\ q.reply = s.reply /\ q.escalations = s.escalations
  BY <1>2, <1>6 DEF TurnState, Reasons
<1> HIDE DEF q
<1>8. TurnInv(q)
  BY <1>2, <1>4, <1>7, StartInv
<1> QED
  BY <1>5, <1>7, <1>8, OneTurn, StoreFloorType DEF StartAfterToolErrors, IInv

LEMMA RetryInv ==
  ASSUME IInv, NEW t \in Turn, Retry(t)
  PROVE  IInv'
<1> DEFINE s == turn[t]
<1>1. /\ s.pc = "raising" /\ s.why # "stuck" /\ StoreFloor(t)
      /\ UNCHANGED <<current, memory, open>>
  BY DEF Retry
<1>2. PICK r \in Targets(t) :
        turn' = [turn EXCEPT ![t] = IF s.why = "verdict" THEN Escalated(s, r)
                                    ELSE Adopt(s, r, NoVerdict)]
  BY DEF Retry
<1>3. /\ s \in TurnState /\ Core(s) /\ Placed(s) /\ s.trail # <<>> /\ s.reply = NoReply
      /\ Result(t) = s.trail[Len(s.trail)]
  BY <1>1, Underway DEF Result, Last
<1>4. r \in Route /\ (Policy # "A_static" => r \notin s.tried \cup {s.trail[Len(s.trail)].route})
  BY <1>1, <1>3, TargetsAreFresh DEF TriedNow, Failed
<1>5. floor' \in Nat
  BY <1>1, StoreFloorType
<1> HIDE DEF s
<1>6. CASE s.why = "verdict"
  <2>1. Paid(s.trail, s.escalations + 1)
    BY <1>1, <1>3, <1>6 DEF Placed, Escalating
  <2>2. TurnInv(Escalated(s, r))
    BY <1>3, <1>4, <2>1, EscalatedInv
  <2>3. Escalated(s, r).pc # "raising"
    BY <1>3 DEF Escalated, Adopt, AfterLoop, TurnState
  <2> QED
    BY <1>1, <1>2, <1>5, <1>6, <2>2, <2>3, OneTurn DEF IInv
<1>7. CASE s.why # "verdict"
  <2>1. NoVerdict \in Verdict /\ NoVerdict.escalations = 0
    BY NumbersAssumption DEF NoVerdict, Verdict
  <2>2. NoVerdict.escalations + s.escalations <= MaxEscalations
    BY <1>3, <2>1, NumbersAssumption DEF TurnState
  <2>3. TurnInv(Adopt(s, r, NoVerdict))
    BY <1>3, <1>4, <2>1, <2>2, AdoptInv
  <2>4. Adopt(s, r, NoVerdict).pc # "raising"
    BY <1>3 DEF Adopt, AfterLoop, TurnState
  <2> QED
    BY <1>1, <1>2, <1>5, <1>7, <2>3, <2>4, OneTurn DEF IInv
<1> QED
  BY <1>6, <1>7

LEMMA GiveUpInv ==
  ASSUME IInv, NEW t \in Turn, GiveUp(t)
  PROVE  IInv'
<1> DEFINE s == turn[t]
           left == [s EXCEPT !.why = "none"]
           end == [s EXCEPT !.pc = "done", !.why = "none",
                            !.reply = AnswerReply(t, Result(t).verdict)]
<1>1. /\ s.pc = "raising" /\ StoreFloor(t) /\ UNCHANGED <<current, memory, open>>
      /\ turn' = [turn EXCEPT ![t] = IF s.why = "verdict" THEN end ELSE AfterLoop(left)]
  BY DEF GiveUp
<1>2. /\ s \in TurnState /\ Core(s) /\ s.trail # <<>> /\ s.reply = NoReply
      /\ Result(t).verdict \in Verdict /\ Last(t) \in Nat
  BY <1>1, Underway
<1>3. floor' \in Nat
  BY <1>1, StoreFloorType
<1>4. AnswerReply(t, Result(t).verdict) \in Reply
      /\ AnswerReply(t, Result(t).verdict).kind = "answer"
  BY <1>2 DEF AnswerReply, Reply
<1> HIDE DEF s
<1>5. /\ end \in TurnState /\ end.pc = "done" /\ end.trail = s.trail /\ end.tried = s.tried
      /\ end.unfinished = s.unfinished /\ end.escalations = s.escalations
      /\ end.reply = AnswerReply(t, Result(t).verdict)
  BY <1>2, <1>4 DEF TurnState, Reasons
<1>6. /\ left \in TurnState /\ left.trail = s.trail /\ left.tried = s.tried
      /\ left.unfinished = s.unfinished /\ left.escalations = s.escalations
  BY <1>2 DEF TurnState, Reasons
<1> HIDE DEF end, left
<1>7. TurnInv(end)
  BY <1>2, <1>4, <1>5, RepliedInv
<1>8. left.escalations <= s.escalations
  BY <1>6 DEF TurnState
<1>9. Core(left)
  BY <1>2, <1>6, <1>8, CoreFrame
<1>10. TurnInv(AfterLoop(left)) /\ AfterLoop(left).pc = "done"
  BY <1>2, <1>6, <1>9, AfterLoopInv DEF AfterLoop, TurnState
<1> QED
  BY <1>1, <1>3, <1>5, <1>7, <1>10, OneTurn DEF IInv

LEMMA OutcomeExpiresInv ==
  ASSUME IInv, OutcomeExpires
  PROVE  IInv'
<1> DEFINE S == {"ok", "truncated", "stale"}
<1>1. PICK r \in Route : \E i \in 1..Len(memory[r]) :
        memory' = [memory EXCEPT ![r][i] = "stale"]
  BY DEF OutcomeExpires
<1>2. PICK i \in 1..Len(memory[r]) : memory' = [memory EXCEPT ![r][i] = "stale"]
  BY <1>1
<1>3. memory \in [Route -> Seq(S)] /\ memory[r] \in Seq(S) /\ "stale" \in S
  BY DEF IInv
<1> HIDE DEF S
<1>4. [memory[r] EXCEPT ![i] = "stale"] \in Seq(S)
  BY <1>3
<1>5. memory' \in [Route -> Seq(S)]
  BY <1>2, <1>3, <1>4
<1> QED
  BY <1>5 DEF OutcomeExpires, IInv, S

----------------------------------------------------------------------------
(* The theorems *)

LEMMA InitInv == Init => IInv
<1> SUFFICES ASSUME Init
    PROVE  IInv
  OBVIOUS
<1>1. NoVerdict \in Verdict
  BY NumbersAssumption DEF NoVerdict, Verdict
<1>2. NoReply \in Reply
  BY <1>1 DEF NoReply, Reply
<1>3. <<>> \in Seq(Decision) /\ Len(<<>>) = 0
  OBVIOUS
<1>4. NewTurn \in TurnState
  BY <1>1, <1>2, <1>3, NumbersAssumption DEF NewTurn, TurnState, Reasons
<1>5. Core(NewTurn)
  BY <1>3, <1>4 DEF Core, NewTurn, TriedCovers, NoneTwice, Paid, FirstCut
<1>6. Placed(NewTurn)
  BY DEF Placed, NewTurn, Escalating, NoReply
<1>7. turn \in [Turn -> TurnState] /\ \A t \in Turn : turn[t] = NewTurn
  BY <1>4 DEF Init
<1>8. \A t \in Turn : TurnInv(turn[t])
  BY <1>5, <1>6, <1>7 DEF TurnInv
<1>9. \A t \in Turn : turn[t].pc = "new"
  BY <1>7 DEF NewTurn
<1>10. memory \in [Route -> Seq({"ok", "truncated", "stale"})]
  BY DEF Init
<1> QED
  BY <1>7, <1>8, <1>9, <1>10 DEF Init, IInv

\* One step per action.
LEMMA NextInv == IInv /\ [Next]_vars => IInv'
<1> SUFFICES ASSUME IInv, [Next]_vars
    PROVE  IInv'
  OBVIOUS
<1>1. ASSUME NEW t \in Turn, Request(t)
      PROVE  IInv'
  BY <1>1, RouteTurnInv, NoRouteAvailableInv, ContinueToolLoopInv, EscalateToolLoopInv DEF Request
<1>2. ASSUME NEW t \in Turn, Serve(t)
      PROVE  IInv'
  BY <1>2, AnswerCompleteInv, AnswerCutInv, CallFailsInv, JudgeInv, BumpFloorInv, StepUpInv,
     RejectedPlanRaisesInv, StartAfterToolErrorsInv, RetryInv, GiveUpInv DEF Serve
<1>3. CASE QuotaTurns
  BY <1>3 DEF QuotaTurns, IInv
<1>4. CASE OutcomeExpires
  BY <1>4, OutcomeExpiresInv
<1>5. CASE UNCHANGED vars
  BY <1>5 DEF vars, IInv
<1> QED
  BY <1>1, <1>2, <1>3, <1>4, <1>5 DEF Next

\* The strengthening holds throughout: every turn's trail, tried set, budgets
\* and kept answer agree, wherever its handler stands.
THEOREM Invariance == Spec => []IInv
  BY InitInv, NextInv, PTL DEF Spec

\* Every variable of the engine has its declared type, for every catalog,
\* policy and budget: no retry leaves the attempt range, the escalation
\* counters stay within max_escalations.
THEOREM TypeCorrect == Spec => []TypeOK
<1>1. IInv => TypeOK
  BY DEF IInv, TypeOK
<1> QED
  BY <1>1, Invariance, PTL

\* A turn never calls a route twice, under every policy but the fixed one,
\* which by design retries its own route.
THEOREM RoutesOnce ==
  ASSUME Policy # "A_static"
  PROVE  Spec => []NoRouteTwice
<1>1. IInv => NoRouteTwice
  BY DEF IInv, TurnInv, Core, NoneTwice, NoRouteTwice, Indexes, Last
<1> QED
  BY <1>1, Invariance, PTL

----------------------------------------------------------------------------
(* What a turn pays for, why an answer is replaced, what is left of those   *)
(* that were not finished and what the client sees.  On top of the invariant above, one more       *)
(* predicate on the local state of a turn relates its trail to its          *)
(* remaining budgets, its verdicts and its reply; and each action is shown  *)
(* to add at most one outcome to that trail.                                *)

\* The calls of a trail that returned, those that were billed, and what the
\* calls returned.
Observed(trail) == {i \in 1..Len(trail) : trail[i].observed # "pending"}
Billed(trail) == {i \in 1..Len(trail) : trail[i].observed \in {"ok", "truncated"}}
Got(trail) == {trail[i].observed : i \in Observed(trail)}

\* The step up after a rejection is measured at all: not under the fixed
\* policy, and not with a required gain of nothing.
Measured == Policy # "A_static" /\ MinGain > 0

\* A complete answer d gave way to e.
Replacement(d, e) ==
  d.observed = "ok" => /\ d.verdict.status = "rejected"
                       /\ d.verdict.to = e.route
                       /\ Measured => Capability[e.route] > Capability[d.route]

Replaced(trail) ==
  \A i \in 1..Len(trail) : i < Len(trail) => Replacement(trail[i], trail[i + 1])

\* What was billed came out of the two budgets, but for `free` answers.
Spent(s, free) ==
  Cardinality(Billed(s.trail)) + s.truncations + s.escalations
    <= TruncationRetries + MaxEscalations + free

\* A verdict carried over from an earlier answer names the route it led to.
CarriedOver(v) == v = NoVerdict \/ v.to \in Route

InLoop(s) ==
  \/ s.pc \in {"calling", "judging", "bumping", "bumped", "steppingUp"}
  \/ s.pc = "raising" /\ s.why # "stuck"

\* How the last call of a turn stands, wherever its handler is.
Standing(s) ==
  /\ InLoop(s) => Len(s.trail) = s.attempt
  /\ s.pc = "judging" \/ Escalating(s) => s.trail[Len(s.trail)].observed = "ok"
  /\ Escalating(s) => s.trail[Len(s.trail)].verdict.status = "rejected"
  /\ s.pc = "raising" => s.why \in LoopReasons \cup {"verdict", "stuck"}
  /\ s.pc = "raising" /\ s.why \in LoopReasons =>
       s.trail[Len(s.trail)].observed \in {"truncated", "error"}
  /\ s.pc = "raising" /\ s.why = "stuck" =>
       Len(s.trail) = 1 /\ s.trail[1].observed = "pending"
  /\ s.pc \in {"bumping", "bumped", "steppingUp"} =>
       s.trail[Len(s.trail)].route \in Below \cup Cheap

\* What holds of a turn's history: its budgets and its replacements add up,
\* and its reply fits what its calls returned, unless a plan was graded.
Answers(s) ==
  /\ Spent(s, IF s.pc \in {"judging", "done"} THEN 1 ELSE 0)
  /\ Replaced(s.trail)
  /\ CarriedOver(s.checked)
  /\ Standing(s)
  /\ s.reply.kind \notin {"none", "raised"} => Service!Fits(s.reply.kind, Got(s.trail))
  /\ s.reply.kind = "raised" => ~NoPlanGraded

\* The second inductive invariant of the engine, on top of IInv.
AInv == \A t \in Turn : Answers(turn[t])

----------------------------------------------------------------------------
(* Trails *)

\* What the calls that returned look like from outside is the same.
SamePast(a, b) ==
  /\ Observed(b) = Observed(a)
  /\ \A i \in Observed(a) : b[i].route = a[i].route /\ b[i].observed = a[i].observed

\* The call in flight returned, and nothing else changed.
OneMore(a, b, status) ==
  /\ a # <<>> /\ Len(b) = Len(a) /\ a[Len(a)].observed = "pending"
  /\ b[Len(a)].observed = status /\ b[Len(a)].route = a[Len(a)].route
  /\ \A i \in 1..Len(a) : i # Len(a) => b[i] = a[i]

LEMMA SamePastIsRefl ==
  ASSUME NEW a
  PROVE  SamePast(a, a)
BY DEF SamePast

LEMMA SamePastKeeps ==
  ASSUME NEW a, NEW b, SamePast(a, b)
  PROVE  Billed(b) = Billed(a) /\ Got(b) = Got(a)
<1>1. \A x : Billed(x) = {i \in Observed(x) : x[i].observed \in {"ok", "truncated"}}
  BY DEF Billed, Observed
<1> QED
  BY <1>1 DEF SamePast, Got

LEMMA BilledIsFinite ==
  ASSUME NEW trail \in Seq(Decision)
  PROVE  IsFiniteSet(Billed(trail)) /\ Cardinality(Billed(trail)) \in Nat
<1>1. Len(trail) \in Nat
  OBVIOUS
<1>2. IsFiniteSet(1..Len(trail))
  BY <1>1, FS_Interval
<1>3. Billed(trail) \in SUBSET (1..Len(trail))
  BY DEF Billed
<1> QED
  BY <1>2, <1>3, FS_Subset, FS_CardinalityType

\* The last decision gets another verdict.
LEMMA VerdictOnTrail ==
  ASSUME NEW trail \in Seq(Decision), trail # <<>>, NEW d \in Decision,
         d.route = trail[Len(trail)].route, d.observed = trail[Len(trail)].observed
  PROVE  LET o == [trail EXCEPT ![Len(trail)] = d]
         IN  /\ SamePast(trail, o)
             /\ Replaced(trail) => Replaced(o)
<1> DEFINE n == Len(trail)
           o == [trail EXCEPT ![n] = d]
<1>1. /\ n \in Nat /\ n # 0 /\ Len(o) = n /\ o[n] = d
      /\ \A i \in 1..n : i # n => o[i] = trail[i]
  BY RewriteLast
<1> HIDE DEF o
<1>2. \A i \in 1..n : o[i].observed = trail[i].observed /\ o[i].route = trail[i].route
  BY <1>1
<1>3. SamePast(trail, o)
  BY <1>1, <1>2 DEF SamePast, Observed
<1>4. ASSUME Replaced(trail), NEW i \in 1..n, i < n
      PROVE  Replacement(o[i], o[i + 1])
  <2>1. i + 1 \in 1..n /\ o[i] = trail[i]
    BY <1>1, <1>4
  <2>2. Replacement(trail[i], trail[i + 1]) /\ o[i + 1].route = trail[i + 1].route
    BY <1>2, <1>4, <2>1 DEF Replaced
  <2> QED
    BY <2>1, <2>2 DEF Replacement
<1> QED
  BY <1>1, <1>3, <1>4 DEF Replaced, o

\* A decision whose call is still to be made.
LEMMA CallOnTrail ==
  ASSUME NEW trail \in Seq(Decision), trail # <<>>, NEW d \in Decision,
         d.observed = "pending", Replaced(trail), Replacement(trail[Len(trail)], d)
  PROVE  LET o == Append(trail, d)
         IN  /\ SamePast(trail, o) /\ Replaced(o)
             /\ Len(o) = Len(trail) + 1 /\ o[Len(o)] = d
<1> DEFINE n == Len(trail)
           o == Append(trail, d)
<1>1. /\ n \in Nat /\ n # 0 /\ Len(o) = n + 1 /\ o[n + 1] = d
      /\ \A i \in 1..n : o[i] = trail[i]
  OBVIOUS
<1> HIDE DEF o
<1>2. SamePast(trail, o)
  <2>1. Observed(o) = Observed(trail)
    BY <1>1 DEF Observed
  <2> QED
    BY <1>1, <2>1 DEF SamePast, Observed
<1>3. ASSUME NEW i \in 1..(n + 1), i < n + 1
      PROVE  Replacement(o[i], o[i + 1])
  <2>1. CASE i = n
    BY <1>1, <2>1
  <2>2. CASE i # n
    <3>1. i \in 1..n /\ i < n /\ i + 1 \in 1..n
      BY <1>1, <1>3, <2>2
    <3> QED
      BY <1>1, <3>1 DEF Replaced
  <2> QED
    BY <2>1, <2>2
<1> QED
  BY <1>1, <1>2, <1>3 DEF Replaced, o

\* The call in flight returns.
LEMMA OutcomeOnTrail ==
  ASSUME NEW a \in Seq(Decision), NEW b \in Seq(Decision),
         NEW status \in {"ok", "truncated", "error"}, OneMore(a, b, status)
  PROVE  /\ Got(b) = Got(a) \cup {status}
         /\ Observed(b) = Observed(a) \cup {Len(a)} /\ Len(a) \notin Observed(a)
         /\ \A i \in Observed(a) : b[i] = a[i]
         /\ Billed(b) = IF status = "error" THEN Billed(a) ELSE Billed(a) \cup {Len(a)}
         /\ Len(a) \notin Billed(a)
         /\ Cardinality(Billed(b)) <= Cardinality(Billed(a)) + 1
         /\ status = "error" => Cardinality(Billed(b)) = Cardinality(Billed(a))
         /\ Replaced(a) => Replaced(b)
<1> DEFINE n == Len(a)
<1>1. /\ n \in Nat /\ n # 0 /\ n \in 1..n /\ Len(b) = n /\ a[n].observed = "pending"
      /\ b[n].observed = status /\ b[n].route = a[n].route
      /\ \A i \in 1..n : i # n => b[i] = a[i]
  BY DEF OneMore
<1>2. Observed(b) = Observed(a) \cup {n} /\ n \notin Observed(a)
  BY <1>1 DEF Observed
<1>3. \A i \in Observed(a) : b[i] = a[i]
  BY <1>1, <1>2 DEF Observed
<1>4. Got(b) = Got(a) \cup {status}
  BY <1>1, <1>2, <1>3 DEF Got
<1>5. Billed(b) = IF status = "error" THEN Billed(a) ELSE Billed(a) \cup {n}
  BY <1>1 DEF Billed
<1>6. n \notin Billed(a)
  BY <1>1 DEF Billed
<1>7. /\ Cardinality(Billed(b)) <= Cardinality(Billed(a)) + 1
      /\ status = "error" => Cardinality(Billed(b)) = Cardinality(Billed(a))
  <2>1. IsFiniteSet(Billed(a)) /\ Cardinality(Billed(a)) \in Nat
    BY BilledIsFinite
  <2>2. Cardinality(Billed(a) \cup {n}) = Cardinality(Billed(a)) + 1
    BY <1>6, <2>1, FS_AddElement
  <2> QED
    BY <1>5, <2>1, <2>2
<1>8. ASSUME Replaced(a), NEW i \in 1..n, i < n
      PROVE  Replacement(b[i], b[i + 1])
  <2>1. i + 1 \in 1..n /\ b[i] = a[i] /\ b[i + 1].route = a[i + 1].route
    BY <1>1, <1>8
  <2> QED
    BY <1>8, <2>1 DEF Replaced, Replacement
<1>9. Replaced(a) => Replaced(b)
  BY <1>1, <1>8 DEF Replaced
<1> QED
  BY <1>2, <1>3, <1>4, <1>5, <1>6, <1>7, <1>9

----------------------------------------------------------------------------
(* The operators of the attempt loop *)

\* The bound on what was billed in terms of the fields it reads.
LEMMA SpentByFields ==
  ASSUME NEW s \in TurnState, NEW q \in TurnState, NEW free \in {0, 1}, Spent(s, free),
         Billed(q.trail) = Billed(s.trail),
         q.truncations <= s.truncations, q.escalations <= s.escalations,
         NEW more \in {0, 1}, free <= more
  PROVE  Spent(q, more)
<1>1. Cardinality(Billed(s.trail)) \in Nat
  BY BilledIsFinite DEF TurnState
<1>2. /\ s.truncations \in Nat /\ q.truncations \in Nat
      /\ s.escalations \in Nat /\ q.escalations \in Nat
  BY NumbersAssumption DEF TurnState
<1> QED
  BY <1>1, <1>2, NumbersAssumption DEF Spent

\* Something returned, and what was kept of it fits the reply after the loop.
LEMMA AfterLoopAnswers ==
  ASSUME NEW s, Core(s), Spent(s, 1), Replaced(s.trail), CarriedOver(s.checked),
         Observed(s.trail) # {}
  PROVE  LET q == AfterLoop(s)
         IN  /\ Answers(q) /\ q.trail = s.trail /\ q.pc = "done"
             /\ q.reply.kind \in {"partial", "error"}
             /\ s.unfinished # 0 => q.reply.kind = "partial"
<1> DEFINE q == AfterLoop(s)
<1>1. s \in TurnState /\ FirstCut(s.trail, s.unfinished) /\ Len(s.trail) \in Nat
  BY DEF Core, TurnState
<1>2. /\ q.trail = s.trail /\ q.pc = "done" /\ q.checked = s.checked
      /\ q.truncations = s.truncations /\ q.escalations = s.escalations
      /\ q.reply.kind = IF s.unfinished # 0 THEN "partial" ELSE "error"
  BY <1>1 DEF AfterLoop, TurnState, NoReply
<1> HIDE DEF q
<1>3. s.unfinished # 0 => "truncated" \in Got(s.trail)
  BY <1>1 DEF FirstCut, Got, Observed
<1>4. s.unfinished = 0 => Got(s.trail) # {} /\ "truncated" \notin Got(s.trail)
  BY <1>1 DEF FirstCut, Got, Observed
<1>5. Service!Fits(q.reply.kind, Got(q.trail))
  BY <1>2, <1>3, <1>4 DEF Service!Fits
<1>6. Spent(q, 1)
  BY <1>2 DEF Spent
<1>7. Standing(q)
  BY <1>2 DEF Standing, InLoop, Escalating
<1> QED
  BY <1>2, <1>5, <1>6, <1>7 DEF Answers, q

\* The next route is adopted after a failure, or after a rejection that names it.
LEMMA AdoptAnswers ==
  ASSUME NEW s, Core(s), s.trail # <<>>, s.reply = NoReply,
         NEW r \in Route, NEW v \in Verdict, v.escalations + s.escalations <= MaxEscalations,
         Policy # "A_static" => r \notin s.tried \cup {s.trail[Len(s.trail)].route},
         Spent(s, 0), Replaced(s.trail), CarriedOver(s.checked), Len(s.trail) = s.attempt,
         s.trail[Len(s.trail)].observed # "pending",
         Replacement(s.trail[Len(s.trail)], NewDecision(r, v))
  PROVE  LET q == Adopt(s, r, v)
         IN  /\ Answers(q) /\ SamePast(s.trail, q.trail)
             /\ q.reply = NoReply \/ q.reply.kind \in {"partial", "error"}
<1> DEFINE n == Len(s.trail)
           d == NewDecision(r, v)
           o == Append(s.trail, d)
           next == [s EXCEPT !.trail = o, !.tried = @ \cup {s.trail[n].route}, !.why = "none"]
           again == [next EXCEPT !.pc = "calling", !.attempt = @ + 1]
<1>1. /\ s \in TurnState /\ s.trail \in Seq(Decision) /\ n \in Nat /\ n \in 1..n
      /\ s.attempt \in 0..MaxAttempts /\ s.trail[n].route \in Route
  BY LastDecision DEF Core, TurnState
<1>2. d \in Decision /\ d.observed = "pending"
  BY DEF NewDecision, Decision
<1> HIDE DEF d
<1>3. SamePast(s.trail, o) /\ Replaced(o) /\ Len(o) = n + 1 /\ o[Len(o)] = d
      /\ o \in Seq(Decision)
  BY <1>1, <1>2, CallOnTrail DEF d
<1> HIDE DEF o
<1>4. /\ next \in TurnState /\ next.trail = o /\ next.checked = s.checked
      /\ next.truncations = s.truncations /\ next.escalations = s.escalations
      /\ next.reply = NoReply /\ next.attempt = s.attempt
  BY <1>1, <1>3 DEF TurnState, Reasons
<1>5. Adopt(s, r, v) = IF s.attempt < MaxAttempts THEN again ELSE AfterLoop(next)
  BY DEF Adopt, o, d
<1>6. Billed(o) = Billed(s.trail) /\ Got(o) = Got(s.trail)
  BY <1>3, SamePastKeeps
<1>7. CASE s.attempt < MaxAttempts
  <2>1. s.attempt + 1 \in 0..MaxAttempts
    BY <1>1, <1>7, NumbersAssumption
  <2>2. /\ again \in TurnState /\ again.trail = o /\ again.checked = s.checked
        /\ again.truncations = s.truncations /\ again.escalations = s.escalations
        /\ again.pc = "calling" /\ again.reply = NoReply /\ again.attempt = s.attempt + 1
    BY <1>1, <1>4, <2>1 DEF TurnState
  <2> HIDE DEF again
  <2>3. Spent(again, 0)
    BY <1>6, <2>2 DEF Spent
  <2>4. Standing(again)
    BY <1>3, <2>2 DEF Standing, InLoop, Escalating
  <2> QED
    BY <1>3, <1>5, <1>7, <2>2, <2>3, <2>4 DEF Answers, NoReply
<1>8. CASE ~(s.attempt < MaxAttempts)
  <2>1. Core(next)
    <3>1. TurnInv(Adopt(s, r, v))
      BY AdoptInv
    <3>2. TurnInv(AfterLoop(next))
      BY <1>5, <1>8, <3>1
    <3> DEFINE q == AfterLoop(next)
    <3> HIDE DEF next
    <3>3. q.trail = next.trail /\ q.tried = next.tried /\ q.unfinished = next.unfinished
          /\ q.escalations = next.escalations
      BY <1>4 DEF AfterLoop, TurnState
    <3>4. Core(q)
      BY <3>2 DEF TurnInv
    <3> HIDE DEF q
    <3> QED
      BY <1>4, <3>3, <3>4 DEF Core
  <2> HIDE DEF next
  <2>2. Spent(next, 1)
    <3>1. Spent(next, 0)
      BY <1>4, <1>6 DEF Spent
    <3>2. next.truncations <= next.truncations /\ next.escalations <= next.escalations
      BY <1>4 DEF TurnState
    <3> QED
      BY <1>4, <3>1, <3>2, SpentByFields
  <2>3. Observed(next.trail) # {}
    BY <1>1, <1>3, <1>4 DEF SamePast, Observed
  <2>4. /\ Answers(AfterLoop(next)) /\ AfterLoop(next).trail = o
        /\ AfterLoop(next).reply.kind \in {"partial", "error"}
    BY <1>3, <1>4, <2>1, <2>2, <2>3, AfterLoopAnswers
  <2> QED
    BY <1>3, <1>5, <1>8, <2>4
<1> QED
  BY <1>7, <1>8

\* A rejected answer gives way to a route that the rejecting verdict names.
LEMMA EscalatedAnswers ==
  ASSUME NEW s, Core(s), s.trail # <<>>, s.reply = NoReply,
         Paid(s.trail, s.escalations + 1), NEW r \in Route,
         Policy # "A_static" => r \notin s.tried \cup {s.trail[Len(s.trail)].route},
         Spent(s, 0), Replaced(s.trail), Len(s.trail) = s.attempt,
         s.trail[Len(s.trail)].observed = "ok",
         s.trail[Len(s.trail)].verdict.status = "rejected",
         Measured => Capability[r] > Capability[s.trail[Len(s.trail)].route]
  PROVE  LET q == Escalated(s, r)
         IN  /\ Answers(q) /\ SamePast(s.trail, q.trail)
             /\ q.reply = NoReply \/ q.reply.kind \in {"partial", "error"}
<1> DEFINE n == Len(s.trail)
           v == [s.trail[n].verdict EXCEPT !.to = r, !.escalations = @ + 1]
           d == [s.trail[n] EXCEPT !.verdict = v]
           o == [s.trail EXCEPT ![n] = d]
           q == [s EXCEPT !.trail = o, !.checked = v]
<1>1. s \in TurnState /\ s.trail \in Seq(Decision) /\ s.escalations \in Nat
      /\ FirstCut(s.trail, s.unfinished)
  BY DEF Core, TurnState
<1>2. n \in 1..n /\ s.trail[n] \in Decision /\ s.trail[n].verdict \in Verdict
      /\ s.trail[n].verdict.escalations \in 0..MaxEscalations
  BY <1>1, LastDecision
<1> DEFINE spent == s.trail[n].verdict.escalations
<1>3. spent + 1 + s.escalations <= MaxEscalations /\ spent + 1 \in 0..MaxEscalations
  <2>1. spent + (s.escalations + 1) <= MaxEscalations
    BY DEF Paid
  <2>2. spent \in Nat /\ s.escalations \in Nat /\ MaxEscalations \in Nat
    BY <1>1, <1>2, NumbersAssumption
  <2>3. \A a, b, m \in Nat : a + (b + 1) <= m => a + 1 + b <= m /\ a + 1 \in 0..m
    OBVIOUS
  <2> HIDE DEF spent
  <2> QED
    BY <2>1, <2>2, <2>3
<1>4. /\ v \in Verdict /\ v.escalations = s.trail[n].verdict.escalations + 1
      /\ v.to = r /\ v.status = "rejected"
  <2>1. \A w \in Verdict : \A e \in 0..MaxEscalations :
          LET u == [w EXCEPT !.to = r, !.escalations = e]
          IN  u \in Verdict /\ u.escalations = e /\ u.to = r /\ u.status = w.status
    BY DEF Verdict
  <2> QED
    BY <1>2, <1>3, <2>1
<1>5. v.escalations + s.escalations <= MaxEscalations
  BY <1>3, <1>4
<1> HIDE DEF v
<1>6. d \in Decision /\ d.route = s.trail[n].route /\ d.verdict = v
      /\ d.observed = s.trail[n].observed
  BY <1>2, <1>4 DEF Decision
<1> HIDE DEF d
<1>7. /\ o \in Seq(Decision) /\ o # <<>> /\ Len(o) = n /\ o[n] = d
      /\ \A i \in 1..n : i # n => o[i] = s.trail[i]
      /\ TriedCovers(o, s.tried) /\ NoneTwice(o)
  BY <1>1, <1>6, RewriteLast DEF Core
<1>8. SamePast(s.trail, o) /\ Replaced(o)
  BY <1>1, <1>6, VerdictOnTrail
<1> HIDE DEF o
<1>9. /\ q \in TurnState /\ q.trail = o /\ q.tried = s.tried /\ q.reply = NoReply
      /\ q.unfinished = s.unfinished /\ q.escalations = s.escalations
      /\ q.truncations = s.truncations /\ q.checked = v /\ q.attempt = s.attempt
  BY <1>1, <1>4, <1>7 DEF TurnState
<1>10. Escalated(s, r) = Adopt(q, r, v)
  BY <1>1 DEF Escalated, TurnState, o, d, v
<1> HIDE DEF q
<1>11. Core(q)
  <2>1. Paid(o, s.escalations)
    BY <1>5, <1>6, <1>7 DEF Paid
  <2>2. FirstCut(o, s.unfinished)
    <3>1. FirstCut(s.trail, s.unfinished) /\ Len(s.trail) = n
      BY <1>1, <1>2 DEF Core
    <3>2. \A i \in 1..n : o[i].observed = s.trail[i].observed
      BY <1>6, <1>7
    <3> QED
      BY ONLY <3>1, <3>2, <1>7 DEF FirstCut
  <2> QED
    BY <1>7, <1>9, <2>1, <2>2 DEF Core
<1>12. Policy # "A_static" => r \notin q.tried \cup {q.trail[Len(q.trail)].route}
  BY <1>6, <1>7, <1>9
<1>13. Spent(q, 0)
  BY <1>9, <1>8, SamePastKeeps DEF Spent
<1>14. Replacement(q.trail[Len(q.trail)], NewDecision(r, v))
  BY <1>4, <1>6, <1>7, <1>9 DEF Replacement, NewDecision
<1>15. /\ q.trail # <<>> /\ CarriedOver(q.checked) /\ Len(q.trail) = q.attempt
       /\ q.trail[Len(q.trail)].observed # "pending" /\ Replaced(q.trail)
  BY <1>4, <1>6, <1>7, <1>9, <1>8 DEF CarriedOver
<1>16. v.escalations + q.escalations <= MaxEscalations
  BY <1>5, <1>9
<1> DEFINE p == Adopt(q, r, v)
<1>17. /\ Answers(p) /\ SamePast(q.trail, p.trail)
       /\ p.reply = NoReply \/ p.reply.kind \in {"partial", "error"}
  BY <1>4, <1>9, <1>11, <1>12, <1>13, <1>14, <1>15, <1>16, AdoptAnswers
<1> HIDE DEF p
<1>18. SamePast(s.trail, p.trail)
  BY <1>9, <1>17, <1>8 DEF SamePast
<1> QED
  BY <1>10, <1>17, <1>18 DEF p

\* The failure rule starts on a turn whose last call has been observed.
LEMMA FailAnswers ==
  ASSUME NEW s, Core(s), s.trail # <<>>, s.reply = NoReply, floor \in Nat,
         NEW why \in LoopReasons \cup {"verdict"},
         Spent(s, 0), Replaced(s.trail), CarriedOver(s.checked), Len(s.trail) = s.attempt,
         why \in LoopReasons => s.trail[Len(s.trail)].observed \in {"truncated", "error"},
         why = "verdict" => /\ s.trail[Len(s.trail)].observed = "ok"
                            /\ s.trail[Len(s.trail)].verdict.status = "rejected"
  PROVE  LET q == Fail(s, why)
         IN  Answers(q) /\ q.trail = s.trail /\ q.reply = NoReply
<1> DEFINE q == Fail(s, why)
<1>1. /\ q.pc = "raising" /\ q.why = why /\ q.trail = s.trail /\ q.checked = s.checked
      /\ q.escalations = s.escalations /\ q.truncations = s.truncations
      /\ q.reply = s.reply /\ q.attempt = s.attempt
  BY DEF Fail, Core, TurnState
<1> HIDE DEF q
<1>2. Spent(q, 0)
  BY <1>1 DEF Spent
<1>3. Standing(q)
  BY <1>1 DEF Standing, InLoop, Escalating, LoopReasons
<1> QED
  BY <1>1, <1>2, <1>3 DEF Answers, NoReply, q

----------------------------------------------------------------------------
(* The actions: each changes one turn that has no reply yet, and either     *)
(* leaves what its calls returned as it was, or adds one outcome.           *)

StepOf(t) ==
  /\ turn[t].reply.kind = "none" /\ Answers(turn'[t])
  /\ \A u \in Turn \ {t} : turn'[u] = turn[u]
  /\ \/ SamePast(turn[t].trail, turn'[t].trail)
     \/ /\ turn[t].pc = "calling"
        /\ turn'[t].reply.kind \in {"none", "partial", "error"}
        /\ \E status \in {"ok", "truncated", "error"} :
             OneMore(turn[t].trail, turn'[t].trail, status)

LEMMA QuietStep ==
  ASSUME IInv, NEW t \in Turn, turn[t].pc # "done",
         NEW q, turn' = [turn EXCEPT ![t] = q], Answers(q), SamePast(turn[t].trail, q.trail)
  PROVE  StepOf(t)
<1>1. turn[t].reply.kind = "none"
  BY DEF IInv, TurnInv, Placed, NoReply
<1>2. turn'[t] = q /\ \A u \in Turn \ {t} : turn'[u] = turn[u]
  BY DEF IInv
<1> QED
  BY <1>1, <1>2 DEF StepOf

LEMMA OutcomeStep ==
  ASSUME IInv, NEW t \in Turn, turn[t].pc = "calling",
         NEW status \in {"ok", "truncated", "error"},
         NEW q, turn' = [turn EXCEPT ![t] = q], Answers(q),
         OneMore(turn[t].trail, q.trail, status),
         q.reply.kind \in {"none", "partial", "error"}
  PROVE  StepOf(t)
<1>1. turn[t].reply.kind = "none"
  BY DEF IInv, TurnInv, Placed, NoReply
<1>2. turn'[t] = q /\ \A u \in Turn \ {t} : turn'[u] = turn[u]
  BY DEF IInv
<1> QED
  BY <1>1, <1>2 DEF StepOf

\* What the two invariants say of a turn whose handler runs.
LEMMA Running ==
  ASSUME IInv, AInv, NEW t \in Turn, turn[t].pc # "done"
  PROVE  /\ turn[t] \in TurnState /\ Core(turn[t]) /\ Placed(turn[t])
         /\ turn[t].trail \in Seq(Decision) /\ turn[t].reply = NoReply
         /\ turn[t].pc # "new" => turn[t].trail # <<>>
         /\ turn[t].pc = "new" => turn[t].trail = <<>>
         /\ Replaced(turn[t].trail) /\ CarriedOver(turn[t].checked) /\ Standing(turn[t])
         /\ turn[t].pc # "judging" => Spent(turn[t], 0)
         /\ turn[t].pc = "judging" => Spent(turn[t], 1)
<1>1. TurnInv(turn[t]) /\ Answers(turn[t])
  BY DEF IInv, AInv
<1>2. turn[t] \in TurnState /\ Core(turn[t]) /\ Placed(turn[t])
  BY <1>1 DEF TurnInv, Core
<1>3. turn[t].trail \in Seq(Decision)
  BY <1>2 DEF TurnState
<1> QED
  BY <1>1, <1>2, <1>3 DEF Answers, Placed

\* A turn none of whose calls returned starts on a route.
LEMMA StartAnswers ==
  ASSUME NEW s, s.trail = <<>> \/ (Len(s.trail) = 1 /\ s.trail[1].observed = "pending"),
         Spent(s, 0), CarriedOver(s.checked),
         NEW r \in Route, NEW q, q.trail = <<NewDecision(r, NoVerdict)>>,
         q.truncations = s.truncations, q.escalations = s.escalations,
         q.checked = s.checked, q.reply = NoReply,
         (q.pc = "calling" /\ q.attempt = 1) \/ (q.pc = "raising" /\ q.why = "stuck")
  PROVE  Answers(q) /\ SamePast(s.trail, q.trail)
<1>1. Len(q.trail) = 1 /\ q.trail[1].observed = "pending"
  BY FirstDecision
<1>2. Observed(s.trail) = {} /\ Observed(q.trail) = {}
  BY <1>1 DEF Observed
<1>3. SamePast(s.trail, q.trail)
  BY <1>2 DEF SamePast
<1>4. Spent(q, 0)
  BY <1>3, SamePastKeeps DEF Spent
<1>5. Replaced(q.trail)
  BY <1>1 DEF Replaced
<1>6. Standing(q)
  BY <1>1 DEF Standing, InLoop, Escalating, LoopReasons
<1> QED
  BY <1>3, <1>4, <1>5, <1>6 DEF Answers, NoReply

LEMMA RouteTurnStep ==
  ASSUME IInv, AInv, NEW t \in Turn, RouteTurn(t)
  PROVE  StepOf(t)
<1>0. PICK chosen \in Choosable, gradable \in BOOLEAN :
        \E r \in AvoidRepeatedTruncation(chosen) :
          turn' = [turn EXCEPT ![t].pc = "calling", ![t].attempt = 1,
                               ![t].gradable = gradable,
                               ![t].trail = <<NewDecision(r, NoVerdict)>>]
  BY DEF RouteTurn
<1>1. PICK r \in AvoidRepeatedTruncation(chosen) :
        turn' = [turn EXCEPT ![t].pc = "calling", ![t].attempt = 1,
                             ![t].gradable = gradable,
                             ![t].trail = <<NewDecision(r, NoVerdict)>>]
  BY <1>0
<1> DEFINE q == [turn[t] EXCEPT !.pc = "calling", !.attempt = 1, !.gradable = gradable,
                                !.trail = <<NewDecision(r, NoVerdict)>>]
<1>2. turn' = [turn EXCEPT ![t] = q] /\ turn[t].pc = "new" /\ memory' = memory
  BY <1>1 DEF RouteTurn
<1>3. r \in Route
  BY ChoicesAreRoutes
<1>4. /\ turn[t] \in TurnState /\ turn[t].trail = <<>> /\ turn[t].reply = NoReply
      /\ Spent(turn[t], 0) /\ CarriedOver(turn[t].checked)
  BY <1>2, Running
<1>5. /\ q.trail = <<NewDecision(r, NoVerdict)>> /\ q.truncations = turn[t].truncations
      /\ q.escalations = turn[t].escalations /\ q.checked = turn[t].checked
      /\ q.reply = NoReply /\ q.pc = "calling" /\ q.attempt = 1
  BY <1>4 DEF TurnState
<1> HIDE DEF q
<1>6. Answers(q) /\ SamePast(turn[t].trail, q.trail)
  BY <1>3, <1>4, <1>5, StartAnswers
<1> QED
  BY <1>2, <1>6, QuietStep

LEMMA ContinueToolLoopStep ==
  ASSUME IInv, AInv, NEW t \in Turn, ContinueToolLoop(t)
  PROVE  StepOf(t)
<1>1. PICK gradable \in BOOLEAN :
        turn' = [turn EXCEPT ![t].pc = "calling", ![t].attempt = 1,
                             ![t].gradable = gradable, ![t].difficulty = floor,
                             ![t].trail = <<NewDecision(current, NoVerdict)>>]
  BY DEF ContinueToolLoop
<1> DEFINE q == [turn[t] EXCEPT !.pc = "calling", !.attempt = 1, !.gradable = gradable,
                                !.difficulty = floor,
                                !.trail = <<NewDecision(current, NoVerdict)>>]
<1>2. turn' = [turn EXCEPT ![t] = q] /\ turn[t].pc = "new" /\ memory' = memory
  <2>1. turn[t].pc = "new" /\ memory' = memory
    BY DEF ContinueToolLoop
  <2>2. turn' = [turn EXCEPT ![t] = q]
    BY ONLY <1>1, Zenon
  <2> QED
    BY <2>1, <2>2
<1>3. current \in Route
  BY DEF IInv, ContinueToolLoop
<1>4. /\ turn[t] \in TurnState /\ turn[t].trail = <<>> /\ turn[t].reply = NoReply
      /\ Spent(turn[t], 0) /\ CarriedOver(turn[t].checked)
  BY <1>2, Running
<1>5. /\ q.trail = <<NewDecision(current, NoVerdict)>> /\ q.truncations = turn[t].truncations
      /\ q.escalations = turn[t].escalations /\ q.checked = turn[t].checked
      /\ q.reply = NoReply /\ q.pc = "calling" /\ q.attempt = 1
  BY <1>4 DEF TurnState
<1> HIDE DEF q
<1>6. Answers(q) /\ SamePast(turn[t].trail, q.trail)
  BY <1>3, <1>4, <1>5, StartAnswers
<1> QED
  BY <1>2, <1>6, QuietStep

LEMMA EscalateToolLoopStep ==
  ASSUME IInv, AInv, NEW t \in Turn, EscalateToolLoop(t)
  PROVE  StepOf(t)
<1>1. PICK gradable \in BOOLEAN :
        turn' = [turn EXCEPT ![t].pc = "raising", ![t].why = "stuck",
                             ![t].gradable = gradable, ![t].difficulty = floor,
                             ![t].trail = <<NewDecision(current, NoVerdict)>>,
                             ![t].raised = FloorAfter(current, floor)]
  BY DEF EscalateToolLoop
<1> DEFINE q == [turn[t] EXCEPT !.pc = "raising", !.why = "stuck", !.gradable = gradable,
                                !.difficulty = floor,
                                !.trail = <<NewDecision(current, NoVerdict)>>,
                                !.raised = FloorAfter(current, floor)]
<1>2. turn' = [turn EXCEPT ![t] = q] /\ turn[t].pc = "new" /\ memory' = memory
  <2>1. turn[t].pc = "new" /\ memory' = memory
    BY DEF EscalateToolLoop
  <2>2. turn' = [turn EXCEPT ![t] = q]
    BY ONLY <1>1, Zenon
  <2> QED
    BY <2>1, <2>2
<1>3. current \in Route
  BY DEF IInv, EscalateToolLoop
<1>4. /\ turn[t] \in TurnState /\ turn[t].trail = <<>> /\ turn[t].reply = NoReply
      /\ Spent(turn[t], 0) /\ CarriedOver(turn[t].checked)
  BY <1>2, Running
<1>5. /\ q.trail = <<NewDecision(current, NoVerdict)>> /\ q.truncations = turn[t].truncations
      /\ q.escalations = turn[t].escalations /\ q.checked = turn[t].checked
      /\ q.reply = NoReply /\ q.pc = "raising" /\ q.why = "stuck"
  BY <1>4 DEF TurnState
<1> HIDE DEF q
<1>6. Answers(q) /\ SamePast(turn[t].trail, q.trail)
  BY <1>3, <1>4, <1>5, StartAnswers
<1> QED
  BY <1>2, <1>6, QuietStep

LEMMA StartAfterToolErrorsStep ==
  ASSUME IInv, AInv, NEW t \in Turn, StartAfterToolErrors(t)
  PROVE  StepOf(t)
<1>1. turn[t].pc = "raising" /\ turn[t].why = "stuck" /\ memory' = memory
  BY DEF StartAfterToolErrors
<1>2. PICK r \in IF Targets(t) # {} THEN Targets(t) ELSE {current} :
        turn' = [turn EXCEPT ![t].pc = "calling", ![t].why = "none", ![t].attempt = 1,
                             ![t].trail = <<NewDecision(r, NoVerdict)>>]
  BY DEF StartAfterToolErrors
<1>3. r \in Route
  BY <1>1, <1>2, TargetsAreFresh DEF IInv
<1> DEFINE q == [turn[t] EXCEPT !.pc = "calling", !.why = "none", !.attempt = 1,
                                !.trail = <<NewDecision(r, NoVerdict)>>]
<1>4. turn' = [turn EXCEPT ![t] = q]
  BY <1>2
<1>5. /\ turn[t] \in TurnState /\ turn[t].reply = NoReply
      /\ Len(turn[t].trail) = 1 /\ turn[t].trail[1].observed = "pending"
      /\ Spent(turn[t], 0) /\ CarriedOver(turn[t].checked)
  BY <1>1, Running DEF Standing
<1>6. /\ q.trail = <<NewDecision(r, NoVerdict)>> /\ q.truncations = turn[t].truncations
      /\ q.escalations = turn[t].escalations /\ q.checked = turn[t].checked
      /\ q.reply = NoReply /\ q.pc = "calling" /\ q.attempt = 1
  BY <1>5 DEF TurnState
<1> HIDE DEF q
<1>7. Answers(q) /\ SamePast(turn[t].trail, q.trail)
  BY <1>3, <1>5, <1>6, StartAnswers
<1> QED
  BY <1>1, <1>4, <1>7, QuietStep

LEMMA NoRouteAvailableStep ==
  ASSUME IInv, AInv, NEW t \in Turn, NoRouteAvailable(t)
  PROVE  StepOf(t)
<1> DEFINE p == [turn[t].reply EXCEPT !.kind = "unroutable"]
           q == [turn[t] EXCEPT !.pc = "done", !.reply = p]
<1>1. turn[t].pc = "new" /\ memory' = memory
  BY DEF NoRouteAvailable
<1>2. /\ turn[t] \in TurnState /\ turn[t].trail = <<>> /\ turn[t].reply = NoReply
      /\ Spent(turn[t], 0) /\ CarriedOver(turn[t].checked) /\ Replaced(turn[t].trail)
  BY <1>1, Running
<1>3. turn' = [turn EXCEPT ![t] = q]
  BY <1>2 DEF NoRouteAvailable, TurnState
<1>4. p.kind = "unroutable"
  BY <1>2 DEF NoReply
<1> HIDE DEF p
<1>5. /\ q.pc = "done" /\ q.trail = turn[t].trail /\ q.reply = p
      /\ q.truncations = turn[t].truncations /\ q.checked = turn[t].checked
      /\ q.escalations = turn[t].escalations
  BY <1>2 DEF TurnState
<1> HIDE DEF q
<1>6. Spent(q, 1)
  <2>1. Cardinality(Billed(turn[t].trail)) \in Nat
    BY <1>2, BilledIsFinite DEF TurnState
  <2>2. turn[t].truncations \in Nat /\ turn[t].escalations \in Nat
    BY <1>2, NumbersAssumption DEF TurnState
  <2> QED
    BY <1>2, <1>5, <2>1, <2>2, NumbersAssumption DEF Spent
<1>7. Got(q.trail) = {}
  BY <1>2, <1>5 DEF Got, Observed
<1>8. Service!Fits(q.reply.kind, Got(q.trail))
  BY <1>4, <1>5, <1>7 DEF Service!Fits
<1>9. Standing(q)
  BY <1>5 DEF Standing, InLoop, Escalating
<1> QED
  BY <1>1, <1>2, <1>3, <1>4, <1>5, <1>6, <1>8, <1>9, QuietStep, SamePastIsRefl DEF Answers

\* Observing the call in flight.
LEMMA ObserveAnswers ==
  ASSUME NEW s \in TurnState, s.trail # <<>>, s.trail[Len(s.trail)].observed = "pending",
         NEW status \in {"ok", "truncated", "error"}, Replaced(s.trail)
  PROVE  LET q == Observe(s, status)
         IN  /\ OneMore(s.trail, q.trail, status) /\ q.trail \in Seq(Decision)
             /\ q.trail # <<>> /\ Replaced(q.trail)
             /\ Cardinality(Billed(q.trail)) <= Cardinality(Billed(s.trail)) + 1
             /\ status = "error" => Cardinality(Billed(q.trail)) = Cardinality(Billed(s.trail))
             /\ Got(q.trail) = Got(s.trail) \cup {status}
             /\ q.truncations = s.truncations /\ q.escalations = s.escalations
             /\ q.checked = s.checked /\ q.attempt = s.attempt /\ q.reply = s.reply
             /\ q.pc = s.pc /\ q.why = s.why /\ q.unfinished = s.unfinished
<1> DEFINE n == Len(s.trail)
           d == [s.trail[n] EXCEPT !.observed = status]
           o == [s.trail EXCEPT ![n] = d]
           q == [s EXCEPT !.trail = o]
<1>1. s.trail \in Seq(Decision) /\ n \in 1..n /\ n \in Nat
  BY DEF TurnState
<1>2. d \in Decision /\ d.route = s.trail[n].route /\ d.observed = status
  <2>1. status \in {"pending", "ok", "truncated", "error"}
    OBVIOUS
  <2> QED
    BY <1>1, <2>1, ObservedDecision, LastDecision
<1>3. Observe(s, status) = q
  BY <1>1 DEF Observe, TurnState
<1> HIDE DEF d
<1>4. /\ o \in Seq(Decision) /\ o # <<>> /\ Len(o) = n /\ o[n] = d
      /\ \A i \in 1..n : i # n => o[i] = s.trail[i]
  BY <1>1, <1>2, RewriteLast
<1> HIDE DEF o
<1>5. /\ q.trail = o
      /\ q.truncations = s.truncations /\ q.escalations = s.escalations
      /\ q.checked = s.checked /\ q.attempt = s.attempt /\ q.reply = s.reply
      /\ q.pc = s.pc /\ q.why = s.why /\ q.unfinished = s.unfinished
  BY DEF TurnState
<1> HIDE DEF q
<1>6. OneMore(s.trail, o, status)
  BY <1>1, <1>2, <1>4 DEF OneMore
<1>7. /\ Replaced(o) /\ Got(o) = Got(s.trail) \cup {status}
      /\ Cardinality(Billed(o)) <= Cardinality(Billed(s.trail)) + 1
      /\ status = "error" => Cardinality(Billed(o)) = Cardinality(Billed(s.trail))
  BY <1>1, <1>4, <1>6, OutcomeOnTrail
<1> QED
  BY <1>3, <1>4, <1>5, <1>6, <1>7

LEMMA AnswerCompleteStep ==
  ASSUME IInv, AInv, NEW t \in Turn, AnswerComplete(t)
  PROVE  StepOf(t)
<1> DEFINE s == turn[t]
           o == Observe(s, "ok")
           q == [o EXCEPT !.pc = "judging"]
<1>1. /\ turn' = [turn EXCEPT ![t] = q] /\ s.pc = "calling"
      /\ memory' = Remember(Result(t).route, "ok")
  BY DEF AnswerComplete
<1>2. /\ s \in TurnState /\ Core(s) /\ s.trail # <<>> /\ s.reply = NoReply
      /\ s.trail[Len(s.trail)].observed = "pending" /\ s.trail \in Seq(Decision)
      /\ Replaced(s.trail) /\ CarriedOver(s.checked) /\ Spent(s, 0)
      /\ Len(s.trail) = s.attempt
  BY <1>1, Running DEF Placed, Standing, InLoop
<1>3. /\ OneMore(s.trail, o.trail, "ok") /\ o.trail \in Seq(Decision) /\ Replaced(o.trail)
      /\ Cardinality(Billed(o.trail)) <= Cardinality(Billed(s.trail)) + 1
      /\ o.truncations = s.truncations /\ o.escalations = s.escalations
      /\ o.checked = s.checked /\ o.attempt = s.attempt /\ o.reply = s.reply
  BY <1>2, ObserveAnswers
<1>4. /\ q.pc = "judging" /\ q.trail = o.trail /\ q.truncations = o.truncations
      /\ q.escalations = o.escalations /\ q.checked = o.checked
      /\ q.attempt = o.attempt /\ q.reply = o.reply
  BY <1>2 DEF Observe, TurnState
<1> HIDE DEF q, o
<1>5. Spent(q, 1)
  <2>1. Cardinality(Billed(s.trail)) \in Nat /\ Cardinality(Billed(q.trail)) \in Nat
    BY <1>2, <1>3, <1>4, BilledIsFinite
  <2>2. s.truncations \in Nat /\ s.escalations \in Nat
    BY <1>2, NumbersAssumption DEF TurnState
  <2> QED
    BY <1>2, <1>3, <1>4, <2>1, <2>2, NumbersAssumption DEF Spent
<1>6. Standing(q)
  BY <1>2, <1>3, <1>4 DEF Standing, InLoop, Escalating, OneMore
<1>7. Answers(q) /\ q.reply.kind = "none"
  BY <1>2, <1>3, <1>4, <1>5, <1>6 DEF Answers, NoReply
<1> QED
  BY <1>1, <1>3, <1>4, <1>7, OutcomeStep

LEMMA AnswerCutStep ==
  ASSUME IInv, AInv, NEW t \in Turn, AnswerCut(t)
  PROVE  StepOf(t)
<1> DEFINE s == turn[t]
           o == Observe(s, "truncated")
           kept == [o EXCEPT !.unfinished = IF @ = 0 THEN Len(s.trail) ELSE @]
           spent == [kept EXCEPT !.truncations = @ - 1]
           q == IF kept.truncations = 0 THEN AfterLoop(kept) ELSE Fail(spent, "cut")
<1>1. /\ turn' = [turn EXCEPT ![t] = q] /\ s.pc = "calling"
      /\ memory' = Remember(Result(t).route, "truncated")
  BY DEF AnswerCut, Last
<1>2. /\ s \in TurnState /\ Core(s) /\ s.trail # <<>> /\ s.reply = NoReply
      /\ s.trail[Len(s.trail)].observed = "pending" /\ s.trail \in Seq(Decision)
      /\ Replaced(s.trail) /\ CarriedOver(s.checked) /\ Spent(s, 0)
      /\ Len(s.trail) = s.attempt /\ Len(s.trail) \in Nat \ {0}
  BY <1>1, Running DEF Placed, Standing, InLoop
<1>3. /\ OneMore(s.trail, o.trail, "truncated") /\ o.trail \in Seq(Decision)
      /\ Replaced(o.trail)
      /\ Cardinality(Billed(o.trail)) <= Cardinality(Billed(s.trail)) + 1
      /\ Got(o.trail) = Got(s.trail) \cup {"truncated"}
      /\ o.truncations = s.truncations /\ o.escalations = s.escalations
      /\ o.checked = s.checked /\ o.attempt = s.attempt /\ o.reply = s.reply
  BY <1>2, ObserveAnswers
<1>4. Core(kept) /\ kept.trail # <<>> /\ kept.reply = NoReply
  BY <1>2, ObserveCutInv
<1>5. /\ kept.trail = o.trail /\ kept.truncations = o.truncations
      /\ kept.escalations = o.escalations /\ kept.checked = o.checked
      /\ kept.attempt = o.attempt /\ kept \in TurnState
  BY <1>2, <1>4 DEF Observe, TurnState, Core
<1>6. kept.unfinished # 0
  BY <1>2 DEF Observe, TurnState
<1> HIDE DEF kept, o, s
<1>7. /\ kept.trail # <<>> /\ kept.trail[Len(kept.trail)].observed = "truncated"
      /\ Len(kept.trail) = kept.attempt
  BY <1>2, <1>3, <1>4, <1>5 DEF OneMore
<1>8. /\ Cardinality(Billed(s.trail)) \in Nat /\ Cardinality(Billed(kept.trail)) \in Nat
      /\ s.truncations \in 0..TruncationRetries /\ s.escalations \in 0..MaxEscalations
  BY <1>2, <1>3, <1>5, BilledIsFinite DEF TurnState
<1>9. CASE kept.truncations = 0
  <2>1. Spent(kept, 1)
    BY <1>2, <1>3, <1>5, <1>8, NumbersAssumption DEF Spent
  <2>2. Observed(kept.trail) # {}
    BY <1>5, <1>7 DEF Observed, TurnState
  <2>3. /\ Answers(AfterLoop(kept)) /\ AfterLoop(kept).trail = kept.trail
        /\ AfterLoop(kept).reply.kind = "partial"
    BY <1>2, <1>3, <1>4, <1>5, <1>6, <2>1, <2>2, AfterLoopAnswers
  <2> DEFINE p == AfterLoop(kept)
  <2>4. turn' = [turn EXCEPT ![t] = p]
    BY <1>1, <1>9
  <2> HIDE DEF p
  <2>5. OneMore(turn[t].trail, p.trail, "truncated") /\ Answers(p) /\ p.reply.kind = "partial"
    BY <1>3, <1>5, <2>3 DEF p, s
  <2> QED
    BY <1>1, <2>4, <2>5, OutcomeStep DEF s
<1>10. CASE kept.truncations # 0
  <2>1. /\ spent.trail = kept.trail /\ spent.tried = kept.tried
        /\ spent.unfinished = kept.unfinished /\ spent.reply = NoReply
        /\ spent.escalations = kept.escalations /\ spent.truncations = kept.truncations - 1
        /\ spent.checked = kept.checked /\ spent.attempt = kept.attempt
    BY <1>4, <1>5 DEF TurnState
  <2>2. spent \in TurnState
    <3>1. kept.truncations - 1 \in 0..TruncationRetries
      BY <1>5, <1>10, NumbersAssumption DEF TurnState
    <3> QED
      BY <1>5, <3>1 DEF TurnState
  <2> HIDE DEF spent
  <2>3. Core(spent)
    <3>1. spent.escalations <= kept.escalations
      BY <1>5, <2>1 DEF TurnState
    <3> QED
      BY <1>4, <2>1, <2>2, <3>1, CoreFrame
  <2>4. Spent(spent, 0)
    BY <1>2, <1>3, <1>5, <1>8, <2>1, NumbersAssumption DEF Spent
  <2> DEFINE p == Fail(spent, "cut")
  <2>5. Answers(p) /\ p.trail = spent.trail /\ p.reply = NoReply
    BY <1>2, <1>3, <1>4, <1>5, <1>7, <2>1, <2>3, <2>4, FailAnswers DEF IInv, LoopReasons
  <2>6. turn' = [turn EXCEPT ![t] = p]
    BY <1>1, <1>10
  <2> HIDE DEF p
  <2>7. OneMore(turn[t].trail, p.trail, "truncated") /\ Answers(p) /\ p.reply.kind = "none"
    BY <1>3, <1>5, <2>1, <2>5 DEF s, NoReply
  <2> QED
    BY <1>1, <2>6, <2>7, OutcomeStep DEF s
<1> QED
  BY <1>9, <1>10

LEMMA CallFailsStep ==
  ASSUME IInv, AInv, NEW t \in Turn, CallFails(t)
  PROVE  StepOf(t)
<1> DEFINE s == turn[t]
           o == Observe(s, "error")
           q == [o EXCEPT !.lastError = Len(s.trail)]
<1>1. PICK why \in {"outage", "refused"} : turn' = [turn EXCEPT ![t] = Fail(q, why)]
  BY DEF CallFails, Last
<1>2. s.pc = "calling" /\ memory' = memory
  BY DEF CallFails
<1>3. /\ s \in TurnState /\ Core(s) /\ s.trail # <<>> /\ s.reply = NoReply
      /\ s.trail[Len(s.trail)].observed = "pending" /\ s.trail \in Seq(Decision)
      /\ Replaced(s.trail) /\ CarriedOver(s.checked) /\ Spent(s, 0)
      /\ Len(s.trail) = s.attempt /\ Len(s.trail) \in Nat
  BY <1>2, Running DEF Placed, Standing, InLoop
<1> HIDE DEF s
<1>4. /\ OneMore(s.trail, o.trail, "error") /\ o.trail # <<>> /\ Replaced(o.trail)
      /\ Cardinality(Billed(o.trail)) = Cardinality(Billed(s.trail))
      /\ o.truncations = s.truncations /\ o.escalations = s.escalations
      /\ o.checked = s.checked /\ o.attempt = s.attempt /\ o.reply = s.reply
  BY <1>3, ObserveAnswers
<1>5. Core(o)
  BY <1>3, ObserveInv
<1> HIDE DEF o
<1>6. o \in TurnState
  BY <1>5 DEF Core
<1>7. /\ q \in TurnState /\ q.trail = o.trail /\ q.tried = o.tried
      /\ q.unfinished = o.unfinished /\ q.reply = o.reply /\ q.escalations = o.escalations
      /\ q.truncations = o.truncations /\ q.checked = o.checked /\ q.attempt = o.attempt
  BY <1>3, <1>6 DEF TurnState
<1> HIDE DEF q
<1>8. Core(q)
  <2>1. q.escalations <= o.escalations
    BY <1>6, <1>7 DEF TurnState
  <2> QED
    BY <1>5, <1>7, <2>1, CoreFrame
<1>9. Spent(q, 0)
  BY <1>3, <1>4, <1>7 DEF Spent
<1>10. q.trail[Len(q.trail)].observed = "error" /\ Len(q.trail) = q.attempt
  BY <1>3, <1>4, <1>7 DEF OneMore
<1> DEFINE p == Fail(q, why)
<1>11. Answers(p) /\ p.trail = q.trail /\ p.reply = NoReply
  <2>1. why \in LoopReasons /\ why # "verdict"
    BY DEF LoopReasons
  <2> QED
    BY <1>3, <1>4, <1>7, <1>8, <1>9, <1>10, <2>1, FailAnswers DEF IInv
<1>12. turn' = [turn EXCEPT ![t] = p]
  BY <1>1
<1> HIDE DEF p
<1>13. OneMore(turn[t].trail, p.trail, "error") /\ p.reply.kind = "none"
  BY <1>4, <1>7, <1>11 DEF s, NoReply
<1> QED
  BY <1>2, <1>11, <1>12, <1>13, OutcomeStep DEF s

\* The floor is raised in two steps, neither of which looks at the answer.
LEMMA BumpFloorStep ==
  ASSUME IInv, AInv, NEW t \in Turn, BumpFloorRead(t) \/ BumpFloorWrite(t)
  PROVE  StepOf(t)
<1>1. turn[t].pc \in {"bumping", "bumped"} /\ memory' = memory
  BY DEF BumpFloorRead, BumpFloorWrite
<1>2. /\ turn[t] \in TurnState /\ turn[t].reply = NoReply /\ Replaced(turn[t].trail)
      /\ CarriedOver(turn[t].checked) /\ Spent(turn[t], 0)
      /\ Len(turn[t].trail) = turn[t].attempt
      /\ turn[t].trail[Len(turn[t].trail)].observed = "ok"
      /\ turn[t].trail[Len(turn[t].trail)].verdict.status = "rejected"
      /\ turn[t].trail[Len(turn[t].trail)].route \in Below \cup Cheap
  BY <1>1, Running DEF Standing, InLoop, Escalating
<1>3. ASSUME NEW q, q.trail = turn[t].trail, q.truncations = turn[t].truncations,
             q.escalations = turn[t].escalations, q.checked = turn[t].checked,
             q.attempt = turn[t].attempt, q.reply = NoReply, q.pc \in {"bumped", "steppingUp"}
      PROVE  Answers(q) /\ SamePast(turn[t].trail, q.trail)
  <2>1. Spent(q, 0)
    BY <1>2, <1>3 DEF Spent
  <2>2. Standing(q)
    BY <1>2, <1>3 DEF Standing, InLoop, Escalating
  <2> QED
    BY <1>2, <1>3, <2>1, <2>2, SamePastIsRefl DEF Answers, NoReply
<1>4. CASE BumpFloorRead(t)
  <2> DEFINE q == [turn[t] EXCEPT !.pc = "bumped", !.raised = Larger(floor, DifficultyFloor)]
  <2>1. turn' = [turn EXCEPT ![t] = q]
    BY <1>4 DEF BumpFloorRead
  <2>2. /\ q.trail = turn[t].trail /\ q.truncations = turn[t].truncations
        /\ q.escalations = turn[t].escalations /\ q.checked = turn[t].checked
        /\ q.attempt = turn[t].attempt /\ q.reply = NoReply /\ q.pc = "bumped"
    BY <1>2 DEF TurnState
  <2> HIDE DEF q
  <2>3. Answers(q) /\ SamePast(turn[t].trail, q.trail)
    BY <1>3, <2>2
  <2> QED
    BY <1>1, <2>1, <2>3, QuietStep
<1>5. CASE BumpFloorWrite(t)
  <2> DEFINE q == [turn[t] EXCEPT !.pc = "steppingUp"]
  <2>1. turn' = [turn EXCEPT ![t] = q]
    BY <1>5 DEF BumpFloorWrite
  <2>2. /\ q.trail = turn[t].trail /\ q.truncations = turn[t].truncations
        /\ q.escalations = turn[t].escalations /\ q.checked = turn[t].checked
        /\ q.attempt = turn[t].attempt /\ q.reply = NoReply /\ q.pc = "steppingUp"
    BY <1>2 DEF TurnState
  <2> HIDE DEF q
  <2>3. Answers(q) /\ SamePast(turn[t].trail, q.trail)
    BY <1>3, <2>2
  <2> QED
    BY <1>1, <2>1, <2>3, QuietStep
<1> QED
  BY <1>4, <1>5

\* Only a verdict on this very answer escalates: one carried over from an
\* earlier answer names the route it led to.
LEMMA JudgeStep ==
  ASSUME IInv, AInv, NEW t \in Turn, Judge(t)
  PROVE  StepOf(t)
<1>0. PICK v \in CheckVerdicts(t) :
        LET s     == [turn[t] EXCEPT !.trail[Last(t)].verdict = v]
            shown == IF s.checked # NoVerdict /\ v.status = "unchecked"
                     THEN s.checked ELSE v
        IN  turn' = [turn EXCEPT ![t] =
              IF Escalates(shown) /\ s.escalations > 0
              THEN [s EXCEPT !.pc = "bumping", !.escalations = @ - 1]
              ELSE [s EXCEPT !.pc = "done", !.reply = AnswerReply(t, shown)]]
  BY DEF Judge
<1> DEFINE n == Len(turn[t].trail)
           d == [turn[t].trail[n] EXCEPT !.verdict = v]
           o == [turn[t].trail EXCEPT ![n] = d]
           s == [turn[t] EXCEPT !.trail[n].verdict = v]
           shown == IF s.checked # NoVerdict /\ v.status = "unchecked" THEN s.checked ELSE v
           up == [s EXCEPT !.pc = "bumping", !.escalations = @ - 1]
           end == [s EXCEPT !.pc = "done", !.reply = AnswerReply(t, shown)]
<1>1. turn' = [turn EXCEPT ![t] = IF Escalates(shown) /\ s.escalations > 0 THEN up ELSE end]
  BY <1>0 DEF Last
<1>2. turn[t].pc = "judging" /\ memory' = memory
  BY DEF Judge
<1>3. /\ turn[t] \in TurnState /\ turn[t].reply = NoReply /\ turn[t].trail # <<>>
      /\ turn[t].trail \in Seq(Decision) /\ Replaced(turn[t].trail)
      /\ CarriedOver(turn[t].checked) /\ Spent(turn[t], 1) /\ n = turn[t].attempt
      /\ turn[t].trail[n].observed = "ok"
  BY <1>2, Running DEF Standing, InLoop
<1>4. n \in 1..n /\ n \in Nat /\ turn[t].trail[n] \in Decision
  BY <1>3, LastDecision
<1>5. v \in Verdict
  BY <1>2, CheckVerdictsType
<1>6. d \in Decision /\ d.route = turn[t].trail[n].route /\ d.verdict = v
      /\ d.observed = turn[t].trail[n].observed
  BY <1>4, <1>5 DEF Decision
<1> HIDE DEF d
<1>7. SamePast(turn[t].trail, o) /\ Replaced(o)
  BY <1>3, <1>6, VerdictOnTrail
<1>8. o \in Seq(Decision) /\ Len(o) = n /\ o[n] = d
  BY <1>3, <1>6, RewriteLast
<1>9. /\ s.trail = o /\ s.checked = turn[t].checked /\ s.reply = NoReply
      /\ s.truncations = turn[t].truncations /\ s.escalations = turn[t].escalations
      /\ s.attempt = turn[t].attempt /\ s \in TurnState
  <2>1. s = [turn[t] EXCEPT !.trail = o]
    BY <1>3 DEF TurnState, d
  <2> HIDE DEF o, s
  <2> QED
    BY <1>3, <1>8, <2>1 DEF TurnState
<1> HIDE DEF s, o
<1>10. Spent(s, 1)
  BY <1>3, <1>7, <1>9, SamePastKeeps DEF Spent
<1>11. CASE Escalates(shown) /\ s.escalations > 0
  <2>1. shown = v
    BY <1>3, <1>9, <1>11, RoutesAssumption DEF Escalates, CarriedOver
  <2>2. v.status = "rejected" /\ v.to = NoRoute
    BY <1>11, <2>1 DEF Escalates
  <2>3. /\ up.trail = o /\ up.checked = s.checked /\ up.reply = NoReply
        /\ up.truncations = s.truncations /\ up.escalations = s.escalations - 1
        /\ up.attempt = s.attempt /\ up.pc = "bumping"
    BY <1>9 DEF TurnState
  <2>4. turn' = [turn EXCEPT ![t] = up]
    BY <1>1, <1>11
  <2> HIDE DEF up, shown
  <2>9. turn[t].trail[n].route \in Below \cup Cheap
    BY <2>2 DEF CheckVerdicts, Applies, Result, Last
  <2>5. Spent(up, 0)
    <3>1. Cardinality(Billed(o)) \in Nat
      BY <1>8, BilledIsFinite
    <3>2. s.truncations \in Nat /\ s.escalations \in Nat
      BY <1>9, NumbersAssumption DEF TurnState
    <3> QED
      BY <1>9, <1>10, <2>3, <3>1, <3>2, NumbersAssumption DEF Spent
  <2>6. Standing(up)
    BY <1>3, <1>6, <1>8, <1>9, <2>2, <2>3, <2>9 DEF Standing, InLoop, Escalating
  <2>7. Answers(up) /\ SamePast(turn[t].trail, up.trail)
    BY <1>3, <1>7, <1>9, <2>3, <2>5, <2>6 DEF Answers, NoReply
  <2> QED
    BY <1>2, <2>4, <2>7, QuietStep
<1>12. CASE ~(Escalates(shown) /\ s.escalations > 0)
  <2>1. /\ end.trail = o /\ end.checked = s.checked /\ end.reply = AnswerReply(t, shown)
        /\ end.truncations = s.truncations /\ end.escalations = s.escalations
        /\ end.pc = "done"
    BY <1>9 DEF TurnState
  <2>2. turn' = [turn EXCEPT ![t] = end]
    BY <1>1, <1>12
  <2>3. end.reply.kind = "answer"
    BY <2>1 DEF AnswerReply
  <2> HIDE DEF end, shown
  <2>4. Spent(end, 1)
    BY <1>9, <1>10, <2>1 DEF Spent
  <2>5. Standing(end)
    BY <2>1 DEF Standing, InLoop, Escalating
  <2>6. "ok" \in Got(end.trail)
    BY <1>3, <1>4, <1>6, <1>8, <2>1 DEF Got, Observed
  <2>7. Service!Fits(end.reply.kind, Got(end.trail))
    BY <2>3, <2>6 DEF Service!Fits
  <2>8. Answers(end) /\ SamePast(turn[t].trail, end.trail)
    BY <1>3, <1>7, <1>9, <2>1, <2>3, <2>4, <2>5, <2>7 DEF Answers
  <2> QED
    BY <1>2, <2>2, <2>8, QuietStep
<1> QED
  BY <1>11, <1>12

LEMMA StepUpStep ==
  ASSUME IInv, AInv, NEW t \in Turn, StepUp(t)
  PROVE  StepOf(t)
<1> DEFINE s == turn[t]
           targets == VerifiedStepUp(Result(t).route, s.tried \cup {Result(t).route})
<1>1. \/ \E r \in targets : turn' = [turn EXCEPT ![t] = Escalated(s, r)]
      \/ turn' = [turn EXCEPT ![t] = Fail(s, "verdict")]
  BY DEF StepUp
<1>2. s.pc = "steppingUp" /\ memory' = memory
  BY DEF StepUp
<1>3. /\ s \in TurnState /\ Core(s) /\ Placed(s) /\ s.trail # <<>> /\ s.reply = NoReply
      /\ Replaced(s.trail) /\ CarriedOver(s.checked) /\ Spent(s, 0)
      /\ Len(s.trail) = s.attempt /\ s.trail[Len(s.trail)].observed = "ok"
      /\ s.trail[Len(s.trail)].verdict.status = "rejected"
  BY <1>2, Running DEF Standing, InLoop, Escalating
<1>4. Paid(s.trail, s.escalations + 1)
  BY <1>2, <1>3 DEF Placed, Escalating
<1>5. Result(t) = s.trail[Len(s.trail)] /\ Result(t).route \in Route
  BY <1>2, Underway DEF Result, Last
<1>6. ASSUME NEW r \in targets
      PROVE  /\ r \in Route /\ r \notin s.tried \cup {s.trail[Len(s.trail)].route}
             /\ Measured => Capability[r] > Capability[s.trail[Len(s.trail)].route]
  <2> DEFINE failed == Result(t).route
  <2>1. /\ r \in Route /\ r \notin s.tried \cup {failed}
        /\ Capability[r] >= Capability[failed] + MinGain
    BY <1>6, CandidatesAreRoutes DEF VerifiedStepUp
  <2>2. Capability[r] \in Nat /\ Capability[failed] \in Nat /\ MinGain \in Nat
    BY <1>5, <2>1, NumbersAssumption
  <2>3. Measured => Capability[r] > Capability[failed]
    BY <2>1, <2>2 DEF Measured
  <2> HIDE DEF failed
  <2> QED
    BY <1>5, <2>1, <2>3 DEF failed
<1> HIDE DEF s, targets
<1>7. ASSUME NEW r \in targets, turn' = [turn EXCEPT ![t] = Escalated(s, r)]
      PROVE  StepOf(t)
  <2> DEFINE q == Escalated(s, r)
  <2>1. Answers(q) /\ SamePast(s.trail, q.trail)
    BY <1>3, <1>4, <1>6, <1>7, EscalatedAnswers
  <2>2. turn' = [turn EXCEPT ![t] = q]
    BY <1>7
  <2> HIDE DEF q
  <2> QED
    BY <1>2, <2>1, <2>2, QuietStep DEF s
<1>8. ASSUME turn' = [turn EXCEPT ![t] = Fail(s, "verdict")]
      PROVE  StepOf(t)
  <2> DEFINE q == Fail(s, "verdict")
  <2>1. Answers(q) /\ q.trail = s.trail
    BY <1>3, FailAnswers DEF IInv, LoopReasons
  <2>2. turn' = [turn EXCEPT ![t] = q]
    BY <1>8
  <2> HIDE DEF q
  <2> QED
    BY <1>2, <2>1, <2>2, QuietStep, SamePastIsRefl DEF s
<1> QED
  BY <1>1, <1>7, <1>8

\* Only a graded plan raises: a plan is never below the reference.
LEMMA RejectedPlanRaisesStep ==
  ASSUME IInv, AInv, NEW t \in Turn, RejectedPlanRaises(t)
  PROVE  StepOf(t)
<1> DEFINE p == [turn[t].reply EXCEPT !.kind = "raised"]
           q == [turn[t] EXCEPT !.pc = "done", !.reply = p]
<1>1. turn[t].pc = "steppingUp" /\ Result(t).route \in Plan
  BY DEF RejectedPlanRaises
<1>2. /\ turn[t] \in TurnState /\ turn[t].reply = NoReply /\ turn[t].trail \in Seq(Decision)
      /\ Spent(turn[t], 0) /\ CarriedOver(turn[t].checked) /\ Replaced(turn[t].trail)
      /\ Standing(turn[t])
  BY <1>1, Running
<1>3. turn' = [turn EXCEPT ![t] = q]
  BY <1>2 DEF RejectedPlanRaises, TurnState
<1>4. p.kind = "raised"
  BY <1>2 DEF NoReply
<1> HIDE DEF p
<1>5. /\ q.pc = "done" /\ q.trail = turn[t].trail /\ q.reply = p
      /\ q.truncations = turn[t].truncations /\ q.checked = turn[t].checked
      /\ q.escalations = turn[t].escalations
  BY <1>2 DEF TurnState
<1> HIDE DEF q
<1>6. Spent(q, 1)
  <2>1. Cardinality(Billed(turn[t].trail)) \in Nat
    BY <1>2, BilledIsFinite
  <2>2. turn[t].truncations \in Nat /\ turn[t].escalations \in Nat
    BY <1>2, NumbersAssumption DEF TurnState
  <2> QED
    BY <1>2, <1>5, <2>1, <2>2, NumbersAssumption DEF Spent
<1>7. ~NoPlanGraded
  <2>1. Result(t).route \in Below \cup Cheap
    BY <1>1, <1>2 DEF Standing, Result, Last
  <2> QED
    BY <1>1, <2>1, RoutesAssumption DEF NoPlanGraded
<1>8. Standing(q)
  BY <1>5 DEF Standing, InLoop, Escalating
<1> QED
  BY <1>1, <1>2, <1>3, <1>4, <1>5, <1>6, <1>7, <1>8, QuietStep, SamePastIsRefl DEF Answers

\* The failure rule, too, answers a rejection with a stronger route only.
LEMMA RejectionTargets ==
  ASSUME IInv, NEW t \in Turn, turn[t].pc = "raising", turn[t].why = "verdict",
         NEW r \in Targets(t)
  PROVE  Measured => Capability[r] > Capability[Result(t).route]
<1> SUFFICES ASSUME Measured
    PROVE  Capability[r] > Capability[Result(t).route]
  OBVIOUS
<1>1. r \in Stronger(Failed(t), TriedNow(t), TRUE)
  BY DEF Targets
<1>2. r \in Route /\ Capability[r] > Capability[Result(t).route] + 1
  BY <1>1, CandidatesAreRoutes DEF Stronger, Measured, Failed
<1>3. Result(t).route \in Route
  BY Underway
<1>4. Capability[r] \in Nat /\ Capability[Result(t).route] \in Nat
  BY <1>2, <1>3, NumbersAssumption
<1> QED
  BY <1>2, <1>4

LEMMA RetryStep ==
  ASSUME IInv, AInv, NEW t \in Turn, Retry(t)
  PROVE  StepOf(t)
<1> DEFINE s == turn[t]
<1>1. s.pc = "raising" /\ s.why # "stuck" /\ memory' = memory
  BY DEF Retry
<1>2. PICK r \in Targets(t) :
        turn' = [turn EXCEPT ![t] = IF s.why = "verdict" THEN Escalated(s, r)
                                    ELSE Adopt(s, r, NoVerdict)]
  BY DEF Retry
<1>3. /\ s \in TurnState /\ Core(s) /\ Placed(s) /\ Standing(s) /\ s.trail # <<>>
      /\ s.reply = NoReply /\ Replaced(s.trail) /\ CarriedOver(s.checked) /\ Spent(s, 0)
      /\ Len(s.trail) = s.attempt
  BY <1>1, Running DEF Standing, InLoop
<1>4. Result(t) = s.trail[Len(s.trail)]
  BY DEF Result, Last
<1>5. r \in Route /\ (Policy # "A_static" => r \notin s.tried \cup {s.trail[Len(s.trail)].route})
  BY <1>1, <1>4, TargetsAreFresh DEF TriedNow, Failed
<1>6. s.why = "verdict" => (Measured => Capability[r] > Capability[s.trail[Len(s.trail)].route])
  BY <1>1, <1>4, RejectionTargets
<1> HIDE DEF s
<1>7. CASE s.why = "verdict"
  <2> DEFINE q == Escalated(s, r)
  <2>1. /\ Paid(s.trail, s.escalations + 1)
        /\ s.trail[Len(s.trail)].observed = "ok"
        /\ s.trail[Len(s.trail)].verdict.status = "rejected"
    BY <1>1, <1>3, <1>7 DEF Placed, Standing, Escalating
  <2>2. Answers(q) /\ SamePast(s.trail, q.trail)
    BY <1>3, <1>5, <1>6, <1>7, <2>1, EscalatedAnswers
  <2>3. turn' = [turn EXCEPT ![t] = q]
    BY <1>2, <1>7
  <2> HIDE DEF q
  <2> QED
    BY <1>1, <2>2, <2>3, QuietStep DEF s
<1>8. CASE s.why # "verdict"
  <2> DEFINE q == Adopt(s, r, NoVerdict)
  <2>1. NoVerdict \in Verdict /\ NoVerdict.escalations = 0
    BY NumbersAssumption DEF NoVerdict, Verdict
  <2>2. NoVerdict.escalations + s.escalations <= MaxEscalations
    BY <1>3, <2>1, NumbersAssumption DEF TurnState
  <2>3. s.trail[Len(s.trail)].observed \in {"truncated", "error"}
    BY <1>1, <1>3, <1>8 DEF Standing
  <2>4. Replacement(s.trail[Len(s.trail)], NewDecision(r, NoVerdict))
    BY <2>3 DEF Replacement
  <2>5. Answers(q) /\ SamePast(s.trail, q.trail)
    BY <1>3, <1>5, <2>1, <2>2, <2>3, <2>4, AdoptAnswers
  <2>6. turn' = [turn EXCEPT ![t] = q]
    BY <1>2, <1>8
  <2> HIDE DEF q
  <2> QED
    BY <1>1, <2>5, <2>6, QuietStep DEF s
<1> QED
  BY <1>7, <1>8

LEMMA GiveUpStep ==
  ASSUME IInv, AInv, NEW t \in Turn, GiveUp(t)
  PROVE  StepOf(t)
<1> DEFINE s == turn[t]
           left == [s EXCEPT !.why = "none"]
           end == [s EXCEPT !.pc = "done", !.why = "none",
                            !.reply = AnswerReply(t, Result(t).verdict)]
<1>1. /\ s.pc = "raising" /\ s.why # "stuck" /\ memory' = memory
      /\ turn' = [turn EXCEPT ![t] = IF s.why = "verdict" THEN end ELSE AfterLoop(left)]
  BY DEF GiveUp
<1>2. /\ s \in TurnState /\ Core(s) /\ Placed(s) /\ Standing(s) /\ s.trail # <<>>
      /\ s.trail \in Seq(Decision)
      /\ s.reply = NoReply /\ Replaced(s.trail) /\ CarriedOver(s.checked) /\ Spent(s, 0)
  BY <1>1, Running
<1>3. Spent(s, 1)
  <2>1. s.truncations <= s.truncations /\ s.escalations <= s.escalations
    BY <1>2 DEF TurnState
  <2> QED
    BY <1>2, <2>1, SpentByFields
<1>4. Len(s.trail) \in 1..Len(s.trail)
  BY <1>2, LastDecision
<1> HIDE DEF s
<1>5. CASE s.why = "verdict"
  <2>1. /\ end.trail = s.trail /\ end.checked = s.checked /\ end.pc = "done"
        /\ end.truncations = s.truncations /\ end.escalations = s.escalations
        /\ end.reply.kind = "answer"
    BY <1>2 DEF TurnState, AnswerReply
  <2>2. turn' = [turn EXCEPT ![t] = end]
    BY <1>1, <1>5
  <2> HIDE DEF end
  <2>3. s.trail[Len(s.trail)].observed = "ok"
    BY <1>1, <1>2, <1>5 DEF Standing, Escalating
  <2>4. "ok" \in Got(end.trail)
    BY <1>4, <2>1, <2>3 DEF Got, Observed
  <2>5. Service!Fits(end.reply.kind, Got(end.trail))
    BY <2>1, <2>4 DEF Service!Fits
  <2>6. Standing(end)
    BY <2>1 DEF Standing, InLoop, Escalating
  <2>7. Spent(end, 1)
    BY <1>3, <2>1 DEF Spent
  <2>8. Answers(end) /\ SamePast(s.trail, end.trail)
    BY <1>2, <2>1, <2>5, <2>6, <2>7, SamePastIsRefl DEF Answers
  <2> QED
    BY <1>1, <2>2, <2>8, QuietStep DEF s
<1>6. CASE s.why # "verdict"
  <2>1. /\ left \in TurnState /\ left.trail = s.trail /\ left.tried = s.tried
        /\ left.unfinished = s.unfinished /\ left.escalations = s.escalations
        /\ left.truncations = s.truncations /\ left.checked = s.checked
    BY <1>2 DEF TurnState, Reasons
  <2> HIDE DEF left
  <2>2. Core(left)
    <3>1. left.escalations <= s.escalations
      BY <2>1 DEF TurnState
    <3> QED
      BY <1>2, <2>1, <3>1, CoreFrame
  <2>3. s.trail[Len(s.trail)].observed \in {"truncated", "error"}
    BY <1>1, <1>2, <1>6 DEF Standing
  <2>4. Observed(left.trail) # {}
    BY <1>4, <2>1, <2>3 DEF Observed
  <2>5. Spent(left, 1)
    BY <1>3, <2>1 DEF Spent
  <2> DEFINE q == AfterLoop(left)
  <2>6. Answers(q) /\ q.trail = left.trail
    BY <1>2, <2>1, <2>2, <2>4, <2>5, AfterLoopAnswers
  <2>7. turn' = [turn EXCEPT ![t] = q]
    BY <1>1, <1>6
  <2> HIDE DEF q
  <2>8. SamePast(s.trail, q.trail)
    BY <2>1, <2>6, SamePastIsRefl
  <2> QED
    BY <1>1, <2>6, <2>7, <2>8, QuietStep DEF s
<1> QED
  BY <1>5, <1>6

\* Every step of a turn, whatever its action.
LEMMA TurnSteps ==
  ASSUME IInv, AInv, NEW t \in Turn, Request(t) \/ Serve(t)
  PROVE  StepOf(t)
BY RouteTurnStep, NoRouteAvailableStep, ContinueToolLoopStep, EscalateToolLoopStep,
   AnswerCompleteStep, AnswerCutStep, CallFailsStep, JudgeStep, BumpFloorStep, StepUpStep,
   RejectedPlanRaisesStep, StartAfterToolErrorsStep, RetryStep, GiveUpStep DEF Request, Serve

----------------------------------------------------------------------------
(* The invariant                                                            *)

LEMMA AInvInit == Init => AInv
<1> SUFFICES ASSUME Init
    PROVE  AInv
  OBVIOUS
<1>1. \A t \in Turn : turn[t] = NewTurn
  BY DEF Init
<1>2. Billed(<<>>) = {}
  BY DEF Billed
<1>3. Answers(NewTurn)
  <2>1. Spent(NewTurn, 0)
    <3>1. /\ NewTurn.trail = <<>> /\ NewTurn.truncations = TruncationRetries
          /\ NewTurn.escalations = MaxEscalations
      BY DEF NewTurn
    <3>2. Cardinality(Billed(<<>>)) = 0
      BY <1>2, FS_EmptySet
    <3> QED
      BY <3>1, <3>2, NumbersAssumption DEF Spent
  <2>2. Replaced(<<>>)
    BY DEF Replaced
  <2>3. Standing(NewTurn)
    BY DEF Standing, InLoop, Escalating, NewTurn
  <2> QED
    BY <2>1, <2>2, <2>3 DEF Answers, NewTurn, CarriedOver, NoReply
<1> QED
  BY <1>1, <1>3 DEF AInv

LEMMA AInvNext ==
  ASSUME IInv, AInv, [Next]_vars
  PROVE  AInv'
<1>1. ASSUME NEW t \in Turn, Request(t) \/ Serve(t)
      PROVE  AInv'
  <2>1. StepOf(t)
    BY <1>1, TurnSteps
  <2> QED
    BY <2>1 DEF StepOf, AInv
<1>2. CASE turn' = turn
  BY <1>2 DEF AInv
<1> QED
  BY <1>1, <1>2 DEF Next, QuotaTurns, OutcomeExpires, vars

LEMMA AInvHolds == Spec => [](IInv /\ AInv)
<1>1. Init => IInv /\ AInv
  BY InitInv, AInvInit
<1>2. (IInv /\ AInv) /\ [Next]_vars => (IInv /\ AInv)'
  BY NextInv, AInvNext
<1> QED
  BY <1>1, <1>2, PTL DEF Spec

----------------------------------------------------------------------------
(* The theorems *)

\* Whatever mix of length stops, failures and rejections a turn meets, it pays
\* for at most one answer beyond its truncation retries and its escalations.
THEOREM BilledTheorem == Spec => []BilledWithinBudgets
<1>1. IInv /\ AInv => BilledWithinBudgets
  <2> SUFFICES ASSUME IInv, AInv, NEW t \in Turn
      PROVE  Cardinality(Seen(t, {"ok", "truncated"})) <= 1 + TruncationRetries + MaxEscalations
    BY DEF BilledWithinBudgets
  <2>1. Seen(t, {"ok", "truncated"}) = Billed(turn[t].trail)
    BY DEF Seen, Indexes, Last, Billed
  <2>2. turn[t] \in TurnState /\ Answers(turn[t])
    BY DEF IInv, AInv
  <2>3. Cardinality(Billed(turn[t].trail)) \in Nat
    BY <2>2, BilledIsFinite DEF TurnState
  <2>4. turn[t].truncations \in Nat /\ turn[t].escalations \in Nat
    BY <2>2, NumbersAssumption DEF TurnState
  <2>5. Spent(turn[t], 0) \/ Spent(turn[t], 1)
    BY <2>2 DEF Answers
  <2> QED
    BY <2>1, <2>3, <2>4, <2>5, NumbersAssumption DEF Spent
<1> QED
  BY <1>1, AInvHolds, PTL

\* A complete answer is replaced for one reason only, under every policy: the
\* judge looked at this very answer and rejected it.
THEOREM RejectionTheorem == Spec => []OnlyRejectionReplacesAnAnswer
<1>1. IInv /\ AInv => OnlyRejectionReplacesAnAnswer
  BY DEF AInv, Answers, Replaced, Replacement, OnlyRejectionReplacesAnAnswer,
         Seen, Indexes, Last
<1> QED
  BY <1>1, AInvHolds, PTL

\* What replaces a rejected answer is the route its verdict names, and a
\* stronger one: from the verified step up and from the ordinary failure rule
\* alike, unless the policy is the fixed one or the required gain is nothing.
THEOREM StepUpTheorem ==
  ASSUME Policy # "A_static", MinGain > 0
  PROVE  Spec => []RejectionStepsUp
<1>1. IInv /\ AInv => RejectionStepsUp
  BY DEF AInv, Answers, Replaced, Replacement, Measured, RejectionStepsUp,
         Seen, Indexes, Last
<1> QED
  BY <1>1, AInvHolds, PTL

\* A truncated answer survives every later failure, and the one returned is
\* the first, with the headers of the route that wrote it.  Where verify.always
\* names a plan this is false: the rejection of a later plan's answer ends the
\* turn in a 500.
THEOREM UnfinishedSurvives ==
  ASSUME NoPlanGraded
  PROVE  Spec => []UnfinishedAnswerSurvives
<1>1. IInv /\ AInv => UnfinishedAnswerSurvives
  <2> SUFFICES ASSUME IInv, AInv, NEW t \in Turn
      PROVE  /\ turn[t].reply.kind \in Errors => Seen(t, {"truncated"}) = {}
             /\ turn[t].reply.kind = "partial" =>
                  /\ turn[t].trail[turn[t].reply.body].observed = "truncated"
                  /\ turn[t].reply.headers = turn[t].reply.body
                  /\ \A i \in Seen(t, {"truncated"}) : turn[t].reply.body <= i
    BY DEF UnfinishedAnswerSurvives
  <2>1. Placed(turn[t]) /\ FirstCut(turn[t].trail, turn[t].unfinished)
    BY DEF IInv, TurnInv, Core
  <2>2. Seen(t, {"truncated"}) =
          {i \in 1..Len(turn[t].trail) : turn[t].trail[i].observed = "truncated"}
    BY DEF Seen, Indexes, Last
  <2>3. CASE turn[t].reply.kind \in Errors
    <3>1. turn[t].reply.kind = "error"
      BY <2>3 DEF Errors, AInv, Answers
    <3> QED
      BY <2>1, <2>2, <3>1 DEF Placed, FirstCut
  <2>4. CASE turn[t].reply.kind = "partial"
    BY <2>1, <2>2, <2>4 DEF Placed, FirstCut, Errors
  <2> QED
    BY <2>3, <2>4 DEF Errors
<1> QED
  BY <1>1, AInvHolds, PTL

----------------------------------------------------------------------------
(* Every step of the engine is a step of the service, or none.              *)

CallsIn(trail) ==
  {[route |-> trail[i].route, outcome |-> trail[i].observed] : i \in Observed(trail)}

LEMMA ReturnedCalls ==
  ASSUME NEW trail \in Seq(Decision)
  PROVE  {i \in 1..Len(trail) : trail[i].observed \in {"ok", "truncated", "error"}}
           = Observed(trail)
<1>1. \A d \in Decision : d.observed \in {"pending", "ok", "truncated", "error"}
  BY DEF Decision
<1>2. \A i \in 1..Len(trail) : trail[i] \in Decision
  OBVIOUS
<1> QED
  BY <1>1, <1>2 DEF Observed

LEMMA CallsByTrail ==
  ASSUME IInv, NEW t \in Turn
  PROVE  /\ CallsMade[t] = CallsIn(turn[t].trail)
         /\ RepliesMade[t] = turn[t].reply.kind
         /\ Service!Got(t) = Got(turn[t].trail)
         /\ Service!Called(t) = {turn[t].trail[i].route : i \in Observed(turn[t].trail)}
<1> DEFINE a == turn[t].trail
<1>1. a \in Seq(Decision)
  BY DEF IInv, TurnState
<1>2. Seen(t, {"ok", "truncated", "error"}) =
        {i \in 1..Len(a) : a[i].observed \in {"ok", "truncated", "error"}}
  BY DEF Seen, Indexes, Last
<1>3. Seen(t, {"ok", "truncated", "error"}) = Observed(a)
  BY <1>1, <1>2, ReturnedCalls
<1>4. CallsMade[t] = CallsIn(a)
  BY <1>3 DEF CallsMade, CallsOf, CallsIn
<1>5. RepliesMade[t] = turn[t].reply.kind
  BY DEF RepliesMade
<1> DEFINE call(i) == [route |-> a[i].route, outcome |-> a[i].observed]
<1>6. Service!Got(t) = Got(a)
  <2>1. Service!Got(t) = {c.outcome : c \in CallsIn(a)}
    BY <1>4 DEF Service!Got
  <2>2. \A c : c \in CallsIn(a) <=> \E i \in Observed(a) : c = call(i)
    BY DEF CallsIn
  <2>3. \A i : call(i).outcome = a[i].observed
    OBVIOUS
  <2> HIDE DEF call
  <2>4. \A o : o \in {c.outcome : c \in CallsIn(a)} <=> o \in Got(a)
    BY <2>2, <2>3 DEF Got
  <2> QED
    BY <2>1, <2>4
<1>7. Service!Called(t) = {a[i].route : i \in Observed(a)}
  <2>1. Service!Called(t) = {c.route : c \in CallsIn(a)}
    BY <1>4 DEF Service!Called
  <2>2. \A c : c \in CallsIn(a) <=> \E i \in Observed(a) : c = call(i)
    BY DEF CallsIn
  <2>3. \A i : call(i).route = a[i].route
    OBVIOUS
  <2> HIDE DEF call
  <2>4. \A r : r \in {c.route : c \in CallsIn(a)} <=> r \in {a[i].route : i \in Observed(a)}
    BY <2>2, <2>3
  <2> QED
    BY <2>1, <2>4
<1> QED
  BY <1>4, <1>5, <1>6, <1>7

\* A call in flight is one of at most MaxAttempts.
LEMMA CallsCounted ==
  ASSUME IInv, AInv, NEW t \in Turn, turn[t].pc = "calling"
  PROVE  Cardinality(CallsMade[t]) < MaxAttempts
<1> DEFINE a == turn[t].trail
           n == Len(a)
           S == Observed(a)
           f == [i \in S |-> [route |-> a[i].route, outcome |-> a[i].observed]]
<1>1. /\ turn[t] \in TurnState /\ a # <<>> /\ a \in Seq(Decision) /\ n = turn[t].attempt
      /\ a[n].observed = "pending"
  BY Running DEF Placed, Standing, InLoop
<1>2. n \in Nat /\ n # 0 /\ n <= MaxAttempts
  BY <1>1, NumbersAssumption DEF TurnState
<1>3. S \in SUBSET (1..(n - 1))
  BY <1>1, <1>2 DEF Observed
<1>4. IsFiniteSet(1..(n - 1)) /\ Cardinality(1..(n - 1)) = n - 1
  <2> DEFINE m == n - 1
  <2>1. m \in Nat /\ (1 > m => m = 0) /\ m - 1 + 1 = m
    <3>1. \A j \in Nat : j # 0 => j - 1 \in Nat /\ (1 > j - 1 => j - 1 = 0)
                                 /\ j - 1 - 1 + 1 = j - 1
      OBVIOUS
    <3> HIDE DEF n
    <3> QED
      BY <1>2, <3>1
  <2> HIDE DEF m
  <2>2. IsFiniteSet(1..m) /\ Cardinality(1..m) = IF 1 > m THEN 0 ELSE m - 1 + 1
    BY <2>1, FS_Interval
  <2> QED
    BY <2>1, <2>2 DEF m
<1>5. IsFiniteSet(S) /\ Cardinality(S) <= n - 1
  BY <1>3, <1>4, FS_Subset
<1>6. f \in Surjection(S, CallsIn(a))
  BY DEF Surjection, CallsIn
<1> HIDE DEF f
<1>7. IsFiniteSet(CallsIn(a)) /\ Cardinality(CallsIn(a)) <= Cardinality(S)
  BY <1>5, <1>6, FS_Surjection
<1>8. Cardinality(S) \in Nat /\ Cardinality(CallsIn(a)) \in Nat
  BY <1>5, <1>7, FS_CardinalityType
<1> QED
  BY <1>2, <1>5, <1>7, <1>8, CallsByTrail, NumbersAssumption

\* What the service sees of a step of one turn.
LEMMA SeenOfStep ==
  ASSUME IInv, IInv', NEW t \in Turn, \A u \in Turn \ {t} : turn'[u] = turn[u]
  PROVE  /\ CallsMade' = [CallsMade EXCEPT ![t] = CallsIn(turn'[t].trail)]
         /\ RepliesMade' = [RepliesMade EXCEPT ![t] = turn'[t].reply.kind]
<1>1. \A u \in Turn : CallsMade'[u] = CallsIn(turn'[u].trail)
  <2>1. ASSUME NEW u \in Turn
        PROVE  CallsMade'[u] = CallsIn(turn'[u].trail)
    <3> DEFINE a == turn'[u].trail
    <3>1. a \in Seq(Decision)
      BY DEF IInv, TurnState
    <3>2. Seen(u, {"ok", "truncated", "error"})' =
            {i \in 1..Len(a) : a[i].observed \in {"ok", "truncated", "error"}}
      BY DEF Seen, Indexes, Last
    <3>3. Seen(u, {"ok", "truncated", "error"})' = Observed(a)
      BY <3>1, <3>2, ReturnedCalls
    <3> QED
      BY <3>3 DEF CallsMade, CallsOf, CallsIn
  <2> QED
    BY <2>1
<1>2. \A u \in Turn : CallsMade[u] = CallsIn(turn[u].trail)
  BY CallsByTrail
<1>3. CallsMade' = [CallsMade EXCEPT ![t] = CallsIn(turn'[t].trail)]
  <2>1. CallsMade = [u \in Turn |-> CallsIn(turn[u].trail)]
    BY <1>2 DEF CallsMade
  <2>2. CallsMade' = [u \in Turn |-> CallsIn(turn'[u].trail)]
    BY <1>1 DEF CallsMade
  <2> QED
    BY <2>1, <2>2
<1>4. RepliesMade' = [RepliesMade EXCEPT ![t] = turn'[t].reply.kind]
  BY DEF RepliesMade
<1> QED
  BY <1>3, <1>4

LEMMA ServiceStep ==
  ASSUME Policy # "A_static", NoPlanGraded, IInv, IInv', AInv, NEW t \in Turn, StepOf(t)
  PROVE  Service!Next \/ UNCHANGED <<CallsMade, RepliesMade>>
<1> DEFINE a == turn[t].trail
           b == turn'[t].trail
           k == turn'[t].reply.kind
           n == Len(a)
<1>1. /\ CallsMade' = [CallsMade EXCEPT ![t] = CallsIn(b)]
      /\ RepliesMade' = [RepliesMade EXCEPT ![t] = k]
  BY SeenOfStep DEF StepOf
<1>2. /\ CallsMade[t] = CallsIn(a) /\ RepliesMade[t] = "none" /\ Service!Got(t) = Got(a)
      /\ Service!Called(t) = {a[i].route : i \in Observed(a)}
  BY CallsByTrail DEF StepOf
<1>3. a \in Seq(Decision) /\ b \in Seq(Decision) /\ NoneTwice(a)
      /\ k \in {"none", "answer", "partial", "error", "unroutable"}
  <2>1. Answers(turn'[t]) /\ turn[t] \in TurnState /\ turn'[t] \in TurnState
    BY DEF IInv, StepOf
  <2>2. k # "raised"
    BY <2>1 DEF Answers
  <2>3. k \in {"none", "answer", "partial", "error", "unroutable", "raised"}
    BY <2>1 DEF TurnState, Reply
  <2> QED
    BY <2>1, <2>2, <2>3 DEF IInv, TurnInv, Core, TurnState
<1>4. k # "none" => Service!Fits(k, Got(b))
  BY <1>3 DEF StepOf, Answers
<1>5. CASE SamePast(a, b)
  <2>1. CallsIn(b) = CallsIn(a) /\ Got(b) = Got(a)
    BY <1>5, SamePastKeeps DEF SamePast, CallsIn
  <2>2. CallsMade' = CallsMade
    BY <1>1, <1>2, <2>1 DEF CallsMade
  <2>3. CASE k = "none"
    BY <1>1, <1>2, <2>2, <2>3 DEF RepliesMade
  <2>4. CASE k # "none"
    <3>1. Service!Conclude(t)
      BY <1>1, <1>2, <1>3, <1>4, <2>1, <2>2, <2>4 DEF Service!Conclude, Service!Kind
    <3> QED
      BY <3>1 DEF Service!Next
  <2> QED
    BY <2>3, <2>4
<1>6. ASSUME NEW status \in {"ok", "truncated", "error"}, OneMore(a, b, status),
             turn[t].pc = "calling", k \in {"none", "partial", "error"}
      PROVE  Service!Attempt(t)
  <2>1. /\ Got(b) = Got(a) \cup {status} /\ Observed(b) = Observed(a) \cup {n}
        /\ n \notin Observed(a) /\ \A i \in Observed(a) : b[i] = a[i]
    BY <1>3, <1>6, OutcomeOnTrail
  <2>2. b[n].observed = status /\ b[n].route = a[n].route /\ a # <<>>
    BY <1>6 DEF OneMore
  <2>3. n \in 1..n /\ a[n].route \in Route
    BY <1>3, <2>2, LastDecision
  <2>4. CallsIn(b) = CallsIn(a) \cup {[route |-> a[n].route, outcome |-> status]}
    BY <2>1, <2>2 DEF CallsIn
  <2>5. a[n].route \in Route \ Service!Called(t)
    BY <1>2, <1>3, <2>1, <2>3 DEF NoneTwice, Observed
  <2>6. Service!Cardinality(CallsMade[t]) < MaxAttempts
    <3>1. Service!Cardinality(CallsMade[t]) = Cardinality(CallsMade[t])
      BY DEF Service!Cardinality, Cardinality
    <3> QED
      BY <1>6, <3>1, CallsCounted
  <2>7. CallsMade' = [CallsMade EXCEPT
                        ![t] = @ \cup {[route |-> a[n].route, outcome |-> status]}]
    BY <1>1, <1>2, <2>4
  <2>8. \/ RepliesMade' = RepliesMade
        \/ \E x \in {"partial", "error"} : /\ Service!Fits(x, Service!Got(t) \cup {status})
                                           /\ RepliesMade' = [RepliesMade EXCEPT ![t] = x]
    <3>1. CASE k = "none"
      BY <1>1, <1>2, <3>1 DEF RepliesMade
    <3>2. CASE k # "none"
      BY <1>1, <1>2, <1>4, <1>6, <2>1, <3>2
    <3> QED
      BY <3>1, <3>2
  <2>9. status \in Service!Outcome
    BY DEF Service!Outcome
  <2> DEFINE r == a[n].route
  <2> HIDE DEF r
  <2>10. /\ r \in Route \ Service!Called(t)
         /\ CallsMade' = [CallsMade EXCEPT ![t] = @ \cup {[route |-> r, outcome |-> status]}]
    BY <2>5, <2>7 DEF r
  <2>11. \E r_1 \in Route \ Service!Called(t), o \in Service!Outcome :
           /\ CallsMade' = [CallsMade EXCEPT ![t] = @ \cup {[route |-> r_1, outcome |-> o]}]
           /\ \/ RepliesMade' = RepliesMade
              \/ \E x \in {"partial", "error"} :
                   /\ Service!Fits(x, Service!Got(t) \cup {o})
                   /\ RepliesMade' = [RepliesMade EXCEPT ![t] = x]
    <3>1. r \in Route \ Service!Called(t)
      BY <2>10
    <3> WITNESS r \in Route \ Service!Called(t), status \in Service!Outcome
    <3> QED
      BY <2>8, <2>10
  <2>12. RepliesMade[t] = "none"
    BY <1>2
  <2> HIDE DEF a, b, k, n
  <2> QED
    BY <2>6, <2>11, <2>12 DEF Service!Attempt
<1> QED
  BY <1>5, <1>6 DEF StepOf, Service!Next

\* The engine implements the service its client sees: a turn calls different
\* routes, at most MaxAttempts of them, one after another, and gives one reply
\* that fits what they returned.  (That it does reply is checked by TLC; and a
\* plan that verify.always names is excluded, for its rejection raises.)
THEOREM ServiceTheorem ==
  ASSUME Policy # "A_static", NoPlanGraded
  PROVE  Spec => Service!Init /\ [][Service!Next]_(Service!svars)
<1>1. Init => Service!Init
  <2> SUFFICES ASSUME Init
      PROVE  Service!Init
    OBVIOUS
  <2>1. \A t \in Turn : turn[t].trail = <<>> /\ turn[t].reply.kind = "none"
    BY DEF Init, NewTurn, NoReply
  <2>2. \A t \in Turn : CallsMade[t] = {}
    BY <2>1 DEF CallsMade, CallsOf, Seen, Indexes, Last
  <2> QED
    BY <2>1, <2>2 DEF Service!Init, CallsMade, RepliesMade
<1>2. ASSUME IInv, IInv', AInv, [Next]_vars
      PROVE  [Service!Next]_(Service!svars)
  <2>1. ASSUME NEW t \in Turn, Request(t) \/ Serve(t)
        PROVE  Service!Next \/ UNCHANGED <<CallsMade, RepliesMade>>
    BY <1>2, <2>1, TurnSteps, ServiceStep
  <2>2. ASSUME turn' = turn
        PROVE  UNCHANGED <<CallsMade, RepliesMade>>
    BY <2>2 DEF CallsMade, CallsOf, Seen, Indexes, Last, RepliesMade
  <2> QED
    BY <1>2, <2>1, <2>2 DEF Next, QuotaTurns, OutcomeExpires, vars, Service!svars
<1> QED
  BY <1>1, <1>2, AInvHolds, PTL DEF Spec

----------------------------------------------------------------------------
(* The floor of a conversation whose turns come one at a time.              *)

\* What a handler is about to store is not below what it read.
FloorInv ==
  \A t \in Turn : turn[t].pc \in {"bumped", "raising"} => turn[t].raised >= floor

LEMMA LargerBounds ==
  ASSUME NEW a \in Nat, NEW b \in Nat
  PROVE  Larger(a, b) >= a
BY DEF Larger

LEMMA FloorAfterBounds ==
  ASSUME floor \in Nat, NEW r \in Route, NEW difficulty \in Nat
  PROVE  FloorAfter(r, difficulty) >= floor
<1>1. Level[r] \in Nat
  BY NumbersAssumption
<1>2. Larger(Level[r], difficulty) \in Nat
  BY <1>1, LargerInNat
<1> QED
  BY <1>2, LargerBounds DEF FloorAfter

LEMMA FailFloor ==
  ASSUME floor \in Nat, NEW s \in TurnState, s.trail # <<>>, NEW why
  PROVE  Fail(s, why).raised >= floor
<1>1. s.trail[Len(s.trail)].route \in Route /\ s.difficulty \in Nat
  BY LastDecision DEF TurnState
<1>2. Fail(s, why).raised = FloorAfter(s.trail[Len(s.trail)].route, s.difficulty)
  BY DEF Fail, TurnState
<1> QED
  BY <1>1, <1>2, FloorAfterBounds

LEMMA OnlyTurnFloor ==
  ASSUME IInv, FloorInv, NEW t, Turn = {t}, Request(t) \/ Serve(t)
  PROVE  FloorInv' /\ floor' >= floor
<1>1. /\ t \in Turn /\ turn[t] \in TurnState /\ floor \in Nat
      /\ turn[t].pc \in {"bumped", "raising"} => turn[t].raised >= floor
  BY DEF IInv, FloorInv
<1>2. floor >= floor
  BY <1>1
<1>3. ASSUME NEW q, turn' = [turn EXCEPT ![t] = q], floor' >= floor,
             q.pc \in {"bumped", "raising"} => q.raised >= floor'
      PROVE  FloorInv' /\ floor' >= floor
  <2>1. turn'[t] = q
    BY <1>1, <1>3 DEF IInv
  <2> QED
    BY <1>3, <2>1 DEF FloorInv
<1>4. ASSUME NEW q, turn' = [turn EXCEPT ![t] = q], q.pc \notin {"bumped", "raising"},
             floor' >= floor
      PROVE  FloorInv' /\ floor' >= floor
  BY <1>3, <1>4
<1>5. turn[t].pc = "raising" /\ StoreFloor(t) => floor' >= floor
  BY <1>1, <1>2 DEF StoreFloor
<1>6. CASE RouteTurn(t)
  <2>1. PICK chosen \in Choosable, gradable \in BOOLEAN :
          \E r \in AvoidRepeatedTruncation(chosen) :
            turn' = [turn EXCEPT ![t].pc = "calling", ![t].attempt = 1,
                                 ![t].gradable = gradable,
                                 ![t].trail = <<NewDecision(r, NoVerdict)>>]
    BY <1>6 DEF RouteTurn
  <2>2. PICK r \in AvoidRepeatedTruncation(chosen) :
          turn' = [turn EXCEPT ![t] = [@ EXCEPT !.pc = "calling", !.attempt = 1,
                     !.gradable = gradable, !.trail = <<NewDecision(r, NoVerdict)>>]]
    BY <2>1
  <2> DEFINE q == [turn[t] EXCEPT !.pc = "calling", !.attempt = 1, !.gradable = gradable,
                                  !.trail = <<NewDecision(r, NoVerdict)>>]
  <2>3. turn' = [turn EXCEPT ![t] = q] /\ q.pc = "calling" /\ floor' = floor
    BY <1>1, <1>6, <2>2 DEF RouteTurn, TurnState
  <2> HIDE DEF q
  <2> QED
    BY <1>2, <1>4, <2>3
<1>7. CASE NoRouteAvailable(t)
  <2> DEFINE q == [turn[t] EXCEPT !.pc = "done", !.reply.kind = "unroutable"]
  <2>1. turn' = [turn EXCEPT ![t] = q] /\ q.pc = "done" /\ floor' = floor
    BY <1>1, <1>7 DEF NoRouteAvailable, TurnState
  <2> HIDE DEF q
  <2> QED
    BY <1>2, <1>4, <2>1
<1>8. CASE ContinueToolLoop(t)
  <2>1. PICK gradable \in BOOLEAN :
          turn' = [turn EXCEPT ![t].pc = "calling", ![t].attempt = 1,
                               ![t].gradable = gradable, ![t].difficulty = floor,
                               ![t].trail = <<NewDecision(current, NoVerdict)>>]
    BY <1>8 DEF ContinueToolLoop
  <2> DEFINE q == [turn[t] EXCEPT !.pc = "calling", !.attempt = 1, !.gradable = gradable,
                     !.difficulty = floor, !.trail = <<NewDecision(current, NoVerdict)>>]
  <2>2. turn' = [turn EXCEPT ![t] = q]
    BY <2>1
  <2>3. q.pc = "calling"
    BY <1>1 DEF TurnState
  <2>4. floor' = floor
    BY <1>8 DEF ContinueToolLoop
  <2> HIDE DEF q
  <2> QED
    BY <1>2, <1>4, <2>2, <2>3, <2>4
<1>9. CASE EscalateToolLoop(t)
  <2>1. PICK gradable \in BOOLEAN :
          turn' = [turn EXCEPT ![t].pc = "raising", ![t].why = "stuck",
                               ![t].gradable = gradable, ![t].difficulty = floor,
                               ![t].trail = <<NewDecision(current, NoVerdict)>>,
                               ![t].raised = FloorAfter(current, floor)]
    BY <1>9 DEF EscalateToolLoop
  <2> DEFINE q == [turn[t] EXCEPT !.pc = "raising", !.why = "stuck", !.gradable = gradable,
                     !.difficulty = floor, !.trail = <<NewDecision(current, NoVerdict)>>,
                     !.raised = FloorAfter(current, floor)]
  <2>2. turn' = [turn EXCEPT ![t] = q]
    BY <2>1
  <2>3. q.raised = FloorAfter(current, floor)
    BY <1>1 DEF TurnState
  <2>4. current \in Route /\ floor' = floor
    BY <1>9 DEF EscalateToolLoop, IInv
  <2> HIDE DEF q
  <2>5. q.raised >= floor'
    BY <1>1, <2>3, <2>4, FloorAfterBounds
  <2> QED
    BY <1>2, <1>3, <2>2, <2>4, <2>5
<1>10. CASE AnswerComplete(t)
  <2> DEFINE q == [Observe(turn[t], "ok") EXCEPT !.pc = "judging"]
  <2>1. turn' = [turn EXCEPT ![t] = q] /\ q.pc = "judging" /\ floor' = floor
    BY <1>1, <1>10 DEF AnswerComplete, Observe, TurnState
  <2> HIDE DEF q
  <2> QED
    BY <1>2, <1>4, <2>1
<1>11. CASE AnswerCut(t)
  <2> DEFINE s == turn[t]
             kept == [Observe(s, "truncated") EXCEPT
                        !.unfinished = IF @ = 0 THEN Len(s.trail) ELSE @]
             spent == [kept EXCEPT !.truncations = @ - 1]
             q == IF kept.truncations = 0 THEN AfterLoop(kept) ELSE Fail(spent, "cut")
  <2>1. /\ turn' = [turn EXCEPT ![t] = q] /\ floor' = floor /\ s.pc = "calling"
    BY <1>11 DEF AnswerCut, Last
  <2>2. /\ Core(s) /\ s.trail # <<>> /\ s.trail[Len(s.trail)].observed = "pending"
    BY <1>1, <2>1, Underway DEF Placed
  <2>3. Core(kept) /\ kept.trail # <<>>
    BY <2>2, ObserveCutInv
  <2>4. kept \in TurnState
    BY <2>3 DEF Core
  <2> HIDE DEF kept, s
  <2>5. CASE kept.truncations = 0
    <3> DEFINE p == AfterLoop(kept)
    <3>1. p.pc = "done" /\ turn' = [turn EXCEPT ![t] = p]
      BY <2>1, <2>4, <2>5 DEF AfterLoop, TurnState
    <3> HIDE DEF p
    <3> QED
      BY <1>2, <1>4, <2>1, <3>1
  <2>6. CASE kept.truncations # 0
    <3>1. kept.truncations - 1 \in 0..TruncationRetries
      BY <2>4, <2>6, NumbersAssumption DEF TurnState
    <3>2. spent \in TurnState /\ spent.trail = kept.trail
      BY <2>4, <3>1 DEF TurnState
    <3> HIDE DEF spent
    <3> DEFINE p == Fail(spent, "cut")
    <3>3. turn' = [turn EXCEPT ![t] = p]
      BY <2>1, <2>6
    <3>4. p.raised >= floor
      BY <1>1, <2>3, <3>2, FailFloor
    <3> HIDE DEF p
    <3> QED
      BY <1>2, <1>3, <2>1, <3>3, <3>4
  <2> QED
    BY <2>5, <2>6
<1>12. CASE CallFails(t)
  <2> DEFINE s == turn[t]
             o == Observe(s, "error")
             q == [o EXCEPT !.lastError = Len(s.trail)]
  <2>1. PICK why \in {"outage", "refused"} : turn' = [turn EXCEPT ![t] = Fail(q, why)]
    BY <1>12 DEF CallFails, Last
  <2>2. s.pc = "calling" /\ floor' = floor
    BY <1>12 DEF CallFails
  <2>3. /\ Core(s) /\ s.trail # <<>> /\ s.trail[Len(s.trail)].observed = "pending"
        /\ Len(s.trail) \in Nat
    BY <1>1, <2>2, Underway DEF Placed, Last
  <2>4. Core(o) /\ o.trail # <<>>
    BY <2>3, ObserveInv
  <2>5. o \in TurnState
    BY <2>4 DEF Core
  <2> HIDE DEF o, s
  <2>6. q \in TurnState /\ q.trail = o.trail
    BY <2>3, <2>5 DEF TurnState
  <2> HIDE DEF q
  <2> DEFINE p == Fail(q, why)
  <2>7. p.raised >= floor /\ turn' = [turn EXCEPT ![t] = p]
    BY <1>1, <2>1, <2>4, <2>6, FailFloor
  <2> HIDE DEF p
  <2> QED
    BY <1>2, <1>3, <2>2, <2>7
<1>13. CASE Judge(t)
  <2>1. PICK v \in CheckVerdicts(t) :
          LET s     == [turn[t] EXCEPT !.trail[Last(t)].verdict = v]
              shown == IF s.checked # NoVerdict /\ v.status = "unchecked"
                       THEN s.checked ELSE v
          IN  turn' = [turn EXCEPT ![t] =
                IF Escalates(shown) /\ s.escalations > 0
                THEN [s EXCEPT !.pc = "bumping", !.escalations = @ - 1]
                ELSE [s EXCEPT !.pc = "done", !.reply = AnswerReply(t, shown)]]
    BY <1>13 DEF Judge
  <2> DEFINE s == [turn[t] EXCEPT !.trail[Last(t)].verdict = v]
             shown == IF s.checked # NoVerdict /\ v.status = "unchecked" THEN s.checked ELSE v
             q == IF Escalates(shown) /\ s.escalations > 0
                  THEN [s EXCEPT !.pc = "bumping", !.escalations = @ - 1]
                  ELSE [s EXCEPT !.pc = "done", !.reply = AnswerReply(t, shown)]
  <2>2. turn' = [turn EXCEPT ![t] = q] /\ floor' = floor
    BY <1>13, <2>1 DEF Judge
  <2>3. q.pc \in {"bumping", "done"}
    BY <1>1 DEF TurnState
  <2> HIDE DEF q
  <2> QED
    BY <1>2, <1>4, <2>2, <2>3
<1>14. CASE BumpFloorRead(t)
  <2> DEFINE q == [turn[t] EXCEPT !.pc = "bumped", !.raised = Larger(floor, DifficultyFloor)]
  <2>1. /\ turn' = [turn EXCEPT ![t] = q] /\ floor' = floor
        /\ q.raised = Larger(floor, DifficultyFloor)
    BY <1>1, <1>14 DEF BumpFloorRead, TurnState
  <2> HIDE DEF q
  <2>2. q.raised >= floor
    BY <1>1, <2>1, LargerBounds, NumbersAssumption
  <2> QED
    BY <1>2, <1>3, <2>1, <2>2
<1>15. CASE BumpFloorWrite(t)
  <2> DEFINE q == [turn[t] EXCEPT !.pc = "steppingUp"]
  <2>1. turn' = [turn EXCEPT ![t] = q] /\ floor' >= floor /\ q.pc = "steppingUp"
    BY <1>1, <1>15 DEF BumpFloorWrite, TurnState
  <2> HIDE DEF q
  <2> QED
    BY <1>4, <2>1
<1>16. CASE StepUp(t)
  <2> DEFINE s == turn[t]
             targets == VerifiedStepUp(Result(t).route, s.tried \cup {Result(t).route})
  <2>1. \/ \E r \in targets : turn' = [turn EXCEPT ![t] = Escalated(s, r)]
        \/ turn' = [turn EXCEPT ![t] = Fail(s, "verdict")]
    BY <1>16 DEF StepUp
  <2>2. s \in TurnState /\ s.trail # <<>> /\ floor' = floor
    BY <1>1, <1>16, Underway DEF StepUp
  <2> HIDE DEF s, targets
  <2>3. ASSUME NEW r \in targets, turn' = [turn EXCEPT ![t] = Escalated(s, r)]
        PROVE  FloorInv' /\ floor' >= floor
    <3>1. Escalated(s, r).pc \in {"calling", "done"}
      BY <2>2 DEF Escalated, Adopt, AfterLoop, TurnState
    <3> QED
      BY <1>2, <1>4, <2>2, <2>3, <3>1
  <2>4. ASSUME turn' = [turn EXCEPT ![t] = Fail(s, "verdict")]
        PROVE  FloorInv' /\ floor' >= floor
    BY <1>1, <1>2, <1>3, <2>2, <2>4, FailFloor
  <2> QED
    BY <2>1, <2>3, <2>4
<1>20. CASE RejectedPlanRaises(t)
  <2> DEFINE q == [turn[t] EXCEPT !.pc = "done", !.reply.kind = "raised"]
  <2>1. turn' = [turn EXCEPT ![t] = q] /\ q.pc = "done" /\ floor' = floor
    BY <1>1, <1>20 DEF RejectedPlanRaises, TurnState
  <2> HIDE DEF q
  <2> QED
    BY <1>2, <1>4, <2>1
<1>17. CASE StartAfterToolErrors(t)
  <2>1. PICK r \in IF Targets(t) # {} THEN Targets(t) ELSE {current} :
          turn' = [turn EXCEPT ![t].pc = "calling", ![t].why = "none", ![t].attempt = 1,
                               ![t].trail = <<NewDecision(r, NoVerdict)>>]
    BY <1>17 DEF StartAfterToolErrors
  <2> DEFINE q == [turn[t] EXCEPT !.pc = "calling", !.why = "none", !.attempt = 1,
                                  !.trail = <<NewDecision(r, NoVerdict)>>]
  <2>2. turn' = [turn EXCEPT ![t] = q] /\ q.pc = "calling"
    BY <1>1, <2>1 DEF TurnState
  <2> HIDE DEF q
  <2> QED
    BY <1>4, <1>5, <1>17, <2>2 DEF StartAfterToolErrors
<1>18. CASE Retry(t)
  <2> DEFINE s == turn[t]
  <2>1. PICK r \in Targets(t) :
          turn' = [turn EXCEPT ![t] = IF s.why = "verdict" THEN Escalated(s, r)
                                      ELSE Adopt(s, r, NoVerdict)]
    BY <1>18 DEF Retry
  <2> DEFINE q == IF s.why = "verdict" THEN Escalated(s, r) ELSE Adopt(s, r, NoVerdict)
  <2>2. q.pc \in {"calling", "done"}
    BY <1>1 DEF Escalated, Adopt, AfterLoop, TurnState
  <2>3. turn' = [turn EXCEPT ![t] = q]
    BY <2>1
  <2> HIDE DEF q
  <2> QED
    BY <1>4, <1>5, <1>18, <2>2, <2>3 DEF Retry
<1>19. CASE GiveUp(t)
  <2> DEFINE s == turn[t]
             q == IF s.why = "verdict"
                  THEN [s EXCEPT !.pc = "done", !.why = "none",
                                 !.reply = AnswerReply(t, Result(t).verdict)]
                  ELSE AfterLoop([s EXCEPT !.why = "none"])
  <2>1. turn' = [turn EXCEPT ![t] = q]
    BY <1>19 DEF GiveUp
  <2>2. q.pc = "done"
    BY <1>1 DEF AfterLoop, TurnState
  <2> HIDE DEF q
  <2> QED
    BY <1>4, <1>5, <1>19, <2>1, <2>2 DEF GiveUp
<1> QED
  BY <1>6, <1>7, <1>8, <1>9, <1>10, <1>11, <1>12, <1>13, <1>14, <1>15, <1>16, <1>17,
     <1>18, <1>19, <1>20 DEF Request, Serve

\* In a conversation whose turns come one at a time, nothing ever lowers what
\* it has proved hard.  With two turns at once this is false: a floor read
\* before another turn's write is written after it.
THEOREM FloorTheorem ==
  ASSUME NEW CONSTANT t, Turn = {t}
  PROVE  Spec => FloorNeverDrops
<1>1. Init => IInv /\ FloorInv
  <2>1. Init => FloorInv
    BY DEF Init, FloorInv, NewTurn
  <2> QED
    BY <2>1, InitInv
<1>2. ASSUME IInv, FloorInv, [Next]_vars
      PROVE  FloorInv' /\ [floor' >= floor]_floor
  <2>1. CASE \E u \in Turn : Request(u) \/ Serve(u)
    BY <1>2, <2>1, OnlyTurnFloor
  <2>2. CASE UNCHANGED <<turn, floor>>
    BY <1>2, <2>2 DEF FloorInv
  <2> QED
    BY <1>2, <2>1, <2>2 DEF Next, QuotaTurns, OutcomeExpires, vars
<1> QED
  BY <1>1, <1>2, NextInv, PTL DEF Spec, FloorNeverDrops
----------------------------------------------------------------------------
(* What the floor may be                                                    *)

\* Routes R have been tried, and an answer was rejected if g: a positive
\* difficulty x is one of those this shows.
Deserved(x, R, g) ==
  x > 0 => /\ R # {}
           /\ x = Difficulty \/ (\E r \in R : x = Level[r]) \/ (g /\ x = DifficultyFloor)

\* A complete answer was rejected, and no verdict on it is still to come.
Spurned(s) ==
  \E i \in 1..Len(s.trail) :
    /\ s.trail[i].observed = "ok"
    /\ i < Len(s.trail) \/ (s.trail[i].verdict.status = "rejected" /\ s.pc # "judging")

AnySpurned == \E t \in Turn : Spurned(turn[t])

\* A step of a turn that forgets no rejection.
Onward(s, q) ==
  \/ s.pc = "new" \/ (s.pc = "raising" /\ s.why = "stuck")
  \/ s.pc \in {"calling", "judging"} /\ Len(q.trail) = Len(s.trail)
  \/ q.trail = s.trail /\ q.pc # "judging"
  \/ Len(q.trail) > Len(s.trail)

\* A turn's own difficulty: the classifier's, or an earlier floor.
Hard(d) == d = Difficulty \/ Deserved(d, RoutesTried, AnySpurned)

\* The inductive invariant: the floor is deserved, and so is every value that
\* a turn may be about to store there, whatever the floor was when it read it.
EInv ==
  /\ Deserved(floor, RoutesTried, AnySpurned)
  /\ current # NoRoute => current \in RoutesTried
  /\ \A t \in Turn : Hard(turn[t].difficulty)
  /\ \A t \in Turn : turn[t].pc \in {"bumped", "raising"} =>
       Deserved(turn[t].raised, RoutesTried, AnySpurned)

LEMMA DeservedLarger ==
  ASSUME NEW x, NEW y, NEW R, NEW g, Deserved(x, R, g), Deserved(y, R, g)
  PROVE  Deserved(Larger(x, y), R, g)
BY DEF Deserved, Larger

LEMMA DeservedGrows ==
  ASSUME NEW x, NEW R, NEW g, Deserved(x, R, g), NEW S, R \subseteq S, NEW h, g => h
  PROVE  Deserved(x, S, h)
BY DEF Deserved

\* What on_failure computes after a route that has been tried.
LEMMA FailureDeserves ==
  ASSUME NEW R, NEW g, Deserved(floor, R, g), NEW r \in R, NEW d,
         d = Difficulty \/ Deserved(d, R, g)
  PROVE  Deserved(FloorAfter(r, d), R, g)
<1>1. Deserved(Level[r], R, g) /\ Deserved(d, R, g)
  BY DEF Deserved
<1>2. Deserved(Larger(Level[r], d), R, g)
  BY <1>1, DeservedLarger
<1>3. Deserved(Larger(floor, Larger(Level[r], d)), R, g)
  BY <1>2, DeservedLarger
<1> QED
  BY <1>3 DEF FloorAfter

\* Tried by the turns f.
TriedBy(f) ==
  UNION {{f[t].trail[i].route : i \in {j \in 1..Len(f[t].trail) :
            f[t].trail[j].observed \in {"ok", "truncated", "error"}}} : t \in Turn}

LEMMA TriedByTrail ==
  ASSUME NEW f \in [Turn -> TurnState]
  PROVE  \A r : r \in TriedBy(f) <=>
           \E t \in Turn : \E i \in Observed(f[t].trail) : r = f[t].trail[i].route
<1>1. ASSUME NEW t \in Turn
      PROVE  Observed(f[t].trail) =
               {i \in 1..Len(f[t].trail) :
                  f[t].trail[i].observed \in {"ok", "truncated", "error"}}
  <2>1. f[t].trail \in Seq(Decision)
    BY DEF TurnState
  <2>2. \A d \in Decision : d.observed \in {"pending", "ok", "truncated", "error"}
    BY DEF Decision
  <2>3. \A i \in 1..Len(f[t].trail) : f[t].trail[i] \in Decision
    BY <2>1
  <2> QED
    BY <2>2, <2>3 DEF Observed
<1> QED
  BY <1>1 DEF TriedBy

\* No step forgets a route that has been tried.
LEMMA TriedGrows ==
  ASSUME IInv, IInv', NEW t \in Turn, StepOf(t)
  PROVE  RoutesTried \subseteq RoutesTried'
<1>1. turn \in [Turn -> TurnState] /\ turn' \in [Turn -> TurnState]
  BY DEF IInv
<1>2. RoutesTried = TriedBy(turn) /\ RoutesTried' = TriedBy(turn')
  BY DEF RoutesTried, Returned, Seen, Indexes, Last, TriedBy
<1>3. ASSUME NEW u \in Turn, NEW i \in Observed(turn[u].trail)
      PROVE  i \in Observed(turn'[u].trail) /\ turn'[u].trail[i].route = turn[u].trail[i].route
  <2>1. CASE u # t
    BY <1>3, <2>1 DEF StepOf
  <2>2. CASE u = t
    BY <1>3, <2>2 DEF StepOf, SamePast, OneMore, Observed
  <2> QED
    BY <2>1, <2>2
<1>4. ASSUME NEW r \in TriedBy(turn)
      PROVE  r \in TriedBy(turn')
  <2>1. PICK u \in Turn : \E i \in Observed(turn[u].trail) : r = turn[u].trail[i].route
    BY <1>1, <1>4, TriedByTrail
  <2>2. PICK i \in Observed(turn[u].trail) : r = turn[u].trail[i].route
    BY <2>1
  <2>3. i \in Observed(turn'[u].trail) /\ r = turn'[u].trail[i].route
    BY <1>3, <2>2
  <2> QED
    BY <1>1, <2>3, TriedByTrail
<1> QED
  BY <1>2, <1>4

LEMMA SpurnedStays ==
  ASSUME IInv, AInv, NEW t \in Turn, StepOf(t), Onward(turn[t], turn'[t])
  PROVE  Spurned(turn[t]) => Spurned(turn'[t])
<1> DEFINE s == turn[t]
           q == turn'[t]
<1>1. /\ s.trail \in Seq(Decision)
      /\ s.pc = "new" => s.trail = <<>>
      /\ s.pc = "calling" => s.trail[Len(s.trail)].observed = "pending"
      /\ s.pc = "raising" /\ s.why = "stuck" =>
           Len(s.trail) = 1 /\ s.trail[1].observed = "pending"
  <2>1. s \in TurnState /\ Placed(s) /\ Standing(s)
    BY DEF IInv, AInv, TurnInv, Answers
  <2>2. s.trail \in Seq(Decision)
    BY <2>1 DEF TurnState
  <2> HIDE DEF s
  <2> QED
    BY <2>1, <2>2 DEF Placed, Standing
<1>2. SUFFICES ASSUME NEW i \in 1..Len(s.trail), s.trail[i].observed = "ok",
               i < Len(s.trail) \/ (s.trail[i].verdict.status = "rejected" /\ s.pc # "judging")
      PROVE  Spurned(q)
  BY DEF Spurned
<1>3. i \in 1..Len(q.trail) /\ q.trail[i].observed = "ok"
  <2>1. i \in Observed(s.trail)
    BY <1>2 DEF Observed
  <2> QED
    BY <1>2, <2>1 DEF StepOf, SamePast, OneMore, Observed
<1>4. Len(s.trail) \in Nat /\ Len(q.trail) > Len(s.trail) => i < Len(q.trail)
  BY <1>1, <1>2, <1>3
<1> QED
  <2>1. CASE s.pc \in {"calling", "judging"} /\ Len(q.trail) = Len(s.trail)
    <3>1. i < Len(s.trail)
      BY <1>1, <1>2, <2>1
    <3> QED
      BY <1>3, <2>1, <3>1 DEF Spurned
  <2>2. CASE q.trail = s.trail /\ q.pc # "judging"
    BY <1>2, <1>3, <2>2 DEF Spurned
  <2>3. CASE Len(q.trail) > Len(s.trail)
    BY <1>3, <1>4, <2>3 DEF Spurned
  <2>4. CASE s.pc = "new" \/ (s.pc = "raising" /\ s.why = "stuck")
    <3>1. s.pc # "new"
      BY <1>1, <1>2
    <3>2. i = 1 /\ s.trail[1].observed = "pending"
      BY <1>1, <1>2, <2>4, <3>1
    <3> QED
      BY <1>2, <3>2
  <2> QED
    BY <2>1, <2>2, <2>3, <2>4 DEF Onward

\* The floor a step reads is deserved by what has been tried after the step.
LEMMA FailDeserves ==
  ASSUME NEW R, NEW g, Deserved(floor, R, g), NEW s \in TurnState, s.trail # <<>>,
         NEW why, Fail(s, why).trail[Len(Fail(s, why).trail)].route \in R,
         s.difficulty = Difficulty \/ Deserved(s.difficulty, R, g)
  PROVE  Deserved(Fail(s, why).raised, R, g)
<1>1. /\ Fail(s, why).trail = s.trail
      /\ Fail(s, why).raised = FloorAfter(s.trail[Len(s.trail)].route, s.difficulty)
  BY DEF Fail, TurnState
<1> QED
  BY <1>1, FailureDeserves

\* The route an on_failure under way has failed with has been tried.
LEMMA LastTried ==
  ASSUME IInv, AInv, NEW t \in Turn,
         (turn[t].pc = "raising" /\ turn[t].why # "stuck") \/ Escalating(turn[t])
  PROVE  turn[t].trail[Len(turn[t].trail)].route \in RoutesTried
<1> DEFINE s == turn[t]
           n == Len(s.trail)
<1>1. s \in TurnState /\ s.trail # <<>> /\ Standing(s)
  BY DEF IInv, AInv, TurnInv, Placed, Answers, Escalating
<1>2. s.trail[n].observed \in {"ok", "truncated", "error"} /\ s.trail \in Seq(Decision)
  BY <1>1 DEF Standing, Escalating, TurnState
<1>3. n \in 1..n
  BY <1>1, <1>2
<1> QED
  BY <1>2, <1>3 DEF RoutesTried, Returned, Seen, Indexes, Last

\* Once a rejection is under way it is on record.
LEMMA EscalatingIsSpurned ==
  ASSUME IInv, AInv, NEW t \in Turn, Escalating(turn[t])
  PROVE  Spurned(turn[t])
<1>1. turn[t] \in TurnState /\ turn[t].trail # <<>> /\ Standing(turn[t])
  BY DEF IInv, AInv, TurnInv, Placed, Answers, Escalating
<1>2. turn[t].trail \in Seq(Decision) /\ turn[t].pc # "judging"
  BY <1>1 DEF TurnState, Escalating
<1>3. Len(turn[t].trail) \in 1..Len(turn[t].trail)
  BY <1>1, <1>2
<1> QED
  BY <1>1, <1>2, <1>3 DEF Standing, Spurned

\* A step of one turn, whatever it computed, keeps what the floor may be.
LEMMA KeepsEarned ==
  ASSUME IInv, IInv', AInv, EInv, NEW t \in Turn, StepOf(t), NEW q,
         turn' = [turn EXCEPT ![t] = q], Onward(turn[t], q),
         floor' = floor \/ Deserved(floor', RoutesTried', AnySpurned),
         current' = current \/ current' \in RoutesTried',
         q.difficulty \in {turn[t].difficulty, floor},
         q.pc \in {"bumped", "raising"} => Deserved(q.raised, RoutesTried', AnySpurned)
  PROVE  EInv'
<1>1. turn'[t] = q /\ \A u \in Turn \ {t} : turn'[u] = turn[u]
  BY DEF IInv
<1>2. RoutesTried \subseteq RoutesTried'
  BY TriedGrows
<1>3. AnySpurned => AnySpurned'
  <2>1. Spurned(turn[t]) => Spurned(turn'[t])
    BY <1>1, SpurnedStays
  <2> QED
    BY <1>1, <2>1 DEF AnySpurned
<1> DEFINE R == RoutesTried
           S == RoutesTried'
           g == AnySpurned
           h == AnySpurned'
<1> HIDE DEF R, S, g, h
<1>4. \A x : Deserved(x, R, g) \/ Deserved(x, S, g) => Deserved(x, S, h)
  BY <1>2, <1>3, DeservedGrows DEF R, S, g, h
<1>5. Deserved(floor', S, h)
  BY <1>4 DEF EInv, R, S, g, h
<1>6. current' # NoRoute => current' \in S
  BY <1>2 DEF EInv, S
<1>7. ASSUME NEW u \in Turn
      PROVE  turn'[u].difficulty = Difficulty \/ Deserved(turn'[u].difficulty, S, h)
  <2>1. turn'[u].difficulty \in {turn[u].difficulty, floor}
    BY <1>1
  <2>2. turn'[u].difficulty = Difficulty \/ Deserved(turn'[u].difficulty, R, g)
    BY <2>1 DEF EInv, Hard, R, g
  <2> QED
    BY <1>4, <2>2
<1>8. ASSUME NEW u \in Turn, turn'[u].pc \in {"bumped", "raising"}
      PROVE  Deserved(turn'[u].raised, S, h)
  BY <1>1, <1>4, <1>8 DEF EInv, R, S, g, h
<1> QED
  BY <1>5, <1>6, <1>7, <1>8 DEF EInv, Hard, S, h

\* The call a step has observed is one that was tried.
LEMMA ObservedIsTried ==
  ASSUME IInv, AInv, IInv', NEW t \in Turn, turn[t].pc = "calling",
         NEW status \in {"ok", "truncated", "error"}, NEW q,
         turn' = [turn EXCEPT ![t] = q], q.trail = Observe(turn[t], status).trail
  PROVE  turn[t].trail[Len(turn[t].trail)].route \in RoutesTried'
<1> DEFINE s == turn[t]
           n == Len(s.trail)
<1>1. /\ s \in TurnState /\ s.trail # <<>> /\ Replaced(s.trail)
      /\ s.trail[n].observed = "pending" /\ n \in 1..n
  BY Running DEF Placed
<1>2. OneMore(s.trail, q.trail, status)
  BY <1>1, ObserveAnswers
<1>3. turn'[t] = q
  BY DEF IInv
<1>4. n \in 1..Len(turn'[t].trail) /\ turn'[t].trail[n].observed = status
      /\ turn'[t].trail[n].route = s.trail[n].route
  BY <1>1, <1>2, <1>3 DEF OneMore
<1>5. /\ n \in Observed(turn'[t].trail) /\ turn' \in [Turn -> TurnState]
      /\ RoutesTried' = TriedBy(turn')
  BY <1>4 DEF Observed, IInv, RoutesTried, Returned, Seen, Indexes, Last, TriedBy
<1> QED
  BY <1>4, <1>5, TriedByTrail

\* A step up or a retry goes on with a longer trail.
LEMMA EscalatedGoesOn ==
  ASSUME NEW s \in TurnState, s.trail # <<>>, NEW r
  PROVE  /\ Escalated(s, r).pc \in {"calling", "done"}
         /\ Escalated(s, r).difficulty = s.difficulty
         /\ Len(Escalated(s, r).trail) > Len(s.trail)
         /\ Adopt(s, r, NoVerdict).pc \in {"calling", "done"}
         /\ Adopt(s, r, NoVerdict).difficulty = s.difficulty
         /\ Len(Adopt(s, r, NoVerdict).trail) > Len(s.trail)
BY DEF Escalated, Adopt, AfterLoop, TurnState

LEMMA EarnedByStep ==
  ASSUME IInv, IInv', AInv, AInv', EInv, NEW t \in Turn, Request(t) \/ Serve(t)
  PROVE  EInv'
<1> DEFINE s == turn[t]
           R == RoutesTried'
           g == AnySpurned
<1>1. /\ s \in TurnState /\ StepOf(t) /\ floor \in Nat
      /\ s.pc \notin {"new", "done"} => s.trail # <<>>
  BY TurnSteps DEF IInv, TurnInv, Placed
<1>2. RoutesTried \subseteq R /\ g \in BOOLEAN
  BY <1>1, TriedGrows DEF AnySpurned
<1>3. /\ Deserved(floor, R, g)
      /\ s.difficulty = Difficulty \/ Deserved(s.difficulty, R, g)
      /\ s.pc \in {"bumped", "raising"} => Deserved(s.raised, R, g)
  BY <1>2, DeservedGrows DEF EInv, Hard
<1>4. \A q : turn' = [turn EXCEPT ![t] = q] => turn'[t] = q
  BY DEF IInv
<1>5. ASSUME NEW q, turn' = [turn EXCEPT ![t] = q], q.pc = "raising", q.why # "stuck"
      PROVE  q.trail[Len(q.trail)].route \in R
  <2>1. turn'[t].pc = "raising" /\ turn'[t].why # "stuck" /\ turn'[t] = q
    BY <1>4, <1>5
  <2>2. TurnInv(q) /\ Answers(q) /\ turn' \in [Turn -> TurnState]
    BY <2>1 DEF IInv, AInv
  <2>3. q.trail # <<>> /\ q.trail \in Seq(Decision) /\ Standing(q)
    BY <1>5, <2>2 DEF TurnInv, Core, Placed, Answers, TurnState
  <2>4. Len(q.trail) \in 1..Len(q.trail)
    BY <2>3
  <2>5. q.trail[Len(q.trail)].observed \in {"ok", "truncated", "error"}
    BY <1>5, <2>3 DEF Standing, Escalating
  <2> QED
    BY <2>1, <2>4, <2>5 DEF RoutesTried, Returned, Seen, Indexes, Last
<1>6. ASSUME NEW q, turn' = [turn EXCEPT ![t] = q], Onward(s, q), floor' = floor,
             current' = current \/ current' \in R, q.difficulty \in {s.difficulty, floor},
             q.pc \in {"bumped", "raising"} => Deserved(q.raised, R, g)
      PROVE  EInv'
  BY <1>1, <1>6, KeepsEarned
<1>7. ASSUME s.pc = "raising", StoreFloor(t), current' = current,
             NEW q, turn' = [turn EXCEPT ![t] = q], Onward(s, q),
             q.difficulty = s.difficulty, q.pc \notin {"bumped", "raising"}
      PROVE  EInv'
  <2>1. floor' = floor \/ Deserved(floor', R, g)
    BY <1>3, <1>7 DEF StoreFloor
  <2> QED
    BY <1>1, <1>7, <2>1, KeepsEarned
<1>8. CASE RouteTurn(t)
  <2>1. PICK gradable, r :
          turn' = [turn EXCEPT ![t].pc = "calling", ![t].attempt = 1,
                               ![t].gradable = gradable,
                               ![t].trail = <<NewDecision(r, NoVerdict)>>]
    BY <1>8 DEF RouteTurn
  <2> DEFINE q == [turn[t] EXCEPT !.pc = "calling", !.attempt = 1, !.gradable = gradable,
                                  !.trail = <<NewDecision(r, NoVerdict)>>]
  <2>2. turn' = [turn EXCEPT ![t] = q]
    BY <2>1
  <2>3. q.pc = "calling" /\ q.difficulty = s.difficulty
    BY <1>1 DEF TurnState
  <2>4. s.pc = "new" /\ floor' = floor /\ current' = current
    BY <1>8 DEF RouteTurn
  <2> HIDE DEF q, s
  <2> QED
    BY <1>6, <2>2, <2>3, <2>4 DEF Onward
<1>9. CASE NoRouteAvailable(t)
  <2> DEFINE q == [turn[t] EXCEPT !.pc = "done", !.reply.kind = "unroutable"]
  <2>1. /\ turn' = [turn EXCEPT ![t] = q] /\ q.pc = "done" /\ q.difficulty = s.difficulty
        /\ s.pc = "new" /\ floor' = floor /\ current' = current
    BY <1>1, <1>9 DEF NoRouteAvailable, TurnState
  <2> HIDE DEF q, s
  <2> QED
    BY <1>6, <2>1 DEF Onward
<1>10. CASE ContinueToolLoop(t)
  <2>1. PICK gradable \in BOOLEAN :
          turn' = [turn EXCEPT ![t].pc = "calling", ![t].attempt = 1,
                               ![t].gradable = gradable, ![t].difficulty = floor,
                               ![t].trail = <<NewDecision(current, NoVerdict)>>]
    BY <1>10 DEF ContinueToolLoop
  <2> DEFINE q == [turn[t] EXCEPT !.pc = "calling", !.attempt = 1, !.gradable = gradable,
                     !.difficulty = floor, !.trail = <<NewDecision(current, NoVerdict)>>]
  <2>2. turn' = [turn EXCEPT ![t] = q]
    BY <2>1
  <2>3. q.pc = "calling" /\ q.difficulty = floor
    BY <1>1 DEF TurnState
  <2>4. s.pc = "new" /\ floor' = floor /\ current' = current
    BY <1>10 DEF ContinueToolLoop
  <2> HIDE DEF q, s
  <2> QED
    BY <1>6, <2>2, <2>3, <2>4 DEF Onward
<1>11. CASE EscalateToolLoop(t)
  <2>1. PICK gradable \in BOOLEAN :
          turn' = [turn EXCEPT ![t].pc = "raising", ![t].why = "stuck",
                               ![t].gradable = gradable, ![t].difficulty = floor,
                               ![t].trail = <<NewDecision(current, NoVerdict)>>,
                               ![t].raised = FloorAfter(current, floor)]
    BY <1>11 DEF EscalateToolLoop
  <2> DEFINE q == [turn[t] EXCEPT !.pc = "raising", !.why = "stuck", !.gradable = gradable,
                     !.difficulty = floor, !.trail = <<NewDecision(current, NoVerdict)>>,
                     !.raised = FloorAfter(current, floor)]
  <2>2. turn' = [turn EXCEPT ![t] = q]
    BY <2>1
  <2>3. q.raised = FloorAfter(current, floor) /\ q.difficulty = floor
    BY <1>1 DEF TurnState
  <2>4. s.pc = "new" /\ floor' = floor /\ current' = current /\ current # NoRoute
    BY <1>11 DEF EscalateToolLoop
  <2>5. current \in R
    BY <1>2, <2>4 DEF EInv
  <2> HIDE DEF q, s, R, g
  <2>6. Deserved(q.raised, R, g)
    BY <1>3, <2>3, <2>5, FailureDeserves
  <2> QED
    BY <1>6, <2>2, <2>3, <2>4, <2>6 DEF Onward

<1>12. CASE AnswerComplete(t)
  <2> DEFINE o == Observe(s, "ok")
             q == [o EXCEPT !.pc = "judging"]
  <2>1. /\ turn' = [turn EXCEPT ![t] = q] /\ s.pc = "calling" /\ floor' = floor
        /\ current' = s.trail[Len(s.trail)].route
    BY <1>12 DEF AnswerComplete, Result, Last
  <2>2. q.pc = "judging" /\ q.difficulty = s.difficulty /\ Len(q.trail) = Len(s.trail)
    BY <1>1 DEF Observe, TurnState
  <2>3. q.trail = Observe(turn[t], "ok").trail
    BY <1>1 DEF Observe, TurnState
  <2>4. current' \in R
    BY <2>1, <2>3, ObservedIsTried
  <2> HIDE DEF q, s, R, g
  <2> QED
    BY <1>6, <2>1, <2>2, <2>4 DEF Onward
<1>13. CASE AnswerCut(t)
  <2> DEFINE o == Observe(s, "truncated")
             kept == [o EXCEPT !.unfinished = IF @ = 0 THEN Len(s.trail) ELSE @]
             spent == [kept EXCEPT !.truncations = @ - 1]
             q == IF kept.truncations = 0 THEN AfterLoop(kept) ELSE Fail(spent, "cut")
  <2>1. /\ turn' = [turn EXCEPT ![t] = q] /\ floor' = floor /\ s.pc = "calling"
        /\ current' = s.trail[Len(s.trail)].route
    BY <1>13 DEF AnswerCut, Result, Last
  <2>2. Core(s) /\ s.trail # <<>> /\ s.trail[Len(s.trail)].observed = "pending"
    BY <1>1, <2>1, Underway DEF Placed
  <2>3. Core(kept) /\ kept.trail # <<>>
    BY <2>2, ObserveCutInv
  <2>4. kept \in TurnState
    BY <2>3 DEF Core
  <2>5. /\ kept.difficulty = s.difficulty /\ Len(kept.trail) = Len(s.trail)
        /\ kept.trail = Observe(turn[t], "truncated").trail
    BY <1>1 DEF Observe, TurnState
  <2> HIDE DEF kept
  <2>6. /\ q.difficulty = s.difficulty /\ Len(q.trail) = Len(s.trail)
        /\ q.pc # "judging" /\ q.trail = kept.trail
    BY <2>4, <2>5 DEF AfterLoop, Fail, TurnState
  <2>7. current' \in R
    <3> HIDE DEF q
    <3> QED
      BY <2>1, <2>5, <2>6, ObservedIsTried
  <2>8. CASE kept.truncations = 0
    <3> DEFINE p == AfterLoop(kept)
    <3>1. p.pc = "done" /\ turn' = [turn EXCEPT ![t] = p] /\ q = p
      BY <2>1, <2>4, <2>8 DEF AfterLoop, TurnState
    <3> HIDE DEF p, q, s, R, g
    <3> QED
      BY <1>6, <2>1, <2>6, <2>7, <3>1 DEF Onward
  <2>9. CASE kept.truncations # 0
    <3>1. kept.truncations - 1 \in 0..TruncationRetries
      BY <2>4, <2>9, NumbersAssumption DEF TurnState
    <3>2. spent \in TurnState /\ spent.trail = kept.trail /\ spent.difficulty = kept.difficulty
      BY <2>4, <3>1 DEF TurnState
    <3> HIDE DEF spent
    <3> DEFINE p == Fail(spent, "cut")
    <3>3. turn' = [turn EXCEPT ![t] = p] /\ q = p
      BY <2>1, <2>9
    <3>4. p.pc = "raising" /\ p.why = "cut"
      BY <3>2 DEF Fail, TurnState
    <3>5. p.trail[Len(p.trail)].route \in R
      BY <1>5, <3>3, <3>4
    <3>6. Deserved(p.raised, R, g)
      BY <1>3, <2>3, <2>5, <3>2, <3>5, FailDeserves
    <3> HIDE DEF p, q, s, R, g
    <3> QED
      BY <1>6, <2>1, <2>6, <2>7, <3>3, <3>6 DEF Onward
  <2> QED
    BY <2>8, <2>9
<1>14. CASE CallFails(t)
  <2> DEFINE o == Observe(s, "error")
             q == [o EXCEPT !.lastError = Len(s.trail)]
  <2>1. PICK why \in {"outage", "refused"} : turn' = [turn EXCEPT ![t] = Fail(q, why)]
    BY <1>14 DEF CallFails, Last
  <2>2. s.pc = "calling" /\ floor' = floor /\ current' = current
    BY <1>14 DEF CallFails
  <2>3. /\ Core(s) /\ s.trail # <<>> /\ s.trail[Len(s.trail)].observed = "pending"
        /\ Len(s.trail) \in Nat
    BY <1>1, <2>2, Underway DEF Placed, Last
  <2>4. Core(o) /\ o.trail # <<>>
    BY <2>3, ObserveInv
  <2>5. o \in TurnState
    BY <2>4 DEF Core
  <2>10. o.difficulty = s.difficulty /\ Len(o.trail) = Len(s.trail)
    BY <1>1 DEF Observe, TurnState
  <2> HIDE DEF o
  <2>6. q \in TurnState /\ q.trail = o.trail /\ q.difficulty = o.difficulty
    BY <2>3, <2>5 DEF TurnState
  <2> HIDE DEF q
  <2> DEFINE p == Fail(q, why)
  <2>7. /\ turn' = [turn EXCEPT ![t] = p] /\ p.pc = "raising" /\ p.why = why
        /\ p.trail = q.trail /\ p.difficulty = q.difficulty
    BY <2>1, <2>6 DEF Fail, TurnState
  <2>8. p.trail[Len(p.trail)].route \in R
    BY <1>5, <2>7
  <2>9. Deserved(p.raised, R, g)
    BY <1>3, <2>4, <2>6, <2>8, <2>10, FailDeserves
  <2> HIDE DEF p, s, R, g
  <2> QED
    BY <1>6, <2>2, <2>6, <2>7, <2>9, <2>10 DEF Onward
<1>15. CASE Judge(t)
  <2>1. PICK v \in CheckVerdicts(t) :
          LET b     == [turn[t] EXCEPT !.trail[Last(t)].verdict = v]
              shown == IF b.checked # NoVerdict /\ v.status = "unchecked"
                       THEN b.checked ELSE v
          IN  turn' = [turn EXCEPT ![t] =
                IF Escalates(shown) /\ b.escalations > 0
                THEN [b EXCEPT !.pc = "bumping", !.escalations = @ - 1]
                ELSE [b EXCEPT !.pc = "done", !.reply = AnswerReply(t, shown)]]
    BY <1>15 DEF Judge
  <2> DEFINE b == [turn[t] EXCEPT !.trail[Last(t)].verdict = v]
             shown == IF b.checked # NoVerdict /\ v.status = "unchecked" THEN b.checked ELSE v
             q == IF Escalates(shown) /\ b.escalations > 0
                  THEN [b EXCEPT !.pc = "bumping", !.escalations = @ - 1]
                  ELSE [b EXCEPT !.pc = "done", !.reply = AnswerReply(t, shown)]
  <2>2. turn' = [turn EXCEPT ![t] = q] /\ floor' = floor /\ current' = current
        /\ s.pc = "judging"
    BY <1>15, <2>1 DEF Judge
  <2>3. /\ q.pc \in {"bumping", "done"} /\ q.difficulty = s.difficulty
        /\ Len(q.trail) = Len(s.trail)
    BY <1>1 DEF TurnState
  <2> HIDE DEF q, s
  <2> QED
    BY <1>6, <2>2, <2>3 DEF Onward
<1>16. CASE BumpFloorRead(t)
  <2> DEFINE q == [turn[t] EXCEPT !.pc = "bumped", !.raised = Larger(floor, DifficultyFloor)]
  <2>1. /\ turn' = [turn EXCEPT ![t] = q] /\ floor' = floor /\ current' = current
        /\ q.raised = Larger(floor, DifficultyFloor) /\ q.pc = "bumped"
        /\ q.difficulty = s.difficulty /\ q.trail = s.trail /\ Escalating(s)
    BY <1>1, <1>16 DEF BumpFloorRead, TurnState, Escalating
  <2>2. R # {} /\ g
    BY <1>2, <2>1, LastTried, EscalatingIsSpurned DEF AnySpurned
  <2> HIDE DEF q, s, R, g
  <2>3. Deserved(DifficultyFloor, R, g)
    BY <2>2 DEF Deserved
  <2>4. Deserved(q.raised, R, g)
    BY <1>3, <2>1, <2>3, DeservedLarger
  <2> QED
    BY <1>6, <2>1, <2>4 DEF Onward
<1>17. CASE BumpFloorWrite(t)
  <2> DEFINE q == [turn[t] EXCEPT !.pc = "steppingUp"]
  <2>1. /\ turn' = [turn EXCEPT ![t] = q] /\ floor' = s.raised /\ q.pc = "steppingUp"
        /\ q.difficulty = s.difficulty /\ q.trail = s.trail /\ current' = current
        /\ s.pc = "bumped"
    BY <1>1, <1>17 DEF BumpFloorWrite, TurnState
  <2> HIDE DEF q, s, R, g
  <2>2. Deserved(floor', R, g)
    BY <1>3, <2>1
  <2> QED
    BY <1>1, <2>1, <2>2, KeepsEarned DEF Onward, s, R, g
<1>18. CASE StepUp(t)
  <2> DEFINE targets == VerifiedStepUp(Result(t).route, s.tried \cup {Result(t).route})
  <2>1. \/ \E r \in targets : turn' = [turn EXCEPT ![t] = Escalated(s, r)]
        \/ turn' = [turn EXCEPT ![t] = Fail(s, "verdict")]
    BY <1>18 DEF StepUp
  <2>2. s.trail # <<>> /\ floor' = floor /\ current' = current /\ s.pc = "steppingUp"
    BY <1>1, <1>18 DEF StepUp
  <2> HIDE DEF targets
  <2>3. ASSUME NEW r \in targets, turn' = [turn EXCEPT ![t] = Escalated(s, r)]
        PROVE  EInv'
    <3> DEFINE p == Escalated(s, r)
    <3>1. p.pc \in {"calling", "done"} /\ p.difficulty = s.difficulty
          /\ Len(p.trail) > Len(s.trail)
      BY <1>1, <2>2, EscalatedGoesOn
    <3> HIDE DEF p, s
    <3> QED
      BY <1>6, <2>2, <2>3, <3>1 DEF Onward, p
  <2>4. ASSUME turn' = [turn EXCEPT ![t] = Fail(s, "verdict")]
        PROVE  EInv'
    <3> DEFINE p == Fail(s, "verdict")
    <3>1. p.pc = "raising" /\ p.why = "verdict" /\ p.trail = s.trail
          /\ p.difficulty = s.difficulty
      BY <1>1 DEF Fail, TurnState
    <3>2. p.trail[Len(p.trail)].route \in R
      BY <1>5, <2>4, <3>1
    <3>3. Deserved(p.raised, R, g)
      BY <1>1, <1>3, <2>2, <3>2, FailDeserves
    <3> HIDE DEF p, s, R, g
    <3> QED
      BY <1>6, <2>2, <2>4, <3>1, <3>3 DEF Onward, p
  <2> QED
    BY <2>1, <2>3, <2>4
<1>19. CASE RejectedPlanRaises(t)
  <2> DEFINE q == [turn[t] EXCEPT !.pc = "done", !.reply.kind = "raised"]
  <2>1. /\ turn' = [turn EXCEPT ![t] = q] /\ q.pc = "done" /\ q.difficulty = s.difficulty
        /\ q.trail = s.trail /\ floor' = floor /\ current' = current
    BY <1>1, <1>19 DEF RejectedPlanRaises, TurnState
  <2> HIDE DEF q, s
  <2> QED
    BY <1>6, <2>1 DEF Onward
<1>20. CASE StartAfterToolErrors(t)
  <2>1. PICK r \in IF Targets(t) # {} THEN Targets(t) ELSE {current} :
          turn' = [turn EXCEPT ![t].pc = "calling", ![t].why = "none", ![t].attempt = 1,
                               ![t].trail = <<NewDecision(r, NoVerdict)>>]
    BY <1>20 DEF StartAfterToolErrors
  <2> DEFINE q == [turn[t] EXCEPT !.pc = "calling", !.why = "none", !.attempt = 1,
                                  !.trail = <<NewDecision(r, NoVerdict)>>]
  <2>2. turn' = [turn EXCEPT ![t] = q]
    BY <2>1
  <2>3. q.pc = "calling" /\ q.difficulty = s.difficulty
    BY <1>1 DEF TurnState
  <2>4. s.pc = "raising" /\ s.why = "stuck" /\ StoreFloor(t) /\ current' = current
    BY <1>20 DEF StartAfterToolErrors
  <2> HIDE DEF q, s
  <2> QED
    BY <1>7, <2>2, <2>3, <2>4 DEF Onward
<1>21. CASE Retry(t)
  <2>1. PICK r \in Targets(t) :
          turn' = [turn EXCEPT ![t] = IF s.why = "verdict" THEN Escalated(s, r)
                                      ELSE Adopt(s, r, NoVerdict)]
    BY <1>21 DEF Retry
  <2> DEFINE q == IF s.why = "verdict" THEN Escalated(s, r) ELSE Adopt(s, r, NoVerdict)
  <2>2. s.pc = "raising" /\ StoreFloor(t) /\ current' = current
    BY <1>21 DEF Retry
  <2>3. q.pc \in {"calling", "done"} /\ q.difficulty = s.difficulty
        /\ Len(q.trail) > Len(s.trail)
    BY <1>1, <2>2, EscalatedGoesOn
  <2>4. turn' = [turn EXCEPT ![t] = q]
    BY <2>1
  <2> HIDE DEF q, s
  <2> QED
    BY <1>7, <2>2, <2>3, <2>4 DEF Onward
<1>22. CASE GiveUp(t)
  <2> DEFINE q == IF s.why = "verdict"
                  THEN [s EXCEPT !.pc = "done", !.why = "none",
                                 !.reply = AnswerReply(t, Result(t).verdict)]
                  ELSE AfterLoop([s EXCEPT !.why = "none"])
  <2>1. turn' = [turn EXCEPT ![t] = q]
    BY <1>22 DEF GiveUp
  <2>2. q.pc = "done" /\ q.difficulty = s.difficulty /\ q.trail = s.trail
    BY <1>1 DEF AfterLoop, TurnState
  <2>3. s.pc = "raising" /\ StoreFloor(t) /\ current' = current
    BY <1>22 DEF GiveUp
  <2> HIDE DEF q, s
  <2> QED
    BY <1>7, <2>1, <2>2, <2>3 DEF Onward
<1> QED
  BY <1>8, <1>9, <1>10, <1>11, <1>12, <1>13, <1>14, <1>15, <1>16, <1>17, <1>18, <1>19,
     <1>20, <1>21, <1>22 DEF Request, Serve

\* Whatever turns of a conversation raise its floor at once, and whichever of
\* their writes is the last, the floor is a difficulty one of its calls showed.
THEOREM FloorEarnedTheorem == Spec => []FloorIsEarned
<1>1. Init => EInv
  BY DEF Init, EInv, Deserved, Hard, NewTurn
<1>2. ASSUME IInv, IInv', AInv, AInv', EInv, [Next]_vars
      PROVE  EInv'
  <2>1. CASE \E t \in Turn : Request(t) \/ Serve(t)
    BY <1>2, <2>1, EarnedByStep
  <2>2. CASE UNCHANGED <<turn, floor, current>>
    <3>1. RoutesTried' = RoutesTried /\ AnySpurned' = AnySpurned
      BY <2>2 DEF RoutesTried, Returned, Seen, Indexes, Last, AnySpurned
    <3> QED
      BY <1>2, <2>2, <3>1 DEF EInv, Hard
  <2> QED
    BY <1>2, <2>1, <2>2 DEF Next, QuotaTurns, OutcomeExpires, vars
<1>3. ASSUME IInv, AInv, EInv
      PROVE  FloorIsEarned
  <2>1. ASSUME NEW t \in Turn, Spurned(turn[t])
        PROVE  AnswerRejected
    <3>1. PICK i \in 1..Len(turn[t].trail) :
            /\ turn[t].trail[i].observed = "ok"
            /\ i < Len(turn[t].trail) \/ turn[t].trail[i].verdict.status = "rejected"
      BY <2>1 DEF Spurned
    <3>2. turn[t].trail[i].verdict.status = "rejected"
      BY <1>3, <3>1 DEF AInv, Answers, Replaced, Replacement
    <3> QED
      BY <3>1, <3>2 DEF AnswerRejected, Seen, Indexes, Last
  <2>2. AnySpurned => AnswerRejected
    BY <2>1 DEF AnySpurned
  <2> QED
    BY <1>3, <2>2 DEF EInv, Deserved, FloorIsEarned, ShownHard
<1> QED
  BY <1>1, <1>2, <1>3, AInvHolds, PTL DEF Spec
============================================================================
