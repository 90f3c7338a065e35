------------------------------ MODULE Classify ------------------------------
(* Who judges a request before it is routed and an answer after it (jev.py,  *)
(* s1_router.py, route_head.py), and the ranking endpoint that asks under a  *)
(* budget (irp.py). One action is one step of one call, so that several      *)
(* calls load a local model, retry, give up and finish in any order.         *)
(*                                                                           *)
(* An answer is what its reader tells apart: the category or None, a score,  *)
(* a noul in tenths or None, and whether every part of it is an object. The  *)
(* texts sent, what is scrubbed from them and the waits between retries are  *)
(* left out. The softmax over letters is a constant with its monotony.       *)
EXTENDS Routing, Ranking, Sequences

CONSTANTS
  Caller,           \* calls there may be at once
  ClassifierSetups, \* [policy: the classifier and judge of a configuration and
                    \*  the keys there are, asks: the kinds of call there are]
  Replies,          \* what a service that evaluates questions may answer
  Letters,          \* what a letter model may answer: log-probabilities, text
  Softmax,          \* log-probabilities of the options -> their probabilities
  Bodies,           \* bodies of ranking requests
  Concurrency,      \* of BudgetedClassifier
  MaxAttempts,      \* AUTO_ROUTER_JEV_ATTEMPTS
  MaxAsked          \* calls in a behaviour

VARIABLE k

LocalModels == {"laya", "local-s1", "route-head"}   \* loaded on the first request
Hosted == {"hosted", "decisionmodels", "local-jev"} \* asked over HTTP

ASSUME ClassifyNumbers ==
  /\ IsFiniteSet(Caller) /\ Concurrency \in Nat
  /\ None \notin Caller \cup LocalModels \cup Hosted \cup {"rank", "busy"}

\* An answer whose score is no number has a choice of None here, which is read
\* the same way. A letter's log-probabilities are those of two options.
ASSUME AnswersTyped ==
  /\ \A answer \in Replies : answer.score \in Int \cup {None}
  /\ \A reply \in Letters :
       reply.top # None => Softmax[reply.top][1] \in Int /\ Softmax[reply.top][2] \in Int

\* Prices are whole numbers of a small unit; `validate` refuses what is none.
IsCandidate(x) == {x.input, x.read, x.output, x.cached} \subseteq Int

IsBody(body) ==
  /\ body.candidates \in Seq({body.candidates[i] : i \in DOMAIN body.candidates})
  /\ \A i \in DOMAIN body.candidates : IsCandidate(body.candidates[i])
  /\ body.prompt \in Nat \ {0} /\ body.stated \in Nat \cup {None} /\ body.n \in Nat
  /\ body.tools \in BOOLEAN

ASSUME BodiesTyped == \A body \in Bodies : IsBody(body)
----------------------------------------------------------------------------
(* Configuration *)

Aliases == [local |-> "laya", jev |-> "hosted", none |-> "heuristic", disabled |-> "heuristic"]
Named(name) == IF name \in DOMAIN Aliases THEN Aliases[name] ELSE name

\* Without a word on it the hosted one is used where there is a key.
ByDefault(policy) == IF "TYPESAFE" \in policy.keys THEN "hosted" ELSE "heuristic"

ClassifierFromConfig(policy) ==
  IF policy.classifier = None THEN ByDefault(policy) ELSE Named(policy.classifier)

\* A judge that cannot be had is none, and then nothing is ever checked; a
\* backend that judges nothing is refused, also as the classifier's own.
JudgeFromConfig(policy) ==
  LET backend == IF policy.judge = "same-as-classifier" THEN policy.classifier ELSE policy.judge
  IN CASE backend \in {None, "hosted", "jev"} -> ByDefault(policy)
       [] backend \in {"none", "disabled", "heuristic", "local"} -> "heuristic"
       [] backend = "local-jev" -> backend
       [] OTHER -> None

Starts(policy) ==
  /\ ClassifierFromConfig(policy) \in LocalModels \cup Hosted \cup {"heuristic"}
  /\ JudgeFromConfig(policy) # None
----------------------------------------------------------------------------
(* One answer *)

Classified(category, difficulty, flag, source) ==
  [category |-> category, difficulty |-> difficulty, flag |-> flag, source |-> source]

FALLBACK == Classified("general", 5, 5, "fallback")
RAISED == Classified("none", 0, 0, "raised")   \* the exception reaches the caller

Score01(score) == IF score = None THEN 5 ELSE Within(0, (10 * score) \div 4, 10)

\* What a caught KeyError, TypeError or ValueError makes the fallback; an
\* AttributeError is caught by every backend but the hosted one.
Sufficient(answer) == answer.objects /\ answer.choice # None /\ answer.noul # None

ClassificationFromAnswers(answer, backend) ==
  CASE Sufficient(answer) -> Classified(answer.choice, Score01(answer.score), answer.noul, backend)
    [] ~answer.objects /\ backend = "hosted" -> RAISED
    [] OTHER -> FALLBACK

\* LocalJevClass.ask: one letter for one question. Without log-probabilities
\* the letter itself is certain; a text that starts with none is an error.
AskLetter(options, reply) ==
  CASE reply.top # None -> Softmax[reply.top]
    [] reply.top = None /\ reply.text \in 1..options ->
         [i \in 1..options |-> IF i = reply.text THEN 10 ELSE 0]
    [] OTHER -> None

\* The reply stands for those to all questions, here of two options each: the
\* first one's probability is the noul, the second's the score.
EvaluateLetters(reply) ==
  LET probs == AskLetter(2, reply)
  IN IF probs = None THEN [objects |-> TRUE, choice |-> None, score |-> None, noul |-> None]
     ELSE [objects |-> TRUE, choice |-> IF probs[1] >= probs[2] THEN "coding" ELSE "general",
           score |-> (4 * probs[2]) \div 10, noul |-> probs[1]]

\* judge: 0.5 and `failed` when there is no usable answer.
Judgement(answer, backend) ==
  CASE answer.objects /\ answer.noul # None -> Classified("judged", 0, answer.noul, backend)
    [] ~answer.objects /\ backend = "hosted" -> RAISED
    [] OTHER -> FALLBACK

Understood(c, answer) ==
  IF k.calls[c].via = "judge" THEN Judgement(answer, k.calls[c].backend)
  ELSE ClassificationFromAnswers(answer, k.calls[c].backend)
----------------------------------------------------------------------------
(* Calls *)

NoCall == [pc |-> "idle", via |-> None, backend |-> None, attempt |-> 0, body |-> None,
           busy |-> 0, said |-> None, told |-> None, entries |-> {}]

ClassifyStart(setup) ==
  [setup |-> setup, asked |-> 0, session |-> FALSE, tokenizer |-> FALSE, sessions |-> 0,
   lock |-> None, free |-> Concurrency, calls |-> [c \in Caller |-> NoCall]]

ClassifyInit == \E setup \in {x \in ClassifierSetups : Starts(x.policy)} : k = ClassifyStart(setup)

\* Where a call begins: a hosted backend without its key is a RuntimeError.
FirstStep(backend, keys) ==
  CASE backend \in LocalModels -> "check"
    [] backend = "hosted" /\ "TYPESAFE" \notin keys -> "failed"
    [] backend = "decisionmodels" /\ "DECISIONMODELS" \notin keys -> "failed"
    [] backend = "heuristic" -> "none"
    [] OTHER -> "post"

Opens(c, via, backend, body) ==
  [NoCall EXCEPT !.via = via, !.backend = backend, !.body = body,
     !.pc = FirstStep(backend, k.setup.policy.keys),
     !.said = CASE FirstStep(backend, k.setup.policy.keys) = "failed" -> FALLBACK [] OTHER -> None]

Asks(c, via) == k.calls[c].pc = "idle" /\ k.asked < MaxAsked /\ via \in k.setup.asks

\* Router.route asks for a turn, LocalS1Classifier.warm before the first one.
AskTurn(c) ==
  /\ Asks(c, "turn")
  /\ k' = [k EXCEPT !.asked = @ + 1, !.calls[c] = Opens(c, "turn", ClassifierFromConfig(k.setup.policy), None)]

AskJudge(c) ==
  /\ Asks(c, "judge")
  /\ k' = [k EXCEPT !.asked = @ + 1, !.calls[c] = Opens(c, "judge", JudgeFromConfig(k.setup.policy), None)]

\* _load: the lock is taken only if there is no session yet, and the session
\* looked for again under it.
Check(c) ==
  /\ k.calls[c].pc = "check"
  /\ k' = [k EXCEPT !.calls[c].pc = IF k.session THEN "use" ELSE "lock"]

\* Mutant: looked for once, before the lock.
LockUnchecked(c) ==
  /\ k.calls[c].pc = "lock" /\ k.lock = None
  /\ k' = [k EXCEPT !.calls[c].pc = "load", !.lock = c]

Lock(c) ==
  /\ k.calls[c].pc = "lock" /\ k.lock = None
  /\ k' = IF k.session THEN [k EXCEPT !.calls[c].pc = "use"]
          ELSE [k EXCEPT !.calls[c].pc = "load", !.lock = c]

Failed(s, c) == [s EXCEPT !.calls[c].pc = "failed", !.calls[c].said = FALLBACK, !.lock = None]
WithSession(s, c) == [s EXCEPT !.session = TRUE, !.sessions = @ + 1]

\* The dependency, the download, the digests, the tokenizer's file. The Laya
\* model is one object. The route head shows its session before its tokenizer,
\* s1 after it; either one's session may fail to open.
Load(c, ok) ==
  /\ k.calls[c].pc = "load"
  /\ k' = CASE ~ok -> Failed(k, c)
            [] ok /\ k.calls[c].backend = "laya" ->
                 [WithSession(k, c) EXCEPT !.tokenizer = TRUE, !.lock = None, !.calls[c].pc = "use"]
            [] ok /\ k.calls[c].backend = "local-s1" -> [k EXCEPT !.tokenizer = TRUE, !.calls[c].pc = "open"]
            [] OTHER -> [WithSession(k, c) EXCEPT !.calls[c].pc = "open"]

OpenSession(c, ok) ==
  /\ k.calls[c].pc = "open" /\ (k.session => ok)
  /\ k' = CASE ~ok -> Failed(k, c)
            [] ok /\ k.calls[c].backend = "local-s1" ->
                 [WithSession(k, c) EXCEPT !.lock = None, !.calls[c].pc = "use"]
            [] OTHER -> [k EXCEPT !.tokenizer = TRUE, !.lock = None, !.calls[c].pc = "use"]

\* Inference on what _load returned: without a tokenizer it is an error like
\* any other, and a local model's numbers are as good as its file.
Infer(c, answer) ==
  /\ k.calls[c].pc = "use"
  /\ k' = [k EXCEPT !.calls[c].pc = "done",
             !.calls[c].said = IF k.tokenizer /\ Sufficient(answer)
                               THEN ClassificationFromAnswers(answer, k.calls[c].backend) ELSE FALLBACK]

\* _post: a 429 or a 5xx is tried again, nothing else; the local services are
\* asked once.
HttpAnswer(c, answer) ==
  /\ k.calls[c].pc = "post"
  /\ k' = [k EXCEPT !.calls[c].pc = "done", !.calls[c].said = Understood(c, answer)]

HttpError(c, again) ==
  LET more == again /\ k.calls[c].backend = "hosted" /\ k.calls[c].attempt < MaxAttempts - 1
  IN /\ k.calls[c].pc = "post"
     /\ k' = IF more THEN [k EXCEPT !.calls[c].attempt = @ + 1]
             ELSE [k EXCEPT !.calls[c].pc = "failed", !.calls[c].said = FALLBACK]

Told(c) == k.calls[c].via # "rank" /\ k.calls[c].pc \in {"done", "failed", "none"}

\* The caller has what it asked for. RAISED ends a turn in an error of the
\* server; a judge's is caught by Router.check.
Return(c) == Told(c) /\ k' = [k EXCEPT !.calls[c] = NoCall]
----------------------------------------------------------------------------
(* The ranking endpoint *)

\* Malformed bodies are refused before anything is asked.
Valid(body) ==
  /\ body.messages > 0 /\ body.tradeoff \in 0..10
  /\ Len(body.candidates) \in 1..512
  /\ \A i, j \in DOMAIN body.candidates : body.candidates[i].id = body.candidates[j].id => i = j
  /\ \A i \in DOMAIN body.candidates :
       body.candidates[i].input >= 0 /\ body.candidates[i].output >= 0 /\ body.candidates[i].cached >= 0

\* _cost and the usage it is taken of: what is known to be cached is a lower
\* bound of the prompt, the answer is held within the route's and the
\* caller's limits.
CallPrice(candidate, prompt, output) ==
  (Most(prompt, candidate.cached) - candidate.cached) * candidate.input
    + candidate.cached * candidate.read + output * candidate.output

OutputLimit(model, body) ==
  IF body.stated = None THEN model.maxOutput ELSE Least(model.maxOutput, body.stated)

ExpectedOutput(model, body, req) ==
  Least((req.output * model.appetite) \div 10, OutputLimit(model, body)) * body.n

Scorable(body) == {i \in DOMAIN body.candidates : body.candidates[i].model \in DOMAIN Model}

\* What is known of the turn: the classification, or the cautious prior.
RankRequest(body, cls) ==
  TurnRequest(IF cls = None THEN None
              ELSE [category |-> cls.category, difficulty |-> cls.difficulty, tools |-> cls.flag >= 5,
                    vision |-> FALSE, followUp |-> cls.flag, stakes |-> 2, confidence |-> 5],
              body.prompt, body.stated, 0, body.tools)

Entries(body, req) ==
  {[id |-> body.candidates[i].id,
    quality |-> P(SuccessV1(<<>>), Model[body.candidates[i].model], req.category, req.difficulty),
    cost |-> CallPrice(body.candidates[i], body.prompt, ExpectedOutput(Model[body.candidates[i].model], body, req))]
   : i \in Scorable(body)}

Scale(entries) == LET costs == {e.cost : e \in entries} IN CHOOSE x \in costs : \A y \in costs : x >= y

\* The bound checked before anything is asked, so that no price is refused
\* once the classifier has answered.
UpperCost(body, i) ==
  CallPrice(body.candidates[i], body.prompt, OutputLimit(Model[body.candidates[i].model], body) * body.n)

Ranks(c, basis) == [k EXCEPT !.calls[c].told = basis]

Acceptable == {body \in Bodies : Valid(body) /\ Scorable(body) # {}}

\* Refused before a slot is taken: by the host's guard (402, 503), or for a
\* body that is malformed (400) or of models unknown here (422).
RankRefused(c) == Asks(c, "rank") /\ k' = [k EXCEPT !.asked = @ + 1]

\* classify: a call with no slot left is answered by the prior at once. `busy`
\* is the calls it found under way.
UnderWay == {c \in Caller : k.calls[c].via = "rank" /\ k.calls[c].pc \notin {"idle", "released", "busy"}}

AskRank(c, body) ==
  /\ Asks(c, "rank") /\ body \in Acceptable
  /\ k' = IF k.free = 0
          THEN [k EXCEPT !.asked = @ + 1, !.calls[c] = [NoCall EXCEPT
                  !.pc = "busy", !.via = "rank", !.body = body, !.busy = Cardinality(UnderWay), !.told = "busy"]]
          ELSE [k EXCEPT !.asked = @ + 1, !.free = @ - 1,
                  !.calls[c] = Opens(c, "rank", ClassifierFromConfig(k.setup.policy), body)]

\* The budget runs out while the call is made; the call goes on.
TimesOut(c) ==
  /\ k.calls[c].via = "rank" /\ k.calls[c].told = None /\ k.calls[c].pc \notin {"done", "failed", "released"}
  /\ k' = Ranks(c, "timeout")

\* The future's callback, after its result can be seen.
GiveSlotBack(c) ==
  /\ k.calls[c].via = "rank" /\ k.calls[c].pc \in {"done", "failed"}
  /\ k' = [k EXCEPT !.calls[c].pc = "released", !.free = @ + 1]

\* An answer is believed if every part of it is a probability.
TakeResult(c) ==
  LET said == k.calls[c].said
  IN /\ k.calls[c].via = "rank" /\ k.calls[c].told = None /\ k.calls[c].pc \in {"done", "failed", "released"}
     /\ k' = Ranks(c, CASE said.source \in {"fallback", "raised"} -> "error"
                        [] said.source \notin {"fallback", "raised"} /\ said.flag \notin 0..10 -> "malformed"
                        [] OTHER -> said.source)

\* rank: the entries are scored by what the classifier said, or by the prior,
\* and sent, whether or not the call has ended.
ScoreEntries(c) ==
  LET call == k.calls[c]
      cls == IF call.told \in LocalModels \cup Hosted THEN call.said ELSE None
  IN /\ call.via = "rank" /\ call.told # None /\ call.entries = {}
     /\ k' = [k EXCEPT !.calls[c].entries = Entries(call.body, RankRequest(call.body, cls))]

\* The ranking is out and its call is over.
SendRanking(c) ==
  /\ k.calls[c].entries # {} /\ k.calls[c].pc \in {"released", "busy"}
  /\ k' = [k EXCEPT !.calls[c] = NoCall]
----------------------------------------------------------------------------
Loads(c) == Check(c) \/ Lock(c) \/ \E ok \in BOOLEAN : Load(c, ok) \/ OpenSession(c, ok)

Speaks(c) ==
  LET backend == k.calls[c].backend
      answers == IF backend = "local-jev" THEN {EvaluateLetters(reply) : reply \in Letters} ELSE Replies
  IN \/ \E answer \in answers : Infer(c, answer) \/ HttpAnswer(c, answer)
     \/ \E again \in BOOLEAN : HttpError(c, again)

RankCall(c) ==
  \/ \E body \in Bodies : AskRank(c, body)
  \/ RankRefused(c) \/ TimesOut(c) \/ GiveSlotBack(c) \/ TakeResult(c) \/ ScoreEntries(c) \/ SendRanking(c)

ClassifyNext == \E c \in Caller : AskTurn(c) \/ AskJudge(c) \/ Loads(c) \/ Speaks(c) \/ Return(c) \/ RankCall(c)

ClassifySpec == ClassifyInit /\ [][ClassifyNext]_k
----------------------------------------------------------------------------
(* Properties *)

\* The slots not free are those of calls under way, whatever timed out,
\* failed or finished after its caller had left: a slow model cannot pile up
\* work, and a broken one never uses the slots up.
SlotsAreCalls == k.free + Cardinality(UnderWay) = Concurrency

\* A ranking says of its basis what happened: "busy" only if every slot was
\* taken by a call, a model's name only if that model answered it, in time.
BasisHonest ==
  \A c \in Caller :
    LET call == k.calls[c]
    IN /\ call.told = "busy" => call.busy = Concurrency
       /\ call.told \in LocalModels \cup Hosted =>
            call.said.source = call.told /\ call.pc \in {"done", "released"} /\ call.said.flag \in 0..10

\* However many calls arrive before the model is there, one session is opened;
\* and whoever finds it finds its tokenizer, but for the route head, which
\* shows the one before the other.
OneSession ==
  /\ k.sessions <= 1
  /\ \A c \in Caller : (k.calls[c].pc = "use" /\ k.calls[c].backend # "route-head") => k.tokenizer

CallsSettled == SlotsAreCalls /\ BasisHonest /\ OneSession

\* What a ranking is, whatever classification is behind it: its winner costs no more the more the caller prefers cheap answers, and no
\* cost exceeds the bound that was checked before.
RankingOf(body, entries) ==
  /\ PreferenceLowersCost(entries, Scale(entries))
  /\ \A e \in entries : \E i \in Scorable(body) : body.candidates[i].id = e.id /\ e.cost <= UpperCost(body, i)

RankingSound == \A c \in Caller : k.calls[c].entries # {} => RankingOf(k.calls[c].body, k.calls[c].entries)
=============================================================================
