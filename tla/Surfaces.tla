------------------------------ MODULE Surfaces ------------------------------
(***************************************************************************)
(* One request on each of the gateway's surfaces other than the unstreamed *)
(* /v1/chat/completions (which is Gateway's): the OpenAI stream, Anthropic *)
(* messages streamed and not, the two passthroughs of plan traffic, the    *)
(* hand-over of a stuck cheap turn to the plan, and every other path.      *)
(* Translation is the generator the Anthropic stream is made of.           *)
(*                                                                         *)
(* A generator hands one event at a time to its consumer: the client, or   *)
(* the list a buffered stream is collected in until it has been graded.    *)
(* The client may go away at any time and cancels what it was being sent.  *)
(* The conversation's floor and the outcome memory are Gateway's.          *)
(***************************************************************************)
EXTENDS Translation, Sequences, FiniteSets

CONSTANTS
  Route, Plan, NoRoute,  \* the catalog, the Claude plan in it, Python's None
  Below, Cheap,          \* below the intelligence reference; the cheap tier
  ResponsesApi,          \* routes of a provider that speaks the Responses API
  Capability, MinGain,   \* points per route; verify.min_capability_gain
  MaxEscalations,        \* verify.max_escalations
  BufferStreams,         \* verify.buffer_streams
  Shapes,                \* the lines an upstream may send
  MaxLines,              \* bound on the lines of one stream
  MaxCalls               \* bound on the tool calls of a Responses answer

ASSUME SurfaceRoutes ==
  /\ Plan \in Route /\ NoRoute \notin Route
  /\ Below \cup Cheap \subseteq Route \ {Plan}
  /\ Shapes \subseteq Line /\ NoTool \notin Tool
  /\ MaxCalls \in Nat /\ 0..MaxCalls - 1 \subseteq Tool
  /\ MaxEscalations \in Nat

VARIABLE h   \* the handler's local state

vars == <<h, tr, yielded, client>>
----------------------------------------------------------------------------
(* Data *)

\* What the judge said; `to` is escalated_to.
NoVerdict == [status |-> "unchecked", to |-> NoRoute, escalations |-> 0]

\* A decision and what was booked for it.
NewCall(r, v) == [route |-> r, verdict |-> v, status |-> "pending",
                  committed |-> FALSE, metered |-> FALSE, errors |-> 0]

Default == [surface |-> "anthropic", stream |-> TRUE, kind |-> "api_key",
            switching |-> FALSE, optIn |-> FALSE, valid |-> TRUE,
            translatable |-> TRUE, gradable |-> TRUE, allowed |-> TRUE,
            routeOthers |-> FALSE]

ChatRequest(o, g, v) ==
  [Default EXCEPT !.surface = "openai", !.optIn = o, !.gradable = g, !.valid = v]
MessagesRequest(s, w, t, g) ==
  [Default EXCEPT !.stream = s, !.switching = w, !.translatable = t, !.gradable = g]
PlanRequest(u, a, o) ==
  [Default EXCEPT !.surface = u, !.kind = "subscription", !.allowed = a, !.routeOthers = o]

Requests ==
  {ChatRequest(o, g, v) : o, g, v \in BOOLEAN}
  \cup {MessagesRequest(s, w, t, g) : s, w, t, g \in BOOLEAN}
  \cup {PlanRequest(u, a, o) : u \in {"anthropic", "other"}, a, o \in BOOLEAN}
  \cup {[Default EXCEPT !.valid = FALSE]}

\* What the answer of the current call turned out to be.
NothingGot == [text |-> FALSE, tools |-> FALSE, finish |-> "none"]

Idle(req) ==
  [pc |-> "new", req |-> req, calls |-> <<>>, buffered |-> FALSE,
   appended |-> FALSE, held |-> <<>>, shown |-> <<>>, lines |-> 0,
   scripted |-> FALSE, script |-> <<>>, got |-> NothingGot,
   budget |-> MaxEscalations, checked |-> NoVerdict]

Init == /\ h \in {Idle(req) : req \in Requests}
        /\ tr = NewTranslation /\ yielded = Nothing /\ client = NewClient

LastCall == Len(h.calls)
Call == h.calls[LastCall]
OpenAI == h.req.surface = "openai"

\* The handler h becomes s; the generator and the client are left alone.
Become(s) == h' = s /\ UNCHANGED <<tr, yielded, client>>
BecomeYielding(s, e) == h' = s /\ yielded' = e /\ UNCHANGED <<tr, client>>

\* The event goes to the list of a buffered stream, or is yielded.
Tell(s, e) == IF s.buffered THEN Become([s EXCEPT !.held = Append(@, e)])
              ELSE BecomeYielding(s, e)

----------------------------------------------------------------------------
(* Routing *)

\* The route's stream is held back until its answer has been graded.
Buffers(r) == BufferStreams /\ h.req.gradable /\ r \in Below
Applies(r) == h.req.gradable /\ r \in Below \cup Cheap

\* A decision for route r, and its upstream call.
Start(s, r, v) ==
  [s EXCEPT !.pc = "calling", !.calls = Append(@, NewCall(r, v)), !.held = <<>>,
            !.lines = 0, !.script = <<>>, !.scripted = FALSE, !.got = NothingGot]

\* No messages, a malformed max_tokens, or a request that cannot be translated.
Refuse ==
  /\ h.pc = "new" /\ h.req.surface # "other" /\ ~h.req.valid
  /\ Become([h EXCEPT !.pc = "done"])

RouteOpenAI ==
  /\ h.pc = "new" /\ OpenAI /\ h.req.valid
  /\ \E r \in Route :
       Become([Start(h, r, NoVerdict) EXCEPT !.buffered = Buffers(r)])

\* proxy_openai_as_anthropic: to a metered route, in the provider's words.
Proxied(s, r) ==
  LET d == Start(s, r, NoVerdict)
  IN  IF ~s.req.translatable THEN [d EXCEPT !.pc = "done"]
      ELSE [d EXCEPT !.buffered = s.req.stream /\ Buffers(r)]

PlanReachable == h.req.kind = "subscription"

\* anthropic_sse_from_message, for a message of one text block.
SseFromMessage ==
  <<Plain("message_start"), Block("block_start", 0), Block("block_delta", 0),
    Block("block_stop", 0), [Plain("message_delta") EXCEPT !.reason = "end_turn"],
    Plain("message_stop")>>

\* A stuck cheap turn ends with a notice; the wrapper resumes it on the plan.
SwitchToPlan(s) ==
  LET d == Start(s, Plan, NoVerdict)
  IN  [d EXCEPT !.calls[Len(d.calls)].status = "handed_over",
                !.pc = IF s.req.stream THEN "releasing" ELSE "done",
                !.held = IF s.req.stream THEN SseFromMessage ELSE <<>>]

RouteAnthropic ==
  /\ h.pc = "new" /\ h.req.surface = "anthropic" /\ h.req.valid
  /\ \E r \in IF PlanReachable \/ h.req.switching THEN Route ELSE Route \ {Plan} :
       \/ /\ r = Plan /\ PlanReachable
          /\ Become([Start(h, r, NoVerdict) EXCEPT !.pc = "forwarding"])
       \/ /\ r = Plan /\ ~PlanReachable       \* in the middle of a turn
          /\ Become(SwitchToPlan(h))
       \/ /\ r = Plan /\ ~PlanReachable       \* at its start: routed again
          /\ \E q \in Route \ {Plan} : Become(Proxied(Start(h, r, NoVerdict), q))
       \/ /\ r # Plan
          /\ IF PlanReachable /\ ~h.req.routeOthers
             THEN Become([Start(h, r, NoVerdict) EXCEPT !.pc = "forwarding"])
             ELSE Become(Proxied(h, r))

RouteOther ==
  /\ h.pc = "new" /\ h.req.surface = "other"
  /\ Become([h EXCEPT !.pc = "forwarding"])

----------------------------------------------------------------------------
(* Booking: the decision's outcome, the conversation, the metrics. *)

Booked(c, status) ==
  LET answered == status \in {"ok", "truncated"}
  IN  [c EXCEPT !.status = status, !.committed = answered, !.metered = answered,
                !.errors = IF status = "ok" THEN @ ELSE @ + 1]

Book(s, status) == [s EXCEPT !.calls[Len(s.calls)] = Booked(@, status)]

\* What follows an upstream call, by surface; `answered` when it completed
\* without a length stop.
AfterCall(s, answered) ==
  [s EXCEPT !.pc =
     CASE answered /\ ~s.appended /\ (s.buffered \/ OpenAI \/ ~s.req.stream) -> "grading"
       [] ~(answered /\ ~s.appended) /\ s.buffered -> "releasing"
       [] ~(answered /\ ~s.appended) /\ ~s.buffered /\ OpenAI -> "closing"
       [] OTHER -> "done"]

\* A completed call, from what it turned out to be.
Completed(s, got) ==
  LET b == Book([s EXCEPT !.got = got],
                IF got.finish = "length" THEN "truncated" ELSE "ok")
  IN  AfterCall(b, got.finish # "length")

\* The failure is told inside the open stream.
ErrorEvent == IF OpenAI THEN Plain("line") ELSE Plain("error")

----------------------------------------------------------------------------
(* The upstream call *)

\* responses_to_chat: the finish of a Responses answer.
ResponsesToChat(raw) ==
  [text |-> raw.text, calls |-> raw.calls,
   finish |-> CASE raw.incomplete -> "length"
                [] ~raw.incomplete /\ raw.calls > 0 -> "tool_calls"
                [] OTHER -> "stop"]

RawAnswers == [text : BOOLEAN, calls : 0..MaxCalls, incomplete : BOOLEAN]

\* chat_sse: that answer as the lines of a stream, its calls numbered from 0.
ChatSse(chat) ==
  <<EmptyLine>>
  \o (IF chat.text THEN <<[EmptyLine EXCEPT !.text = TRUE]>> ELSE <<>>)
  \o [n \in 1..chat.calls |->
        [EmptyLine EXCEPT !.call = n - 1, !.named = TRUE, !.args = TRUE]]
  \o <<[EmptyLine EXCEPT !.finish = chat.finish]>>

Calling == h.pc = "calling" /\ Running
Reading == h.pc = "reading" /\ Running

\* A 200: the stream opens.  A Responses provider has answered in full.
Open ==
  /\ Calling /\ h.req.stream
  /\ tr' = NewTranslation
  /\ \/ /\ Call.route \in ResponsesApi
        /\ \E raw \in RawAnswers :
             h' = [h EXCEPT !.pc = "reading", !.scripted = TRUE,
                            !.script = ChatSse(ResponsesToChat(raw))]
     \/ /\ Call.route \notin ResponsesApi
        /\ h' = [h EXCEPT !.pc = "reading"]
  /\ UNCHANGED <<yielded, client>>

\* Any other status.
RefusedUpstream ==
  /\ Calling
  /\ LET b == Book(h, "upstream_error")
     IN  IF h.req.stream THEN Tell(AfterCall(b, FALSE), ErrorEvent)
         ELSE Become([b EXCEPT !.pc = "done"])

\* The connection fails, at once or in the middle of the stream: the OpenAI
\* stream and the unstreamed call raise, the Anthropic stream tells.
Broken ==
  /\ Calling \/ (Reading /\ tr.pc = "lines" /\ ~h.scripted)
  /\ IF OpenAI \/ ~h.req.stream THEN Become([h EXCEPT !.pc = "aborted"])
     ELSE Tell(AfterCall(Book(h, "transport_error"), FALSE), ErrorEvent)

\* The lines that may come next; after a finish reason none does.
NextLines ==
  IF h.scripted THEN (IF h.script = <<>> THEN {} ELSE {Head(h.script)})
  ELSE IF h.lines < MaxLines /\ h.got.finish = "none" THEN Shapes ELSE {}

\* What is known of the answer after line l.
Heard(l) == [text   |-> h.got.text \/ l.text,
             tools  |-> h.got.tools \/ l.call # NoTool \/ l.finish = "tool_calls",
             finish |-> IF l.finish = "none" THEN h.got.finish ELSE l.finish]

ReadOn(l) == [h EXCEPT !.lines = @ + 1, !.got = Heard(l),
                       !.script = IF h.scripted THEN Tail(@) ELSE @]

\* _stream_upstream: each line goes on as it came.
ForwardLine ==
  /\ Reading /\ OpenAI
  /\ \E l \in NextLines : Tell(ReadOn(l), Plain("line"))

\* translate_stream takes the line.
TranslateLine ==
  /\ Reading /\ ~OpenAI
  /\ \E l \in NextLines : TakeLine(l) /\ h' = ReadOn(l)

TranslateOn == h.pc = "reading" /\ ~OpenAI /\ Translate /\ UNCHANGED h

StreamOver == IF h.scripted THEN h.script = <<>> ELSE TRUE

EndOfUpstream ==
  /\ Reading /\ StreamOver /\ tr.pc = "lines"
  /\ IF OpenAI THEN Become(Completed(h, h.got))
     ELSE EndOfLines /\ UNCHANGED h

TranslationDone ==
  /\ Reading /\ ~OpenAI /\ tr.pc = "done"
  /\ Become(Completed(h, [h.got EXCEPT !.tools = SeenTools # {}, !.finish = tr.finish]))

TranslationRaised ==
  /\ Reading /\ ~OpenAI /\ tr.pc = "raised"
  /\ Tell(AfterCall(Book(h, "transport_error"), FALSE), ErrorEvent)

\* The unstreamed call's 200; its body may be one that cannot be translated.
Posted ==
  /\ Calling /\ ~h.req.stream
  /\ \/ \E t, c \in BOOLEAN, f \in Finish :
          Become(Completed(h, [text |-> t, tools |-> c, finish |-> f]))
     \/ Become([h EXCEPT !.pc = "done", !.calls[LastCall].errors = @ + 1])

----------------------------------------------------------------------------
(* Grading *)

Escalates(v) == v.status = "rejected" /\ v.to = NoRoute

\* Router.check, as in Gateway.
CheckVerdicts ==
  LET applies == Applies(Call.route)
      v == Call.verdict
  IN  IF v.to # NoRoute /\ ~(applies /\ Call.route \in Below /\ v.escalations < MaxEscalations)
      THEN {v}
      ELSE {[status |-> s, to |-> NoRoute, escalations |-> v.escalations] :
              s \in IF applies /\ h.got.text /\ ~h.got.tools
                    THEN {"unchecked", "adequate", "rejected", "unavailable"}
                    ELSE {"unchecked"}}

\* What is done with an answer that is kept.
Keep(s) == [s EXCEPT !.pc = CASE s.buffered -> "releasing"
                              [] OpenAI /\ ~s.buffered -> "closing"
                              [] OTHER -> "done"]

\* Mutant: the verdict is asked for and the answer released all the same.
GradeReleases ==
  /\ h.pc = "grading" /\ Running
  /\ \E v \in CheckVerdicts : Become(Keep([h EXCEPT !.calls[LastCall].verdict = v]))

\* The answer is graded; a rejected one spends an escalation.  A stream that
\* is already with the client is followed by one other, on request only and
\* whatever the budget.
Grade ==
  /\ h.pc = "grading" /\ Running
  /\ \E v \in CheckVerdicts :
       LET s     == [h EXCEPT !.calls[LastCall].verdict = v]
           taken == IF s.checked # NoVerdict /\ v.status = "unchecked" THEN s.checked ELSE v
           live  == OpenAI /\ ~s.buffered
           asks  == IF live THEN s.req.optIn ELSE s.budget > 0
       IN  Become(IF Escalates(taken) /\ asks
                  THEN [s EXCEPT !.pc = "steppingUp", !.budget = IF live THEN @ ELSE @ - 1]
                  ELSE Keep(s))

Tried == {h.calls[i].route : i \in 1..LastCall}
ClearlyStronger(gain) ==
  {r \in Route \ (Tried \cup {Plan}) : Capability[r] >= Capability[Call.route] + gain}

\* escalate_after_verdict: a clear step up, above the reference when there is
\* such a route, or else any stronger one; never a plan.
Targets ==
  LET bar   == ClearlyStronger(MinGain)
      above == bar \ Below
  IN  CASE bar = {} -> ClearlyStronger(2)
        [] bar # {} /\ Call.route \in Below /\ above # {} -> above
        [] OTHER -> bar

\* The record of an answer given up for another route's.
GivenUpFor(c, v) == [c EXCEPT !.verdict = v, !.errors = @ + 1]

StepUp ==
  /\ h.pc = "steppingUp"
  /\ \/ \E r \in Targets :
          LET v == [Call.verdict EXCEPT !.to = r, !.escalations = @ + 1]
              s == [h EXCEPT !.calls[LastCall] = GivenUpFor(@, v),
                             !.checked = v, !.appended = OpenAI /\ ~h.buffered]
          IN  IF s.appended THEN BecomeYielding(Start(s, r, v), Plain("metadata"))
              ELSE Become(Start(s, r, v))
     \/ Targets = {} /\ Become(Keep(h))

----------------------------------------------------------------------------
(* Delivery *)

\* A collected stream is sent, event by event.
Release ==
  /\ h.pc = "releasing" /\ Running
  /\ IF h.held # <<>>
     THEN BecomeYielding([h EXCEPT !.held = Tail(@)], Head(h.held))
     ELSE Become([h EXCEPT !.pc = IF OpenAI THEN "closing" ELSE "done"])

CloseOpenAI ==
  /\ Running
  /\ \/ /\ h.pc = "closing"
        /\ BecomeYielding([h EXCEPT !.pc = "sentinel"], Plain("metadata"))
     \/ /\ h.pc = "sentinel"
        /\ BecomeYielding([h EXCEPT !.pc = "done"], Plain("sentinel"))

\* The list of a buffered stream takes what the generator yields.
Collect ==
  /\ yielded # Nothing /\ h.buffered /\ h.pc = "reading"
  /\ h' = [h EXCEPT !.held = Append(@, yielded)]
  /\ yielded' = Nothing /\ UNCHANGED <<tr, client>>

\* The calls whose answer the client has been sent some of.
ShownNow == IF yielded.type \in {"metadata", "sentinel"} \/ h.calls = <<>>
               \/ (h.shown # <<>> /\ h.shown[Len(h.shown)] = LastCall)
            THEN h.shown ELSE Append(h.shown, LastCall)

\* The client takes the event.
Send ==
  /\ yielded # Nothing /\ ~(h.buffered /\ h.pc = "reading")
  /\ h' = [h EXCEPT !.shown = ShownNow]
  /\ client' = CASE h.pc = "watching" -> client
                 [] OpenAI -> [client EXCEPT !.phase =
                      CASE @ = "ended" -> "confused"
                        [] @ # "ended" /\ yielded.type = "sentinel" -> "ended"
                        [] OTHER -> "open"]
                 [] OTHER -> See(client, yielded)
  /\ yielded' = Nothing /\ UNCHANGED tr

----------------------------------------------------------------------------
(* Passthrough *)

\* Mutant: a break is reported although the plan had stated a length stop.
PlanOutcomeBreakFirst(served, cut, declared, broke) ==
  CASE ~served -> "upstream_error"
    [] served /\ broke -> "transport_error"
    [] served /\ ~broke /\ cut -> "truncated"
    [] served /\ ~broke /\ ~cut /\ declared -> "upstream_error"
    [] OTHER -> "ok"

\* subscription_passthrough.record: what outranks what.
PlanOutcome(served, cut, declared, broke) ==
  CASE ~served -> "upstream_error"
    [] served /\ cut -> "truncated"
    [] served /\ ~cut /\ declared -> "upstream_error"
    [] served /\ ~cut /\ ~declared /\ broke -> "transport_error"
    [] OTHER -> "ok"

\* The forwarded request's decision: the plan's own turn, the advisory record
\* of a turn the router would have sent elsewhere, or none at all.
Forwarded(s, status) ==
  IF s.calls = <<>> THEN s
  ELSE [s EXCEPT !.calls[Len(s.calls)].status =
                   IF Call.route = Plan THEN status ELSE "not_taken"]

Served(s) == IF s.calls # <<>> /\ Call.route = Plan
             THEN [s EXCEPT !.calls[Len(s.calls)].committed = TRUE] ELSE s

Forwarding == h.pc = "forwarding"

\* check_upstream: a plan's login goes to no other host.  Or the upstream
\* refuses, or it cannot be reached at all.
ForwardFails ==
  /\ Forwarding
  /\ \/ Become([Forwarded(h, "upstream_error") EXCEPT !.pc = "done"])
     \/ h.req.allowed /\ Become([h EXCEPT !.pc = "aborted"])

\* The answer comes in one piece.
ForwardAnswers ==
  /\ Forwarding /\ h.req.allowed
  /\ \E cut \in BOOLEAN :
       Become([Forwarded(Served(h), PlanOutcome(TRUE, cut, FALSE, FALSE))
                 EXCEPT !.pc = "done"])

\* The answer is streamed; only the plan's own turn is watched.
ForwardStreams ==
  /\ Forwarding /\ h.req.allowed
  /\ Become([Forwarded(Served(h), "pending") EXCEPT !.pc =
               IF h.calls # <<>> /\ Call.route = Plan THEN "watching" ELSE "done"])

\* _watch_for_length_stop: a chunk is passed on before it is read; once a
\* length stop is known nothing more is.  tools stands for a declared error.
PassChunk ==
  /\ h.pc = "watching" /\ Running /\ h.script = <<>> /\ h.lines < MaxLines
  /\ \E says \in {"nothing", "length", "error"} :
       BecomeYielding([h EXCEPT !.lines = @ + 1, !.script = <<says>>], Plain("line"))

ReadChunk ==
  /\ h.pc = "watching" /\ Running /\ h.script # <<>>
  /\ LET says == Head(h.script)
         open == h.got.finish # "length"
     IN  Become([h EXCEPT !.script = <<>>,
                          !.got.finish = IF open /\ says = "length" THEN "length" ELSE @,
                          !.got.tools = @ \/ (open /\ says = "error")])

WatchedOutcome(broke) ==
  Forwarded(h, PlanOutcome(TRUE, h.got.finish = "length", h.got.tools, broke))

WatchEnds ==
  /\ h.pc = "watching" /\ Running /\ h.script = <<>>
  /\ \/ Become([WatchedOutcome(FALSE) EXCEPT !.pc = "done"])
     \/ Become([WatchedOutcome(TRUE) EXCEPT !.pc = "aborted"])

\* The client goes away: what is being sent to it is cancelled, and only the
\* plan's watcher still records the turn.
ClientGone ==
  /\ h.req.stream
  /\ h.pc \in {"calling", "reading", "grading", "steppingUp", "releasing",
               "closing", "sentinel", "watching"}
  /\ h' = [(IF h.pc = "watching" THEN WatchedOutcome(TRUE) ELSE h) EXCEPT !.pc = "aborted"]
  /\ yielded' = Nothing /\ UNCHANGED <<tr, client>>

Finished == h.pc \in {"done", "aborted"} /\ Running

Next ==
  \/ Refuse \/ RouteOpenAI \/ RouteAnthropic \/ RouteOther
  \/ Open \/ RefusedUpstream \/ Broken \/ ForwardLine \/ TranslateLine
  \/ TranslateOn \/ EndOfUpstream \/ TranslationDone \/ TranslationRaised \/ Posted
  \/ Grade \/ StepUp \/ Release \/ CloseOpenAI \/ Collect \/ Send
  \/ ForwardFails \/ ForwardAnswers \/ ForwardStreams \/ PassChunk \/ ReadChunk
  \/ WatchEnds \/ ClientGone
  \/ Finished /\ UNCHANGED vars

Spec == Init /\ [][Next]_vars

----------------------------------------------------------------------------
(* Properties *)

Streamed == h.pc = "done" /\ Running /\ h.req.stream /\ h.req.surface # "other"
            /\ h.shown # <<>> /\ Call.route # Plan

\* Whatever was collected, discarded, released or told as an error, on either
\* surface the client gets one well-formed stream: complete or ended by one
\* error, and nothing after its end.
ClientUnderstands ==
  /\ client.phase # "confused"
  /\ Streamed => client.phase \in {"ended", "failed"}

\* A client is sent a second answer only behind a first one it had asked to
\* be followed; a held-back stream is the last call's and no other's.
OneAnswer ==
  /\ Len(h.shown) > 1 => OpenAI /\ h.req.optIn /\ ~h.buffered
  /\ h.buffered /\ h.shown # <<>> => h.shown = <<LastCall>>

\* No rejected answer reaches the client of a graded surface that holds its
\* answers back while an escalation and a clearly stronger route were left.
RejectedHeldBack ==
  /\ h.pc \in {"releasing", "done"} /\ Running /\ h.calls # <<>>
  /\ h.buffered \/ ~h.req.stream
  /\ Call.verdict.status = "rejected" /\ Call.verdict.to = NoRoute
  /\ Call.status = "ok"
  => h.budget = 0 \/ ClearlyStronger(2) = {}

\* What is graded before it is shown is one call's, and not a rejected one.
AnswersHeldBack == OneAnswer /\ RejectedHeldBack

PlanTurn(c) == c.route = Plan /\ ~OpenAI

\* Only an answer that came to its end without a length stop is booked as ok,
\* and a length stop the plan stated is booked as one whatever follows it.
OutcomesHonest ==
  h.calls # <<>> =>
    /\ Call.status = "ok" => h.got.finish # "length"
    /\ Call.status = "truncated" /\ h.lines > 0 => h.got.finish = "length"
    /\ /\ PlanTurn(Call) /\ h.lines > 0 /\ h.got.finish = "length"
       /\ h.pc \in {"done", "aborted"}
       => Call.status = "truncated"

\* The books agree: a call is charged to the conversation exactly when it is
\* metered or it was the plan's, an answer counts as an error only when it was
\* cut or replaced, and a call no longer the last one has its outcome unless
\* it was the plan route nobody could call.
BooksAgree ==
  \A i \in 1..LastCall :
    LET c == h.calls[i]
    IN  /\ ~PlanTurn(c) => (c.committed <=> c.metered)
        /\ c.metered => c.status \in {"ok", "truncated"}
        /\ c.status = "ok" => c.errors = IF i < LastCall THEN 1 ELSE 0
        /\ c.status = "pending" /\ i < LastCall => PlanTurn(c)
        /\ ~PlanTurn(c) /\ i < LastCall => c.verdict.to = h.calls[i + 1].route

\* What is booked for a call is what became of it.
BooksHonest == OutcomesHonest /\ BooksAgree
=============================================================================
