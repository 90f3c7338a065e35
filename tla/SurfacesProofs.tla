---------------------------- MODULE SurfacesProofs ----------------------------
(***************************************************************************)
(* Proofs about Surfaces and the generator it contains, for every catalog, *)
(* every set of tool indexes and every line an upstream may send.          *)
(***************************************************************************)
EXTENDS Surfaces, TLAPS

----------------------------------------------------------------------------
(* The generator *)

Translations ==
  [pc : {"lines", "line", "closing", "ending", "done", "raised"}, line : Line,
   begun : BOOLEAN, next : Nat, text : Int, block : [Tool -> Int],
   started : SUBSET Tool, stopped : SUBSET Int, finish : Finish]

\* Blocks are numbered below next, each for the text or for one tool.
Numbers(n) ==
  /\ n \in Translations
  /\ n.text = NoBlock \/ n.text \in 0..n.next - 1
  /\ \A j \in Tool : n.block[j] = NoBlock \/ n.block[j] \in 0..n.next - 1
  /\ \A j \in Tool : n.block[j] # NoBlock =>
       /\ n.block[j] # n.text
       /\ \A k \in Tool : n.block[k] = n.block[j] => k = j

\* A tool's block is opened after it is numbered, a block is closed after it
\* is opened, and no message ends with one open.
Numbering ==
  /\ Numbers(tr)
  /\ \A i \in tr.started : tr.block[i] # NoBlock
  /\ tr.stopped \subseteq Blocks
  /\ ~tr.begun => Blocks = {} /\ tr.pc \in {"lines", "line", "closing"}
  /\ tr.pc \in {"lines", "line", "raised"} => tr.stopped = {}
  /\ tr.pc \in {"ending", "done"} => Blocks \subseteq tr.stopped

\* What a client knows that took everything yielded so far.
InStep ==
  [phase |-> CASE ~tr.begun -> "before"
               [] tr.begun /\ tr.pc = "ending" -> "closing"
               [] tr.begun /\ tr.pc = "done" -> "ended"
               [] OTHER -> "open",
   used |-> Blocks, open |-> Blocks \ tr.stopped]

\* The client c once it has taken what is yielded.
Taken(c) == IF yielded = Nothing THEN c ELSE See(c, yielded)

AnyEvent ==
  [type : {"nothing", "message_start", "block_start", "block_delta", "block_stop",
           "message_delta", "message_stop", "error", "line", "metadata", "sentinel"},
   index : Int, reason : {"none", "end_turn", "max_tokens", "tool_use"}]

\* What a client knows is three things.
Knows(c) == c = [phase |-> c.phase, used |-> c.used, open |-> c.open]
----------------------------------------------------------------------------
(* The handler *)

Steps == {"new", "calling", "reading", "grading", "steppingUp", "releasing",
          "closing", "sentinel", "forwarding", "watching", "done", "aborted"}
Verdicts == [status : {"unchecked", "adequate", "rejected", "unavailable"},
             to : Route \cup {NoRoute}, escalations : Nat]
Calls == [route : Route, verdict : Verdicts,
          status : {"pending", "ok", "truncated", "upstream_error", "transport_error",
                    "handed_over", "not_taken"},
          committed : BOOLEAN, metered : BOOLEAN, errors : Nat]
Said == {"nothing", "length", "error"}
Handlers ==
  [pc : Steps, req : Requests, calls : Seq(Calls), buffered : BOOLEAN,
   appended : BOOLEAN, held : Seq(AnyEvent), shown : Seq(Nat), lines : Nat,
   scripted : BOOLEAN, script : Seq(Line \cup Said),
   got : [text : BOOLEAN, tools : BOOLEAN, finish : Finish], budget : Nat,
   checked : Verdicts]

\* Which steps which request takes, and what is untouched there.
Placed(s) ==
  /\ s.pc = "new" => s = Idle(s.req)
  /\ s.pc \notin {"new", "forwarding", "done", "aborted"} => s.calls # <<>>
  /\ s.pc \in {"reading", "releasing", "closing", "sentinel", "forwarding", "watching"}
     \/ s.buffered => s.req.stream
  /\ s.pc \in {"closing", "sentinel"} => s.req.surface = "openai"
  /\ s.pc \in {"forwarding", "watching"} => s.req.surface # "openai" /\ ~s.buffered
  /\ s.pc \in {"calling", "forwarding"} => s.lines = 0 /\ s.got = NothingGot
  /\ s.pc \in {"calling", "forwarding"} => s.held = <<>> /\ ~s.scripted /\ s.script = <<>>
  /\ s.pc = "watching" => ~s.scripted
  /\ s.scripted => s.script \in Seq(Line)
  /\ s.appended => s.req.surface = "openai" /\ ~s.buffered
  /\ s.pc \in {"grading", "steppingUp"} =>
       s.buffered \/ s.req.surface = "openai" \/ ~s.req.stream
  /\ s.pc = "steppingUp" /\ s.req.surface = "openai" /\ ~s.buffered => s.req.optIn
  /\ s.req.surface = "openai" => s.held \in Seq({Plain("line")})

Follows(s) == s.req.surface = "openai" /\ s.req.optIn /\ ~s.buffered

\* A client is shown a second answer only where it follows a first.
ShownInOrder(s) ==
  s.shown # <<>> =>
    /\ s.req.stream /\ s.pc \notin {"new", "forwarding"}
    /\ s.buffered => s.pc \in {"releasing", "closing", "sentinel", "done", "aborted"}
    /\ Len(s.shown) > 1 \/ s.shown[Len(s.shown)] # Len(s.calls) => Follows(s)

\* Nothing is on its way to the client.
Quiet(s) ==
  \/ s.pc \in {"new", "grading", "steppingUp", "forwarding", "aborted"}
  \/ ~s.req.stream
  \/ s.pc = "calling" /\ (s.buffered \/ s.req.surface # "openai")
  \/ s.pc = "reading" /\ s.buffered /\ s.req.surface = "openai"

\* The current call's books.
CallBooks(s) ==
  s.calls # <<>> =>
    LET c == s.calls[Len(s.calls)]
        planTurn == c.route = Plan /\ s.req.surface # "openai"
    IN  /\ s.pc \in {"calling", "reading", "forwarding", "watching"} =>
             c.status = "pending" /\ c.errors = 0 /\ ~c.metered
        /\ s.pc \in {"calling", "reading"} => ~c.committed
        /\ s.pc = "forwarding" => ~c.committed
        /\ s.pc = "watching" => c.route = Plan
        /\ s.pc = "releasing" /\ ~s.buffered => planTurn
        /\ s.pc \in {"grading", "steppingUp"} => c.status = "ok"
        /\ planTurn => s.pc \notin {"calling", "reading", "grading", "steppingUp"}
        /\ c.status = "ok" => s.got.finish # "length"
        /\ c.status = "truncated" /\ s.lines > 0 => s.got.finish = "length"
        /\ planTurn /\ s.lines > 0 /\ s.got.finish = "length" /\ s.pc # "watching"
           => c.status = "truncated"

\* Every call's books, by its place among the calls.
TrailBooks(s) ==
  \A i \in 1..Len(s.calls) :
    LET c == s.calls[i]
        planTurn == c.route = Plan /\ s.req.surface # "openai"
    IN  /\ ~planTurn => (c.committed <=> c.metered)
        /\ c.metered => c.status \in {"ok", "truncated"}
        /\ c.status = "ok" => c.errors = IF i < Len(s.calls) THEN 1 ELSE 0
        /\ c.status = "pending" /\ i < Len(s.calls) => planTurn
        /\ ~planTurn /\ i < Len(s.calls) => c.verdict.to = s.calls[i + 1].route

\* ClearlyStronger(2), of a handler.
Stronger(s) ==
  {r \in Route \ ({s.calls[i].route : i \in 1..Len(s.calls)} \cup {Plan}) :
     Capability[r] >= Capability[s.calls[Len(s.calls)].route] + 2}

\* A rejected answer is kept when nothing else was left.
RejectedKept(s) ==
  /\ s.pc \in {"releasing", "closing", "sentinel", "done"} /\ s.calls # <<>>
  /\ s.buffered \/ ~s.req.stream
  /\ s.calls[Len(s.calls)].verdict.status = "rejected"
  /\ s.calls[Len(s.calls)].verdict.to = NoRoute
  /\ s.calls[Len(s.calls)].status = "ok"
  => s.budget = 0 \/ Stronger(s) = {}

Sound(s) == /\ s \in Handlers /\ Placed(s) /\ ShownInOrder(s) /\ CallBooks(s)
            /\ TrailBooks(s) /\ RejectedKept(s)

HInv == Sound(h) /\ yielded \in AnyEvent /\ Knows(client) /\ (Quiet(h) => yielded = Nothing)

\* A client of chat completions.
LinesInv ==
  OpenAI =>
    /\ yielded \in {Nothing, Plain("line"), Plain("metadata"), Plain("sentinel")}
    /\ client.phase \in {"before", "open", "ended"}
    /\ client.phase = "ended" => h.pc = "done" /\ yielded = Nothing
    /\ yielded = Plain("sentinel") => h.pc = "done"
    /\ h.pc = "done" => \/ yielded = Plain("sentinel")
                        \/ yielded = Nothing /\ (client.phase = "ended" \/ h.shown = <<>>)

\* A client that is c reads the events s, none out of place, and is then d.
Reads(c, s, d) ==
  \E f : /\ f[0] = c /\ f[Len(s)] = d
         /\ \A i \in 0..Len(s) : f[i].phase # "confused"
         /\ \A i \in 1..Len(s) : f[i] = See(f[i - 1], s[i])

\* A client of messages, wherever the handler stands.
MessagesInv ==
  ~OpenAI =>
    /\ h.pc \in {"new", "calling", "forwarding", "watching"} \/ ~h.req.stream => client = NewClient
    /\ h.pc = "reading" =>
         IF h.buffered
         THEN client = NewClient /\ \E d : Reads(client, h.held, d) /\ Taken(d) = InStep
         ELSE Taken(client) = InStep
    /\ h.pc \in {"grading", "steppingUp"} =>
         /\ client = NewClient
         /\ h.buffered => \E d : Reads(client, h.held, d) /\ d.phase = "ended"
    /\ h.pc = "releasing" =>
         \E d : Reads(Taken(client), h.held, d) /\ d.phase \in {"ended", "failed"}
    /\ h.pc = "done" =>
         \/ Taken(client).phase \in {"ended", "failed"}
         \/ /\ yielded = Nothing /\ client.phase # "confused"
            /\ h.shown = <<>> \/ (h.calls # <<>> /\ Call.route = Plan)
    /\ h.pc = "aborted" => client.phase # "confused"

LEMMA Shape ==
  ASSUME Numbering
  PROVE  tr = [pc |-> tr.pc, line |-> tr.line, begun |-> tr.begun, next |-> tr.next,
               text |-> tr.text, block |-> tr.block, started |-> tr.started,
               stopped |-> tr.stopped, finish |-> tr.finish]
BY DEF Numbering, Numbers, Translations

LEMMA SeeFitting ==
  ASSUME NEW c, Knows(c), NEW e, Fits(c, e)
  PROVE  /\ e.type = "message_start" =>
              See(c, e) = [phase |-> "open", used |-> c.used, open |-> c.open]
         /\ e.type = "message_delta" =>
              See(c, e) = [phase |-> "closing", used |-> c.used, open |-> c.open]
         /\ e.type = "message_stop" =>
              See(c, e) = [phase |-> "ended", used |-> c.used, open |-> c.open]
         /\ e.type = "error" =>
              See(c, e) = [phase |-> "failed", used |-> c.used, open |-> c.open]
         /\ e.type = "block_start" =>
              See(c, e) = [phase |-> c.phase, used |-> c.used \cup {e.index},
                           open |-> c.open \cup {e.index}]
         /\ e.type = "block_delta" => See(c, e) = c
         /\ e.type = "block_stop" =>
              See(c, e) = [phase |-> c.phase, used |-> c.used, open |-> c.open \ {e.index}]
<1>1. CASE e.type = "message_start"
  BY <1>1 DEF See, Knows
<1>2. CASE e.type = "message_delta"
  BY <1>2 DEF See, Knows
<1>3. CASE e.type = "message_stop"
  BY <1>3 DEF See, Knows
<1>4. CASE e.type = "error"
  BY <1>4 DEF See, Knows
<1>5. CASE e.type = "block_start"
  BY <1>5 DEF See, Knows
<1>6. CASE e.type = "block_delta"
  BY <1>6 DEF See, Knows
<1>7. CASE e.type = "block_stop"
  BY <1>7 DEF See, Knows
<1> QED
  BY <1>1, <1>2, <1>3, <1>4, <1>5, <1>6, <1>7

LEMMA InStepKnows == Knows(InStep)
BY DEF Knows, InStep

LEMMA NewTranslationNumbered ==
  ASSUME tr = NewTranslation
  PROVE  Numbering /\ InStep = NewClient
BY DEF Numbering, Numbers, Translations, NewTranslation, InStep, NewClient, Blocks, NoBlock, Line,
       Finish, EmptyLine

LEMMA TakeLineStep ==
  ASSUME Numbering, NEW l \in Line, TakeLine(l)
  PROVE  Numbering' /\ yielded' = Nothing /\ InStep' = InStep /\ tr'.pc = "line"
<1>1. /\ tr'.pc = "line" /\ tr'.line = l /\ tr'.begun = tr.begun /\ tr'.next = tr.next
      /\ tr'.text = tr.text /\ tr'.block = tr.block /\ tr'.started = tr.started
      /\ tr'.stopped = tr.stopped /\ tr.pc = "lines" /\ yielded' = Nothing
  BY DEF TakeLine, Running, Numbering, Numbers, Translations
<1>2. tr' \in Translations
  BY DEF TakeLine, Numbering, Numbers, Translations, Line
<1>3. Blocks' = Blocks
  BY <1>1 DEF Blocks
<1> QED
  BY <1>1, <1>2, <1>3 DEF Numbering, Numbers, InStep

\* What a step of the generator does for a client that is in step with it.
KeepsStep ==
  /\ Numbering' /\ yielded' \in AnyEvent
  /\ yielded' = Nothing => InStep' = InStep
  /\ yielded' # Nothing => See(InStep, yielded') = InStep'

LEMMA StandingPhase ==
  ASSUME Numbering, tr.begun, tr.pc \in {"line", "lines", "closing", "raised"}
  PROVE  InStep = [phase |-> "open", used |-> Blocks, open |-> Blocks \ tr.stopped]
BY DEF InStep

LEMMA BeginMessageStep ==
  ASSUME Numbering, BeginMessage
  PROVE  KeepsStep
<1>1. /\ tr'.pc = tr.pc /\ tr'.line = tr.line /\ tr'.begun = TRUE /\ tr'.next = tr.next
      /\ tr'.text = tr.text /\ tr'.block = tr.block /\ tr'.started = tr.started
      /\ tr'.stopped = tr.stopped /\ tr.pc \in {"line", "closing"} /\ ~tr.begun
      /\ yielded' = Plain("message_start")
  BY DEF BeginMessage, Yield, Numbering, Numbers, Translations
<1>2. tr' \in Translations
  BY DEF BeginMessage, Numbering, Numbers, Translations
<1>3. Blocks' = Blocks
  BY <1>1 DEF Blocks
<1>4. Numbering'
  BY <1>1, <1>2, <1>3 DEF Numbering, Numbers
<1>5. InStep = [phase |-> "before", used |-> Blocks, open |-> Blocks \ tr.stopped]
  BY <1>1 DEF InStep
<1>6. InStep' = [phase |-> "open", used |-> Blocks, open |-> Blocks \ tr.stopped]
  BY <1>1, <1>3 DEF InStep
<1>7. Fits(InStep, Plain("message_start"))
  BY <1>5 DEF Fits, Plain
<1>8. See(InStep, Plain("message_start"))
        = [phase |-> "open", used |-> Blocks, open |-> Blocks \ tr.stopped]
  BY <1>5, <1>7, InStepKnows, SeeFitting DEF Plain
<1>9. Plain("message_start") \in AnyEvent /\ Plain("message_start") # Nothing
  BY DEF AnyEvent, Plain, Nothing, NoBlock
<1> QED
  BY <1>1, <1>4, <1>6, <1>8, <1>9 DEF KeepsStep

LEMMA OpenTextStep ==
  ASSUME Numbering, OpenText
  PROVE  KeepsStep
<1>1. /\ tr'.pc = tr.pc /\ tr'.line = tr.line /\ tr'.begun = tr.begun
      /\ tr'.next = tr.next + 1 /\ tr'.text = tr.next /\ tr'.block = tr.block
      /\ tr'.started = tr.started /\ tr'.stopped = tr.stopped
      /\ tr.pc = "line" /\ tr.begun /\ tr.text = NoBlock
      /\ yielded' = Block("block_start", tr.next)
  BY DEF OpenText, Yield, Numbering, Numbers, Translations
<1>2. tr.next \in Nat /\ tr.stopped = {} /\ tr'.stopped = {}
  BY <1>1 DEF Numbering, Numbers, Translations
<1>3. tr' \in Translations
  <2>1. tr' = [tr EXCEPT !.text = tr.next, !.next = @ + 1]
    BY DEF OpenText
  <2>2. tr.next + 1 \in Nat /\ tr.next \in Int
    BY <1>2
  <2> QED
    BY <2>1, <2>2 DEF Numbering, Numbers, Translations
<1>4. Blocks' = Blocks \cup {tr.next}
  BY <1>1, <1>2 DEF Blocks, NoBlock
<1>5. tr.next \notin Blocks
  BY <1>1, <1>2 DEF Blocks, Numbering, Numbers, NoBlock, Translations
<1>6. Numbering'
  BY <1>1, <1>2, <1>3, <1>4 DEF Numbering, Numbers, NoBlock, Translations
<1>7. InStep = [phase |-> "open", used |-> Blocks, open |-> Blocks]
  BY <1>1, <1>2, StandingPhase
<1>8. InStep' = [phase |-> "open", used |-> Blocks \cup {tr.next}, open |-> Blocks \cup {tr.next}]
  BY <1>1, <1>2, <1>4 DEF InStep
<1> DEFINE e == Block("block_start", tr.next)
<1>9. e.type = "block_start" /\ e.index = tr.next /\ e \in AnyEvent /\ e # Nothing
  BY <1>2 DEF Block, AnyEvent, Nothing, Plain
<1> HIDE DEF e
<1>10. Fits(InStep, e)
  BY <1>5, <1>7, <1>9 DEF Fits
<1>11. See(InStep, e) = [phase |-> "open", used |-> Blocks \cup {tr.next},
                         open |-> Blocks \cup {tr.next}]
  BY <1>7, <1>9, <1>10, InStepKnows, SeeFitting
<1> QED
  BY <1>1, <1>6, <1>8, <1>9, <1>11 DEF KeepsStep, e

LEMMA SendTextStep ==
  ASSUME Numbering, SendText
  PROVE  KeepsStep
<1>1. /\ tr'.pc = tr.pc /\ tr'.begun = tr.begun /\ tr'.next = tr.next
      /\ tr'.text = tr.text /\ tr'.block = tr.block
      /\ tr'.started = tr.started /\ tr'.stopped = tr.stopped
      /\ tr.pc = "line" /\ tr.begun /\ tr.text # NoBlock
      /\ yielded' = Block("block_delta", tr.text)
  BY DEF SendText, Yield, Numbering, Numbers, Translations
<1>2. tr' \in Translations
  BY DEF SendText, Numbering, Numbers, Translations, Line
<1>3. tr.text \in Int /\ tr.stopped = {} /\ tr'.stopped = {} /\ tr.text \in Blocks
  BY <1>1 DEF Numbering, Numbers, Translations, Blocks
<1>4. Blocks' = Blocks
  BY <1>1 DEF Blocks
<1>6. Numbering'
  BY <1>1, <1>2, <1>3, <1>4 DEF Numbering, Numbers
<1>7. InStep = [phase |-> "open", used |-> Blocks, open |-> Blocks]
  BY <1>1, <1>3, StandingPhase
<1>8. InStep' = [phase |-> "open", used |-> Blocks, open |-> Blocks]
  BY <1>1, <1>3, <1>4 DEF InStep
<1> DEFINE e == Block("block_delta", tr.text)
<1>9. e.type = "block_delta" /\ e.index = tr.text /\ e \in AnyEvent /\ e # Nothing
  BY <1>3 DEF Block, AnyEvent, Nothing, Plain
<1> HIDE DEF e
<1>10. Fits(InStep, e)
  BY <1>3, <1>7, <1>9 DEF Fits
<1>11. See(InStep, e) = [phase |-> "open", used |-> Blocks, open |-> Blocks]
  BY <1>7, <1>9, <1>10, InStepKnows, SeeFitting
<1> QED
  BY <1>1, <1>6, <1>8, <1>9, <1>11 DEF KeepsStep, e

\* The accumulator of a tool index: numbering a tool opens no block.
LEMMA NumberedTool ==
  ASSUME Numbering, NEW i \in Tool, tr.pc = "line", tr.begun
  PROVE  LET n == Numbered(i)
         IN  /\ Numbers(n) /\ n.pc = tr.pc /\ n.begun = tr.begun /\ n.line = tr.line
             /\ n.text = tr.text /\ n.started = tr.started /\ n.stopped = {}
             /\ n.block[i] # NoBlock
             /\ \A j \in tr.started : n.block[j] = tr.block[j]
<1> DEFINE n == Numbered(i)
<1>1. /\ tr \in Translations /\ tr.next \in Nat /\ tr.block \in [Tool -> Int]
      /\ tr.stopped = {} /\ Numbers(tr)
      /\ \A j \in Tool : tr.block[j] = NoBlock \/ tr.block[j] \in 0..tr.next - 1
  BY DEF Numbering, Numbers, Translations
<1>2. CASE tr.block[i] # NoBlock
  <2>1. n = tr
    BY <1>2 DEF Numbered
  <2> QED
    BY <1>1, <1>2, <2>1 DEF Numbering
<1>3. CASE tr.block[i] = NoBlock
  <2>1. n = [tr EXCEPT !.block[i] = tr.next, !.next = @ + 1]
    BY <1>3 DEF Numbered
  <2>2. /\ n.pc = tr.pc /\ n.begun = tr.begun /\ n.line = tr.line /\ n.text = tr.text
        /\ n.started = tr.started /\ n.stopped = {} /\ n.next = tr.next + 1
        /\ n.block = [tr.block EXCEPT ![i] = tr.next] /\ n.finish = tr.finish
    BY <1>1, <2>1 DEF Translations
  <2>3. n.block \in [Tool -> Int] /\ n.next \in Nat
    BY <1>1, <2>2
  <2>4. n = [pc |-> n.pc, line |-> n.line, begun |-> n.begun, next |-> n.next,
             text |-> n.text, block |-> n.block, started |-> n.started,
             stopped |-> n.stopped, finish |-> n.finish]
    BY <1>1, <2>1 DEF Translations
  <2>5. n.block[i] = tr.next /\ \A j \in Tool : j # i => n.block[j] = tr.block[j]
    BY <1>1, <2>2
  <2> HIDE DEF n
  <2>6. n \in Translations
    BY <1>1, <2>2, <2>3, <2>4 DEF Translations
  <2>7. i \notin tr.started /\ tr.started \subseteq Tool
    BY <1>1, <1>3 DEF Numbering, Translations
  <2>8. \A j \in Tool : tr.block[j] # tr.next
    <3>1. \A v : v = -1 \/ v \in 0..tr.next - 1 => v # tr.next
      BY <1>1
    <3> QED
      BY <1>1, <3>1 DEF NoBlock
  <2>9. tr.text # tr.next /\ (tr.text = NoBlock \/ tr.text \in 0..n.next - 1)
    BY <1>1, <2>2 DEF Numbers, NoBlock
  <2>10. \A j \in Tool : tr.block[j] = NoBlock \/ tr.block[j] \in 0..n.next - 1
    <3>1. \A v : v \in 0..tr.next - 1 => v \in 0..n.next - 1
      BY <1>1, <2>2
    <3> QED
      BY <1>1, <3>1
  <2>11. tr.next # NoBlock /\ tr.next \in 0..n.next - 1
    BY <1>1, <2>2 DEF NoBlock
  <2>12. \A j \in Tool : n.block[j] = NoBlock \/ n.block[j] \in 0..n.next - 1
    BY <2>5, <2>10, <2>11
  <2>13. \A j \in Tool : n.block[j] # NoBlock => n.block[j] # n.text
    BY <1>1, <2>2, <2>5, <2>9 DEF Numbers
  <2>14. \A j, k \in Tool : n.block[j] # NoBlock /\ n.block[k] = n.block[j] => k = j
    BY <1>1, <2>5, <2>8 DEF Numbers
  <2>15. Numbers(n)
    BY <2>2, <2>6, <2>9, <2>12, <2>13, <2>14 DEF Numbers
  <2>16. \A j \in tr.started : n.block[j] = tr.block[j]
    BY <2>5, <2>7
  <2> QED
    BY <2>2, <2>5, <2>11, <2>15, <2>16 DEF n
<1> QED
  BY <1>2, <1>3

LEMMA OpenToolStep ==
  ASSUME Numbering, OpenTool, NoTool \notin Tool
  PROVE  KeepsStep
<1> DEFINE i == tr.line.call
           n == Numbered(i)
           b == n.block[i]
<1>1. i \in Tool /\ tr.pc = "line" /\ tr.begun /\ i \notin tr.started
  BY DEF OpenTool, AtCall, Numbering, Numbers, Translations, Line
<1>2. tr' = [n EXCEPT !.started = @ \cup {i}] /\ yielded' = Block("block_start", b)
  BY DEF OpenTool, Yield
<1>3. /\ Numbers(n) /\ n \in Translations /\ n.pc = tr.pc /\ n.begun = tr.begun
      /\ n.text = tr.text /\ n.started = tr.started /\ n.stopped = {}
      /\ n.block[i] # NoBlock
      /\ \A j \in tr.started : n.block[j] = tr.block[j]
  BY <1>1, NumberedTool DEF Numbers
<1> HIDE DEF n, i
<1>4. /\ tr'.pc = tr.pc /\ tr'.begun = tr.begun /\ tr'.text = tr.text /\ tr'.next = n.next
      /\ tr'.block = n.block /\ tr'.started = tr.started \cup {i} /\ tr'.stopped = {}
      /\ tr' \in Translations
  BY <1>1, <1>2, <1>3 DEF Translations
<1>5. /\ tr.stopped = {} /\ tr.started \subseteq Tool /\ b \in Int
      /\ \A j \in tr.started : tr.block[j] # NoBlock
  BY <1>1, <1>3 DEF Numbering, Numbers, Translations
<1>6. Blocks' = Blocks \cup {b}
  BY <1>3, <1>4 DEF Blocks
<1>7. b \notin Blocks
  BY <1>1, <1>3, <1>5 DEF Blocks, Numbers
<1>8. Numbering'
  BY <1>1, <1>3, <1>4, <1>5, <1>6 DEF Numbering, Numbers
<1>9. InStep = [phase |-> "open", used |-> Blocks, open |-> Blocks]
  BY <1>1, <1>5, StandingPhase
<1>10. InStep' = [phase |-> "open", used |-> Blocks \cup {b}, open |-> Blocks \cup {b}]
  BY <1>1, <1>4, <1>6 DEF InStep
<1> DEFINE e == Block("block_start", b)
<1>11. e.type = "block_start" /\ e.index = b /\ e \in AnyEvent /\ e # Nothing
  BY <1>5 DEF Block, AnyEvent, Nothing, Plain
<1> HIDE DEF e, b
<1>12. Fits(InStep, e)
  BY <1>7, <1>9, <1>11 DEF Fits
<1>13. See(InStep, e) = [phase |-> "open", used |-> Blocks \cup {b}, open |-> Blocks \cup {b}]
  BY <1>9, <1>11, <1>12, InStepKnows, SeeFitting
<1> QED
  BY <1>2, <1>8, <1>10, <1>11, <1>13 DEF KeepsStep, e, b

\* Steps that yield nothing and open no block.
SameBlocks(n) ==
  /\ Numbers(n) /\ n.begun /\ n.pc \in {"lines", "raised"} /\ n.text = tr.text
  /\ n.started = tr.started /\ n.stopped = {}
  /\ \A j \in tr.started : n.block[j] = tr.block[j]

LEMMA SilentStep ==
  ASSUME Numbering, tr.begun, tr.pc = "line", yielded' = Nothing,
         NEW n, tr' = n, SameBlocks(n)
  PROVE  KeepsStep
<1>1. Blocks' = Blocks
  BY DEF Blocks, SameBlocks
<1>2. tr.stopped = {}
  BY DEF Numbering
<1>3. Numbering'
  BY <1>1, <1>2 DEF Numbering, SameBlocks
<1>4. InStep' = InStep
  BY <1>1, <1>2 DEF InStep, SameBlocks
<1>5. Nothing \in AnyEvent
  BY DEF Nothing, Plain, AnyEvent, NoBlock
<1> QED
  BY <1>3, <1>4, <1>5 DEF KeepsStep

LEMMA EmptyLineTyped == EmptyLine \in Line
BY DEF EmptyLine, Line, Finish

LEMMA CallPassedStep ==
  ASSUME Numbering, PassCall \/ RaiseNameless, NoTool \notin Tool
  PROVE  KeepsStep
<1> DEFINE i == tr.line.call
           n == Numbered(i)
<1>1. i \in Tool /\ tr.pc = "line" /\ tr.begun
  BY DEF PassCall, RaiseNameless, AtCall, Numbering, Numbers, Translations, Line
<1>2. PICK p \in {"lines", "raised"} : tr' = [n EXCEPT !.pc = p, !.line = EmptyLine]
  BY DEF PassCall, RaiseNameless
<1>3. yielded' = Nothing
  BY DEF PassCall, RaiseNameless, AtCall, Running
<1>4. /\ Numbers(n) /\ n \in Translations /\ n.begun = tr.begun
      /\ n.text = tr.text /\ n.started = tr.started /\ n.stopped = {}
      /\ \A j \in tr.started : n.block[j] = tr.block[j]
  BY <1>1, NumberedTool DEF Numbers
<1> HIDE DEF n, i
<1> DEFINE m == [n EXCEPT !.pc = p, !.line = EmptyLine]
<1>5. /\ m.pc = p /\ m.begun = n.begun /\ m.text = n.text /\ m.next = n.next
      /\ m.block = n.block /\ m.started = n.started /\ m.stopped = n.stopped
      /\ m \in Translations
  BY <1>4, EmptyLineTyped DEF Translations
<1>6. tr' = m
  BY <1>2
<1> HIDE DEF m
<1>7. Numbers(m)
  BY <1>4, <1>5 DEF Numbers
<1>8. SameBlocks(m)
  BY <1>1, <1>4, <1>5, <1>7 DEF SameBlocks
<1> QED
  BY <1>1, <1>3, <1>6, <1>8, SilentStep

LEMMA LineDoneStep ==
  ASSUME Numbering, LineDone
  PROVE  KeepsStep
<1>1. /\ tr' = [tr EXCEPT !.pc = "lines", !.line = EmptyLine]
      /\ tr.pc = "line" /\ tr.begun /\ yielded' = Nothing
  BY DEF LineDone, Running
<1> DEFINE m == [tr EXCEPT !.pc = "lines", !.line = EmptyLine]
<1>2. /\ m.pc = "lines" /\ m.begun = tr.begun /\ m.text = tr.text /\ m.next = tr.next
      /\ m.block = tr.block /\ m.started = tr.started /\ m.stopped = tr.stopped
      /\ m \in Translations
  BY EmptyLineTyped DEF Numbering, Numbers, Translations
<1>3. tr' = m
  BY <1>1
<1> HIDE DEF m
<1>4. Numbers(m)
  BY <1>2 DEF Numbering, Numbers
<1>5. SameBlocks(m)
  BY <1>1, <1>2, <1>4 DEF SameBlocks, Numbering
<1> QED
  BY <1>1, <1>3, <1>5, SilentStep

LEMMA SendArgumentsStep ==
  ASSUME Numbering, SendArguments, NoTool \notin Tool
  PROVE  KeepsStep
<1> DEFINE b == tr.block[tr.line.call]
<1>1. /\ tr.pc = "line" /\ tr.begun /\ tr.line.call \in tr.started
      /\ tr' = [tr EXCEPT !.pc = "lines", !.line = EmptyLine]
      /\ yielded' = Block("block_delta", b)
  BY DEF SendArguments, AtCall, Yield
<1>2. /\ tr'.pc = "lines" /\ tr'.begun = tr.begun /\ tr'.next = tr.next
      /\ tr'.text = tr.text /\ tr'.block = tr.block
      /\ tr'.started = tr.started /\ tr'.stopped = tr.stopped
      /\ tr' \in Translations
  BY <1>1, EmptyLineTyped DEF Numbering, Numbers, Translations
<1>3. b \in Int /\ tr.stopped = {} /\ tr'.stopped = {} /\ b \in Blocks
  BY <1>1, <1>2 DEF Numbering, Numbers, Translations, Blocks
<1>4. Blocks' = Blocks
  BY <1>2 DEF Blocks
<1>6. Numbering'
  BY <1>1, <1>2, <1>3, <1>4 DEF Numbering, Numbers
<1>7. InStep = [phase |-> "open", used |-> Blocks, open |-> Blocks]
  BY <1>1, <1>3, StandingPhase
<1>8. InStep' = [phase |-> "open", used |-> Blocks, open |-> Blocks]
  BY <1>1, <1>2, <1>3, <1>4 DEF InStep
<1> DEFINE e == Block("block_delta", b)
<1>9. e.type = "block_delta" /\ e.index = b /\ e \in AnyEvent /\ e # Nothing
  BY <1>3 DEF Block, AnyEvent, Nothing, Plain
<1> HIDE DEF e, b
<1>10. Fits(InStep, e)
  BY <1>3, <1>7, <1>9 DEF Fits
<1>11. See(InStep, e) = [phase |-> "open", used |-> Blocks, open |-> Blocks]
  BY <1>7, <1>9, <1>10, InStepKnows, SeeFitting
<1> QED
  BY <1>1, <1>6, <1>8, <1>9, <1>11 DEF KeepsStep, e

LEMMA EndOfLinesStep ==
  ASSUME Numbering, EndOfLines
  PROVE  Numbering' /\ yielded' = Nothing /\ InStep' = InStep
<1>1. /\ tr'.pc = "closing" /\ tr'.begun = tr.begun /\ tr'.next = tr.next
      /\ tr'.text = tr.text /\ tr'.block = tr.block /\ tr'.started = tr.started
      /\ tr'.stopped = tr.stopped /\ tr.pc = "lines" /\ yielded' = Nothing
      /\ tr' \in Translations
  BY DEF EndOfLines, Running, Numbering, Numbers, Translations
<1>2. Blocks' = Blocks
  BY <1>1 DEF Blocks
<1>3. Numbering'
  BY <1>1, <1>2 DEF Numbering, Numbers
<1> QED
  BY <1>1, <1>2, <1>3 DEF InStep

LEMMA StopBlockStep ==
  ASSUME Numbering, NEW b \in ToStop, StopBlock(b)
  PROVE  KeepsStep
<1>1. /\ tr.pc = "closing" /\ tr.begun /\ b \in Blocks /\ b \notin tr.stopped
      /\ tr' = [tr EXCEPT !.stopped = @ \cup {b}]
      /\ yielded' = Block("block_stop", b)
  BY DEF StopBlock, Yield, ToStop
<1>2. b \in Int
  BY <1>1 DEF Blocks, Numbering, Numbers, Translations
<1>3. /\ tr'.pc = tr.pc /\ tr'.begun = tr.begun /\ tr'.next = tr.next
      /\ tr'.text = tr.text /\ tr'.block = tr.block /\ tr'.started = tr.started
      /\ tr'.stopped = tr.stopped \cup {b} /\ tr' \in Translations
  BY <1>1, <1>2 DEF Numbering, Numbers, Translations
<1>4. Blocks' = Blocks
  BY <1>3 DEF Blocks
<1>5. Numbering'
  BY <1>1, <1>3, <1>4 DEF Numbering, Numbers
<1>6. InStep = [phase |-> "open", used |-> Blocks, open |-> Blocks \ tr.stopped]
  BY <1>1, StandingPhase
<1>7. InStep' = [phase |-> "open", used |-> Blocks, open |-> (Blocks \ tr.stopped) \ {b}]
  <2>1. Blocks \ (tr.stopped \cup {b}) = (Blocks \ tr.stopped) \ {b}
    OBVIOUS
  <2> QED
    BY <1>1, <1>3, <1>4, <2>1 DEF InStep
<1> DEFINE e == Block("block_stop", b)
<1>8. e.type = "block_stop" /\ e.index = b /\ e \in AnyEvent /\ e # Nothing
  BY <1>2 DEF Block, AnyEvent, Nothing, Plain
<1> HIDE DEF e
<1>9. Fits(InStep, e)
  BY <1>1, <1>6, <1>8 DEF Fits
<1>10. See(InStep, e) = [phase |-> "open", used |-> Blocks, open |-> (Blocks \ tr.stopped) \ {b}]
  <2>1. See(InStep, e) = [phase |-> InStep.phase, used |-> InStep.used,
                          open |-> InStep.open \ {b}]
    BY <1>8, <1>9, InStepKnows, SeeFitting
  <2>2. InStep.phase = "open" /\ InStep.used = Blocks /\ InStep.open = Blocks \ tr.stopped
    BY <1>6
  <2> QED
    BY <2>1, <2>2
<1> QED
  BY <1>1, <1>5, <1>7, <1>8, <1>10 DEF KeepsStep, e

LEMMA DeltaMessageStep ==
  ASSUME Numbering, DeltaMessage
  PROVE  KeepsStep
<1> DEFINE e == [type |-> "message_delta", index |-> NoBlock, reason |-> StopReason]
<1>1. /\ tr.pc = "closing" /\ tr.begun /\ Blocks \subseteq tr.stopped
      /\ tr' = [tr EXCEPT !.pc = "ending"] /\ yielded' = e
  BY DEF DeltaMessage, Yield, ToStop
<1>2. /\ tr'.pc = "ending" /\ tr'.begun = tr.begun /\ tr'.next = tr.next
      /\ tr'.text = tr.text /\ tr'.block = tr.block /\ tr'.started = tr.started
      /\ tr'.stopped = tr.stopped /\ tr' \in Translations
  BY <1>1 DEF Numbering, Numbers, Translations
<1>3. Blocks' = Blocks /\ Blocks \ tr.stopped = {}
  BY <1>1, <1>2 DEF Blocks
<1>4. Numbering'
  BY <1>1, <1>2, <1>3 DEF Numbering, Numbers
<1>5. InStep = [phase |-> "open", used |-> Blocks, open |-> {}]
  BY <1>1, <1>3, StandingPhase
<1>6. InStep' = [phase |-> "closing", used |-> Blocks, open |-> {}]
  BY <1>1, <1>2, <1>3 DEF InStep
<1>7. StopReason \in {"end_turn", "max_tokens", "tool_use"}
  BY DEF StopReason
<1>8. e.type = "message_delta" /\ e \in AnyEvent /\ e # Nothing
  BY <1>7 DEF AnyEvent, Nothing, Plain, NoBlock
<1> HIDE DEF e
<1>9. Fits(InStep, e)
  BY <1>5, <1>8 DEF Fits
<1>10. See(InStep, e) = [phase |-> "closing", used |-> Blocks, open |-> {}]
  BY <1>5, <1>8, <1>9, InStepKnows, SeeFitting
<1> QED
  BY <1>1, <1>4, <1>6, <1>8, <1>10 DEF KeepsStep

LEMMA StopMessageStep ==
  ASSUME Numbering, StopMessage
  PROVE  KeepsStep
<1>1. /\ tr.pc = "ending" /\ tr' = [tr EXCEPT !.pc = "done"]
      /\ yielded' = Plain("message_stop")
  BY DEF StopMessage, Yield
<1>2. /\ tr'.pc = "done" /\ tr'.begun = tr.begun /\ tr'.next = tr.next
      /\ tr'.text = tr.text /\ tr'.block = tr.block /\ tr'.started = tr.started
      /\ tr'.stopped = tr.stopped /\ tr' \in Translations
  BY <1>1 DEF Numbering, Numbers, Translations
<1>3. Blocks' = Blocks /\ tr.begun
  BY <1>1, <1>2 DEF Blocks, Numbering
<1>4. Numbering'
  BY <1>1, <1>2, <1>3 DEF Numbering, Numbers
<1>5. InStep = [phase |-> "closing", used |-> Blocks, open |-> Blocks \ tr.stopped]
  BY <1>1, <1>3 DEF InStep
<1>6. InStep' = [phase |-> "ended", used |-> Blocks, open |-> Blocks \ tr.stopped]
  BY <1>1, <1>2, <1>3 DEF InStep
<1> DEFINE e == Plain("message_stop")
<1>8. e.type = "message_stop" /\ e \in AnyEvent /\ e # Nothing
  BY DEF AnyEvent, Nothing, Plain, NoBlock
<1> HIDE DEF e
<1>9. Fits(InStep, e)
  BY <1>5, <1>8 DEF Fits
<1>10. See(InStep, e) = [phase |-> "ended", used |-> Blocks, open |-> Blocks \ tr.stopped]
  BY <1>5, <1>8, <1>9, InStepKnows, SeeFitting
<1> QED
  BY <1>1, <1>4, <1>6, <1>8, <1>10 DEF KeepsStep, e

LEMMA TranslateStep ==
  ASSUME Numbering, Translate, NoTool \notin Tool
  PROVE  KeepsStep
BY BeginMessageStep, OpenTextStep, SendTextStep, OpenToolStep, SendArgumentsStep,
   CallPassedStep, LineDoneStep, StopBlockStep, DeltaMessageStep, StopMessageStep
   DEF Translate

\* What the generator and its client have in common.
TInv == Numbering /\ yielded \in AnyEvent /\ Taken(client) = InStep

LEMMA NothingIsAnEvent == Nothing \in AnyEvent
BY DEF Nothing, Plain, AnyEvent, NoBlock

\* Whatever lines the upstream sends, the translation is at every moment a
\* prefix of one Messages stream, and a translation that ended is all of one.
THEOREM WellFormedTheorem == TSpec => []WellFormed
<1>1. TInit => TInv
  BY NewTranslationNumbered, NothingIsAnEvent DEF TInit, TInv, Taken
<1>2. ASSUME TInv, [TNext]_tvars
      PROVE  TInv'
  <2>1. CASE \E l \in Line : TakeLine(l)
    BY <1>2, <2>1, TakeLineStep, NothingIsAnEvent DEF TInv, Taken, TakeLine, Running
  <2>2. CASE EndOfLines
    BY <1>2, <2>2, EndOfLinesStep, NothingIsAnEvent DEF TInv, Taken, EndOfLines, Running
  <2>3. CASE Translate
    <3>1. yielded = Nothing /\ client' = client
      BY <2>3 DEF Translate, BeginMessage, OpenText, SendText, OpenTool, SendArguments,
         PassCall, RaiseNameless, LineDone, StopBlock, DeltaMessage, StopMessage, AtCall,
         Running, Yield
    <3>2. KeepsStep
      BY <1>2, <2>3, TranslateStep, SurfaceRoutes DEF TInv
    <3> QED
      BY <1>2, <3>1, <3>2 DEF TInv, Taken, KeepsStep
  <2>4. CASE Deliver
    <3>1. Numbering' /\ InStep' = InStep
      BY <1>2, <2>4 DEF Deliver, TInv, Numbering, InStep, Blocks
    <3> QED
      BY <1>2, <2>4, <3>1, NothingIsAnEvent DEF Deliver, TInv, Taken
  <2>5. CASE UNCHANGED tvars
    <3>1. tr' = tr /\ yielded' = yielded /\ client' = client
      BY <2>5 DEF tvars
    <3>2. Numbering' /\ InStep' = InStep
      BY <1>2, <3>1 DEF TInv, Numbering, InStep, Blocks
    <3> QED
      BY <1>2, <3>1, <3>2 DEF TInv, Taken
  <2> QED
    BY <1>2, <2>1, <2>2, <2>3, <2>4, <2>5 DEF TNext
<1>3. TInv => WellFormed
  <2> SUFFICES ASSUME TInv PROVE WellFormed
    OBVIOUS
  <2>1. InStep.phase # "confused" /\ (tr.pc = "done" => InStep.phase = "ended")
    BY DEF TInv, InStep, Numbering
  <2>2. CASE yielded = Nothing
    BY <2>1, <2>2 DEF TInv, Taken, WellFormed
  <2>3. CASE yielded # Nothing
    <3>1. See(client, yielded) = InStep
      BY <2>3 DEF TInv, Taken
    <3>2. ~Fits(client, yielded) => See(client, yielded) = [client EXCEPT !.phase = "confused"]
      BY DEF See
    <3>3. client.phase # "confused"
      BY <2>1, <3>1, <3>2 DEF Fits, InStep
    <3> QED
      BY <2>3, <3>3 DEF WellFormed
  <2> QED
    BY <2>2, <2>3
<1> QED
  BY <1>1, <1>2, <1>3, PTL DEF TSpec

----------------------------------------------------------------------------
(* Reading events *)

LEMMA SeeKnows ==
  ASSUME NEW c, Knows(c), NEW e
  PROVE  Knows(See(c, e)) /\ (c.phase = "confused" => See(c, e).phase = "confused")
<1>1. CASE ~Fits(c, e)
  <2> DEFINE d == [c EXCEPT !.phase = "confused"]
  <2>1. See(c, e) = d
    BY <1>1 DEF See
  <2>2. d.phase = "confused" /\ d.used = c.used /\ d.open = c.open
        /\ d = [phase |-> "confused", used |-> c.used, open |-> c.open]
    BY DEF Knows
  <2> HIDE DEF d
  <2> QED
    BY <2>1, <2>2 DEF Knows
<1>2. CASE Fits(c, e)
  <2>1. c.phase # "confused"
    BY <1>2 DEF Fits
  <2>2. e.type \in {"message_start", "block_start", "block_delta", "block_stop",
                    "message_delta", "message_stop", "error"}
    BY <1>2 DEF Fits
  <2> QED
    BY <1>2, <2>1, <2>2, SeeFitting DEF Knows
<1> QED
  BY <1>1, <1>2

LEMMA TakenPhase ==
  ASSUME Knows(client), Taken(client).phase # "confused"
  PROVE  client.phase # "confused"
BY SeeKnows DEF Taken

LEMMA ReadsNone ==
  ASSUME NEW c, c.phase # "confused"
  PROVE  Reads(c, <<>>, c)
<1> DEFINE f == [i \in 0..0 |-> c]
<1>1. Len(<<>>) = 0 /\ f[0] = c
  OBVIOUS
<1>2. \A i \in 0..0 : f[i] = c
  OBVIOUS
<1> HIDE DEF f
<1> QED
  BY <1>1, <1>2 DEF Reads

LEMMA ReadsMore ==
  ASSUME NEW S, NEW s \in Seq(S), NEW c, NEW d, NEW e \in S, Reads(c, s, d),
         See(d, e).phase # "confused"
  PROVE  Reads(c, Append(s, e), See(d, e))
<1>1. PICK f : /\ f[0] = c /\ f[Len(s)] = d
               /\ \A i \in 0..Len(s) : f[i].phase # "confused"
               /\ \A i \in 1..Len(s) : f[i] = See(f[i - 1], s[i])
  BY DEF Reads
<1> DEFINE n == Len(s)
           m == Append(s, e)
           g == [i \in 0..n + 1 |-> IF i = n + 1 THEN See(d, e) ELSE f[i]]
<1>2. n \in Nat /\ Len(m) = n + 1 /\ m[n + 1] = e /\ \A i \in 1..n : m[i] = s[i]
  OBVIOUS
<1>3. g[n + 1] = See(d, e) /\ \A i \in 0..n : g[i] = f[i]
  BY <1>2
<1> HIDE DEF g, m, n
<1>4. g[0] = c /\ g[n] = d
  BY <1>1, <1>2, <1>3 DEF n
<1>5. \A i \in 0..n + 1 : g[i].phase # "confused"
  <2>1. \A i \in 0..n : g[i].phase # "confused"
    BY <1>1, <1>3 DEF n
  <2>2. \A i \in 0..n + 1 : i \in 0..n \/ i = n + 1
    BY <1>2
  <2> QED
    BY <1>3, <2>1, <2>2
<1>6. \A i \in 1..n + 1 : g[i] = See(g[i - 1], m[i])
  <2>1. ASSUME NEW i \in 1..n PROVE g[i] = See(g[i - 1], m[i])
    <3>1. i \in 0..n /\ i - 1 \in 0..n
      BY <1>2
    <3> QED
      BY <1>1, <1>2, <1>3, <3>1 DEF n
  <2> TAKE i \in 1..n + 1
  <2>3. CASE i \in 1..n
    BY <2>1, <2>3
  <2>4. CASE i = n + 1
    <3>1. i - 1 = n /\ g[i] = See(d, e) /\ m[i] = e
      BY <1>2, <1>3, <2>4
    <3> QED
      BY <1>4, <3>1
  <2> QED
    BY <1>2, <2>3, <2>4
<1>7. g[0] = c /\ g[Len(m)] = See(d, e)
  BY <1>2, <1>3, <1>4
<1>8. Reads(c, m, See(d, e))
  BY <1>2, <1>5, <1>6, <1>7 DEF Reads
<1> QED
  BY <1>8 DEF m

LEMMA ReadsFirst ==
  ASSUME NEW S, NEW s \in Seq(S), s # <<>>, NEW c, NEW d, Reads(c, s, d)
  PROVE  Reads(See(c, Head(s)), Tail(s), d)
<1>1. PICK f : /\ f[0] = c /\ f[Len(s)] = d
               /\ \A i \in 0..Len(s) : f[i].phase # "confused"
               /\ \A i \in 1..Len(s) : f[i] = See(f[i - 1], s[i])
  BY DEF Reads
<1> DEFINE n == Len(s)
           m == Tail(s)
           g == [i \in 0..n - 1 |-> f[i + 1]]
<1>2. n \in Nat /\ n > 0 /\ Len(m) = n - 1 /\ s[1] = Head(s)
      /\ \A i \in 1..n - 1 : m[i] = s[i + 1]
  OBVIOUS
<1>3. \A i \in 0..n - 1 : g[i] = f[i + 1]
  OBVIOUS
<1> HIDE DEF g, m, n
<1>4. \A i \in 0..n - 1 : g[i].phase # "confused"
  <2>1. \A i \in 0..n - 1 : i + 1 \in 0..n
    BY <1>2
  <2> QED
    BY <1>1, <1>3, <2>1 DEF n
<1>5. \A i \in 1..n - 1 : g[i] = See(g[i - 1], m[i])
  <2> TAKE i \in 1..n - 1
  <2>1. i \in 0..n - 1 /\ i - 1 \in 0..n - 1 /\ i + 1 \in 1..n /\ (i - 1) + 1 = i /\ (i + 1) - 1 = i
    BY <1>2
  <2>2. g[i] = f[i + 1] /\ g[i - 1] = f[i]
    BY <1>3, <2>1
  <2>3. f[i + 1] = See(f[i], s[i + 1])
    BY <1>1, <2>1 DEF n
  <2> QED
    BY <1>2, <2>2, <2>3
<1>6. g[0] = See(c, Head(s))
  <2>1. 0 \in 0..n - 1 /\ 1 \in 1..n /\ 0 + 1 = 1 /\ 1 - 1 = 0
    BY <1>2
  <2>2. f[1] = See(f[0], s[1])
    BY <1>1, <2>1 DEF n
  <2>3. g[0] = f[1]
    BY <1>3, <2>1
  <2> QED
    BY <1>1, <1>2, <2>2, <2>3
<1>7. g[n - 1] = d
  <2>1. n - 1 \in 0..n - 1 /\ (n - 1) + 1 = n
    BY <1>2
  <2> QED
    BY <1>1, <1>3, <2>1 DEF n
<1>8. Reads(See(c, Head(s)), m, d)
  BY <1>2, <1>4, <1>5, <1>6, <1>7 DEF Reads
<1> QED
  BY <1>8 DEF m

LEMMA ReadsEnds ==
  ASSUME NEW S, NEW s \in Seq(S), NEW c, NEW d, Reads(c, s, d)
  PROVE  c.phase # "confused" /\ (s = <<>> => c = d)
<1>1. Len(s) \in Nat /\ 0 \in 0..Len(s) /\ (s = <<>> => Len(s) = 0)
  OBVIOUS
<1> QED
  BY <1>1 DEF Reads

----------------------------------------------------------------------------
(* What the handler's operators make of it *)

LEMMA RequestKinds ==
  ASSUME NEW q \in Requests
  PROVE  /\ q.surface \in {"openai", "anthropic", "other"}
         /\ q.stream \in BOOLEAN /\ q.optIn \in BOOLEAN
         /\ q.surface = "openai" => q.stream
         /\ q.surface = "other" => q.stream
         /\ q.kind = "subscription" => q.stream /\ q.surface # "openai"
<1> DEFINE bad == [Default EXCEPT !.valid = FALSE]
<1>1. \/ \E o, g, v \in BOOLEAN : q = ChatRequest(o, g, v)
      \/ \E s, w, t, g \in BOOLEAN : q = MessagesRequest(s, w, t, g)
      \/ \E u \in {"anthropic", "other"}, a, o \in BOOLEAN : q = PlanRequest(u, a, o)
      \/ q = bad
  BY DEF Requests
<1>2. ASSUME NEW o \in BOOLEAN, NEW g \in BOOLEAN, NEW v \in BOOLEAN, q = ChatRequest(o, g, v)
      PROVE  q.surface = "openai" /\ q.stream = TRUE /\ q.kind = "api_key" /\ q.optIn = o
  BY <1>2 DEF ChatRequest, Default
<1>3. ASSUME NEW s \in BOOLEAN, NEW w \in BOOLEAN, NEW t \in BOOLEAN, NEW g \in BOOLEAN,
             q = MessagesRequest(s, w, t, g)
      PROVE  q.surface = "anthropic" /\ q.stream = s /\ q.kind = "api_key" /\ q.optIn = FALSE
  BY <1>3 DEF MessagesRequest, Default
<1>4. ASSUME NEW u \in {"anthropic", "other"}, NEW a \in BOOLEAN, NEW o \in BOOLEAN,
             q = PlanRequest(u, a, o)
      PROVE  q.surface = u /\ q.stream = TRUE /\ q.kind = "subscription" /\ q.optIn = FALSE
  BY <1>4 DEF PlanRequest, Default
<1>5. ASSUME q = bad
      PROVE  q.surface = "anthropic" /\ q.stream = TRUE /\ q.kind = "api_key" /\ q.optIn = FALSE
  BY <1>5 DEF Default
<1> HIDE DEF bad
<1> QED
  BY <1>1, <1>2, <1>3, <1>4, <1>5

LEMMA NewCallTyped ==
  ASSUME NEW r \in Route, NEW v \in Verdicts
  PROVE  /\ NewCall(r, v) \in Calls
         /\ LET c == NewCall(r, v)
            IN  /\ c.route = r /\ c.verdict = v /\ c.status = "pending" /\ ~c.committed
                /\ ~c.metered /\ c.errors = 0
BY DEF NewCall, Calls

LEMMA NoVerdictTyped == NoVerdict \in Verdicts
BY DEF NoVerdict, Verdicts

LEMMA IdleTyped ==
  ASSUME NEW q \in Requests
  PROVE  Idle(q) \in Handlers
<1>1. NothingGot \in [text : BOOLEAN, tools : BOOLEAN, finish : Finish]
  BY DEF NothingGot, Finish
<1>2. MaxEscalations \in Nat
  BY SurfaceRoutes
<1> QED
  BY <1>1, <1>2, NoVerdictTyped DEF Idle, Handlers, Steps

LEMMA StartFields ==
  ASSUME NEW s \in Handlers, NEW r \in Route, NEW v \in Verdicts
  PROVE  LET n == Start(s, r, v)
         IN  /\ n \in Handlers /\ n.pc = "calling" /\ n.req = s.req
             /\ n.buffered = s.buffered /\ n.appended = s.appended /\ n.shown = s.shown
             /\ n.budget = s.budget /\ n.checked = s.checked
             /\ n.held = <<>> /\ n.lines = 0 /\ n.script = <<>> /\ ~n.scripted
             /\ n.got = NothingGot
             /\ n.calls # <<>> /\ Len(n.calls) = Len(s.calls) + 1
             /\ n.calls[Len(n.calls)] = NewCall(r, v)
             /\ \A i \in 1..Len(s.calls) : n.calls[i] = s.calls[i]
<1> DEFINE c == NewCall(r, v)
           n == Start(s, r, v)
<1>1. c \in Calls
  BY NewCallTyped
<1>2. s.calls \in Seq(Calls)
  BY DEF Handlers
<1> HIDE DEF c
<1>3. NothingGot \in [text : BOOLEAN, tools : BOOLEAN, finish : Finish]
  BY DEF NothingGot, Finish
<1>4. /\ n.pc = "calling" /\ n.req = s.req
      /\ n.buffered = s.buffered /\ n.appended = s.appended /\ n.shown = s.shown
      /\ n.budget = s.budget /\ n.checked = s.checked
      /\ n.held = <<>> /\ n.lines = 0 /\ n.script = <<>> /\ ~n.scripted
      /\ n.got = NothingGot /\ n.calls = Append(s.calls, c)
  BY DEF Start, Handlers, c
<1>5. Append(s.calls, c) \in Seq(Calls)
  BY <1>1, <1>2
<1>6. n \in Handlers
  <2>1. n = [s EXCEPT !.pc = "calling", !.calls = Append(s.calls, c), !.held = <<>>,
                      !.lines = 0, !.script = <<>>, !.scripted = FALSE, !.got = NothingGot]
    BY DEF Start, c
  <2>2. <<>> \in Seq(AnyEvent) /\ <<>> \in Seq(Line \cup Said)
    OBVIOUS
  <2>3. ASSUME NEW x \in Seq(AnyEvent), NEW y \in Seq(Line \cup Said)
        PROVE  [s EXCEPT !.pc = "calling", !.calls = Append(s.calls, c), !.held = x,
                         !.lines = 0, !.script = y, !.scripted = FALSE, !.got = NothingGot]
                 \in Handlers
    BY <1>3, <1>5 DEF Handlers, Steps
  <2>4. [s EXCEPT !.pc = "calling", !.calls = Append(s.calls, c), !.held = <<>>,
                  !.lines = 0, !.script = <<>>, !.scripted = FALSE, !.got = NothingGot] \in Handlers
    BY ONLY <2>2, <2>3
  <2> QED
    BY ONLY <2>1, <2>4
<1> HIDE DEF n
<1>7. /\ n.calls # <<>> /\ Len(n.calls) = Len(s.calls) + 1
      /\ n.calls[Len(n.calls)] = c
      /\ \A i \in 1..Len(s.calls) : n.calls[i] = s.calls[i]
  BY <1>1, <1>2, <1>4
<1> QED
  BY <1>4, <1>6, <1>7 DEF n, c

\* Only the current call's books differ.
Rebooked(s, n, c) ==
  /\ n.calls \in Seq(Calls) /\ Len(n.calls) = Len(s.calls) /\ n.calls # <<>>
  /\ n.calls[Len(s.calls)] = c /\ c \in Calls
  /\ c.route = s.calls[Len(s.calls)].route
  /\ \A i \in 1..Len(s.calls) : i # Len(s.calls) => n.calls[i] = s.calls[i]

LEMMA Rebooking ==
  ASSUME NEW s \in Handlers, s.calls # <<>>, NEW c \in Calls, NEW n,
         c.route = s.calls[Len(s.calls)].route,
         n.calls = [s.calls EXCEPT ![Len(s.calls)] = c]
  PROVE  Rebooked(s, n, c)
<1>1. s.calls \in Seq(Calls) /\ Len(s.calls) \in 1..Len(s.calls)
  BY DEF Handlers
<1> QED
  BY <1>1 DEF Rebooked

LEMMA LastCallTyped ==
  ASSUME NEW s \in Handlers, s.calls # <<>>
  PROVE  /\ Len(s.calls) \in Nat \ {0} /\ s.calls[Len(s.calls)] \in Calls
         /\ Len(s.calls) \in 1..Len(s.calls) /\ s.calls \in Seq(Calls)
BY DEF Handlers

LEMMA BookedFields ==
  ASSUME NEW o \in Calls, NEW b \in {"ok", "truncated", "upstream_error", "transport_error"}
  PROVE  LET c == Booked(o, b)
         IN  /\ c \in Calls /\ c.status = b /\ c.verdict = o.verdict /\ c.route = o.route
             /\ c.committed <=> b \in {"ok", "truncated"}
             /\ c.metered <=> b \in {"ok", "truncated"}
             /\ b = "ok" => c.errors = o.errors
<1> DEFINE k == b \in {"ok", "truncated"}
           e == IF b = "ok" THEN o.errors ELSE o.errors + 1
           c == [o EXCEPT !.status = b, !.committed = k, !.metered = k, !.errors = e]
<1>1. Booked(o, b) = c
  BY DEF Booked
<1>2. k \in BOOLEAN /\ e \in Nat /\ (b = "ok" => e = o.errors)
  BY DEF Calls
<1>3. k <=> b \in {"ok", "truncated"}
  OBVIOUS
<1> HIDE DEF k, e
<1>4. c \in Calls
  BY <1>2 DEF Calls
<1>5. c.status = b /\ c.verdict = o.verdict /\ c.route = o.route /\ c.errors = e
  BY DEF Calls
<1>6. c.committed = k /\ c.metered = k
  BY DEF Calls
<1> HIDE DEF c
<1> QED
  BY <1>1, <1>2, <1>3, <1>4, <1>5, <1>6

LEMMA BookFields ==
  ASSUME NEW s \in Handlers, s.calls # <<>>,
         NEW b \in {"ok", "truncated", "upstream_error", "transport_error"}
  PROVE  LET n == Book(s, b)
             c == Booked(s.calls[Len(s.calls)], b)
         IN  /\ n = [s EXCEPT !.calls = [s.calls EXCEPT ![Len(s.calls)] = c]]
             /\ n \in Handlers /\ Rebooked(s, n, c)
<1> DEFINE n == Book(s, b)
           o == s.calls[Len(s.calls)]
           c == Booked(o, b)
<1>1. o \in Calls /\ s.calls \in Seq(Calls) /\ Len(s.calls) \in 1..Len(s.calls)
  BY LastCallTyped
<1>2. n = [s EXCEPT !.calls = [s.calls EXCEPT ![Len(s.calls)] = c]]
  BY DEF Book
<1>3. c \in Calls /\ c.route = o.route
  BY <1>1, BookedFields
<1> HIDE DEF c, n
<1>4. [s.calls EXCEPT ![Len(s.calls)] = c] \in Seq(Calls)
  BY <1>1, <1>3
<1>5. n \in Handlers /\ n.calls = [s.calls EXCEPT ![Len(s.calls)] = c]
  BY <1>2, <1>4 DEF Handlers
<1>6. Rebooked(s, n, c)
  BY <1>3, <1>5, Rebooking
<1> QED
  BY <1>2, <1>5, <1>6 DEF n, c

----------------------------------------------------------------------------
(* The handler's invariant *)

\* What the books of the call now under way have to say.
OwnBooks(q, c) ==
  /\ ~(c.route = Plan /\ q.surface # "openai") => (c.committed <=> c.metered)
  /\ c.metered => c.status \in {"ok", "truncated"}
  /\ c.status = "ok" => c.errors = 0

LEMMA TrailRebooked ==
  ASSUME NEW s \in Handlers, TrailBooks(s), NEW n, NEW c, Rebooked(s, n, c),
         s.calls # <<>>, n.req = s.req, OwnBooks(s.req, c)
  PROVE  TrailBooks(n)
<1> DEFINE k == Len(s.calls)
<1>1. k \in Nat \ {0} /\ Len(n.calls) = k /\ n.calls[k] = c /\ c.route = s.calls[k].route
      /\ \A i \in 1..k : i # k => n.calls[i] = s.calls[i]
  BY LastCallTyped DEF Rebooked
<1> SUFFICES ASSUME NEW i \in 1..k
             PROVE  LET d == n.calls[i]
                        p == d.route = Plan /\ s.req.surface # "openai"
                    IN  /\ ~p => (d.committed <=> d.metered)
                        /\ d.metered => d.status \in {"ok", "truncated"}
                        /\ d.status = "ok" => d.errors = IF i < k THEN 1 ELSE 0
                        /\ d.status = "pending" /\ i < k => p
                        /\ ~p /\ i < k => d.verdict.to = n.calls[i + 1].route
  BY <1>1 DEF TrailBooks
<1>2. CASE i = k
  BY <1>1, <1>2 DEF OwnBooks
<1>3. CASE i # k
  <2>1. i < k /\ i + 1 \in 1..k /\ n.calls[i] = s.calls[i]
    BY <1>1, <1>3
  <2>2. n.calls[i + 1].route = s.calls[i + 1].route
    BY <1>1, <2>1
  <2> HIDE DEF k
  <2> QED
    BY <2>1, <2>2 DEF TrailBooks, k
<1> QED
  BY <1>2, <1>3

\* A call is over, and another one is made.
LEMMA TrailExtended ==
  ASSUME NEW s \in Handlers, TrailBooks(s), NEW n, n.req = s.req,
         NEW r \in Route, NEW v \in Verdicts,
         Len(n.calls) = Len(s.calls) + 1, n.calls[Len(n.calls)] = NewCall(r, v),
         \A i \in 1..Len(s.calls) : i # Len(s.calls) => n.calls[i] = s.calls[i],
         s.calls # <<>> =>
           LET c == n.calls[Len(s.calls)]
               p == c.route = Plan /\ s.req.surface # "openai"
           IN  /\ c.route = s.calls[Len(s.calls)].route
               /\ ~p => (c.committed <=> c.metered)
               /\ c.metered => c.status \in {"ok", "truncated"}
               /\ c.status = "ok" => c.errors = 1
               /\ c.status = "pending" => p
               /\ ~p => c.verdict.to = r
  PROVE  TrailBooks(n)
<1> DEFINE k == Len(s.calls)
<1>1. k \in Nat /\ (k # 0 => s.calls # <<>>)
  BY DEF Handlers
<1> SUFFICES ASSUME NEW i \in 1..k + 1
             PROVE  LET d == n.calls[i]
                        p == d.route = Plan /\ s.req.surface # "openai"
                    IN  /\ ~p => (d.committed <=> d.metered)
                        /\ d.metered => d.status \in {"ok", "truncated"}
                        /\ d.status = "ok" => d.errors = IF i < k + 1 THEN 1 ELSE 0
                        /\ d.status = "pending" /\ i < k + 1 => p
                        /\ ~p /\ i < k + 1 => d.verdict.to = n.calls[i + 1].route
  BY DEF TrailBooks
<1>2. CASE i = k + 1
  <2>1. /\ n.calls[i] = NewCall(r, v) /\ ~(i < k + 1)
    BY <1>1, <1>2
  <2> QED
    BY <2>1, NewCallTyped
<1>3. CASE i = k
  <2>1. /\ s.calls # <<>> /\ i < k + 1 /\ n.calls[i + 1].route = r
    BY <1>1, <1>3, NewCallTyped
  <2> QED
    BY <1>3, <2>1
<1>4. CASE i \in 1..k /\ i # k
  <2>1. i < k /\ i < k + 1 /\ i + 1 \in 1..k /\ n.calls[i] = s.calls[i]
    BY <1>1, <1>4
  <2>2. n.calls[i + 1].route = s.calls[i + 1].route
    <3>1. CASE i + 1 = k
      BY <1>1, <3>1, <2>1
    <3>2. CASE i + 1 # k
      BY <1>1, <3>2, <2>1
    <3> QED
      BY <3>1, <3>2
  <2> HIDE DEF k
  <2> QED
    BY <1>4, <2>1, <2>2 DEF TrailBooks, k
<1> QED
  BY <1>1, <1>2, <1>3, <1>4

LEMMA NewFields ==
  ASSUME HInv, h.pc = "new"
  PROVE  /\ h.calls = <<>> /\ ~h.buffered /\ ~h.appended /\ h.held = <<>> /\ h.shown = <<>>
         /\ h.lines = 0 /\ ~h.scripted /\ h.script = <<>> /\ h.got = NothingGot
         /\ h \in Handlers /\ h.req \in Requests /\ Len(h.calls) = 0
         /\ yielded = Nothing /\ Knows(client)
<1>1. h = Idle(h.req) /\ yielded = Nothing
  BY DEF HInv, Sound, Placed, Quiet
<1> QED
  BY <1>1 DEF HInv, Sound, Idle, Handlers

\* No call and no event yet.
LEMMA NoCallYet ==
  ASSUME NEW s \in Handlers, s.calls = <<>>
  PROVE  CallBooks(s) /\ TrailBooks(s) /\ RejectedKept(s)
BY DEF CallBooks, TrailBooks, RejectedKept

LEMMA RefuseHInv ==
  ASSUME HInv, Refuse \/ RouteOther
  PROVE  HInv'
<1>1. PICK p \in {"done", "forwarding"} :
        /\ h.pc = "new" /\ h' = [h EXCEPT !.pc = p] /\ UNCHANGED <<yielded, client>>
        /\ p = "forwarding" => h.req.surface = "other"
  BY DEF Refuse, RouteOther, Become
<1> DEFINE n == [h EXCEPT !.pc = p]
<1>2. /\ n \in Handlers /\ n.pc = p /\ n.req = h.req /\ n.calls = <<>> /\ ~n.buffered
      /\ ~n.appended /\ n.held = <<>> /\ n.shown = <<>> /\ n.lines = 0 /\ ~n.scripted
      /\ n.script = <<>> /\ n.got = NothingGot
  BY <1>1, NewFields DEF Handlers, Steps
<1>3. h' = n
  BY <1>1
<1> HIDE DEF n
<1>4. Placed(n)
  BY <1>1, <1>2, NewFields, RequestKinds DEF Placed
<1>5. ShownInOrder(n)
  BY <1>2 DEF ShownInOrder
<1>6. Sound(n)
  BY <1>2, <1>4, <1>5, NoCallYet DEF Sound
<1> QED
  BY <1>1, <1>3, <1>6, NewFields, NothingIsAnEvent DEF HInv

\* A handler that has made a call and got nothing yet.
Fresh(n, r) ==
  /\ n \in Handlers /\ n.shown = <<>> /\ n.held = <<>> /\ n.lines = 0
  /\ ~n.scripted /\ n.script = <<>> /\ n.got = NothingGot /\ ~n.appended
  /\ n.calls # <<>> /\ n.calls[Len(n.calls)] = NewCall(r, NoVerdict) /\ TrailBooks(n)

LEMMA FreshSound ==
  ASSUME NEW n, NEW r \in Route, Fresh(n, r), n.pc \in {"calling", "forwarding", "done"},
         n.pc = "calling" => r # Plan \/ n.req.surface = "openai",
         n.pc = "forwarding" => n.req.surface # "openai" /\ ~n.buffered /\ n.req.stream,
         n.buffered => n.req.stream
  PROVE  Sound(n)
<1> DEFINE c == NewCall(r, NoVerdict)
<1>1. c.route = r /\ c.status = "pending" /\ ~c.committed /\ ~c.metered /\ c.errors = 0
  BY NewCallTyped, NoVerdictTyped
<1>2. n \in Handlers /\ n.calls # <<>> /\ n.calls[Len(n.calls)] = c
  BY DEF Fresh
<1> HIDE DEF c
<1>3. Placed(n)
  BY DEF Fresh, Placed
<1>4. ShownInOrder(n)
  BY DEF Fresh, ShownInOrder
<1>5. CallBooks(n)
  BY <1>1, <1>2 DEF CallBooks, Fresh
<1>6. RejectedKept(n)
  BY <1>1, <1>2 DEF RejectedKept
<1> QED
  BY <1>3, <1>4, <1>5, <1>6 DEF Sound, Fresh

\* The first call of a handler, or the one behind the plan's.
LEMMA FirstCall ==
  ASSUME HInv, h.pc = "new", NEW r \in Route
  PROVE  /\ Fresh(Start(h, r, NoVerdict), r) /\ Start(h, r, NoVerdict).req = h.req
         /\ Start(h, r, NoVerdict).pc = "calling" /\ ~Start(h, r, NoVerdict).buffered
<1> DEFINE n == Start(h, r, NoVerdict)
<1>1. h \in Handlers /\ h.calls = <<>> /\ Len(h.calls) = 0 /\ h.shown = <<>> /\ ~h.appended
      /\ ~h.buffered
  BY NewFields
<1>2. /\ n \in Handlers /\ n.pc = "calling" /\ n.req = h.req
      /\ n.buffered = h.buffered /\ n.appended = h.appended /\ n.shown = h.shown
      /\ n.held = <<>> /\ n.lines = 0 /\ n.script = <<>> /\ ~n.scripted
      /\ n.got = NothingGot /\ n.calls # <<>> /\ Len(n.calls) = Len(h.calls) + 1
      /\ n.calls[Len(n.calls)] = NewCall(r, NoVerdict)
      /\ \A i \in 1..Len(h.calls) : n.calls[i] = h.calls[i]
  BY <1>1, NoVerdictTyped, StartFields
<1> HIDE DEF n
<1>3. TrailBooks(n)
  BY <1>1, <1>2, NoCallYet, NoVerdictTyped, TrailExtended
<1> QED
  BY <1>1, <1>2, <1>3 DEF Fresh, n

LEMMA SecondCall ==
  ASSUME NEW s, Fresh(s, Plan), s.req.surface # "openai", NEW r \in Route
  PROVE  /\ Fresh(Start(s, r, NoVerdict), r) /\ Start(s, r, NoVerdict).req = s.req
         /\ Start(s, r, NoVerdict).pc = "calling"
         /\ Start(s, r, NoVerdict).buffered = s.buffered
<1> DEFINE n == Start(s, r, NoVerdict)
<1>1. /\ s \in Handlers /\ s.calls # <<>> /\ s.shown = <<>> /\ ~s.appended
      /\ s.calls[Len(s.calls)] = NewCall(Plan, NoVerdict) /\ TrailBooks(s)
  BY DEF Fresh
<1>2. /\ n \in Handlers /\ n.pc = "calling" /\ n.req = s.req
      /\ n.buffered = s.buffered /\ n.appended = s.appended /\ n.shown = s.shown
      /\ n.held = <<>> /\ n.lines = 0 /\ n.script = <<>> /\ ~n.scripted
      /\ n.got = NothingGot /\ n.calls # <<>> /\ Len(n.calls) = Len(s.calls) + 1
      /\ n.calls[Len(n.calls)] = NewCall(r, NoVerdict)
      /\ \A i \in 1..Len(s.calls) : n.calls[i] = s.calls[i]
  BY <1>1, NoVerdictTyped, StartFields
<1> HIDE DEF n
<1>3. /\ Len(s.calls) \in 1..Len(s.calls)
      /\ n.calls[Len(s.calls)] = s.calls[Len(s.calls)]
  BY <1>1, <1>2, LastCallTyped
<1>4. /\ n.calls[Len(s.calls)].route = Plan /\ n.calls[Len(s.calls)].status = "pending"
      /\ ~n.calls[Len(s.calls)].metered
  BY <1>1, <1>3, NewCallTyped, NoVerdictTyped, SurfaceRoutes
<1>5. TrailBooks(n)
  BY <1>1, <1>2, <1>3, <1>4, NoVerdictTyped, TrailExtended
<1> QED
  BY <1>1, <1>2, <1>5 DEF Fresh, n

\* A handler that only stands elsewhere, or holds its answer back.
Moved(s, n) ==
  /\ n \in Handlers /\ n.req = s.req /\ n.shown = s.shown /\ n.held = s.held
  /\ n.lines = s.lines /\ n.scripted = s.scripted /\ n.script = s.script
  /\ n.got = s.got /\ n.appended = s.appended /\ n.calls = s.calls /\ n.budget = s.budget
  /\ n.checked = s.checked

LEMMA FreshMoved ==
  ASSUME NEW s, NEW r, Fresh(s, r), NEW n, Moved(s, n)
  PROVE  Fresh(n, r)
<1>1. TrailBooks(n)
  BY DEF Fresh, TrailBooks, Moved
<1> QED
  BY <1>1 DEF Fresh, Moved

LEMMA FreshHInv ==
  ASSUME HInv, h.pc = "new", NEW n, h' = n, UNCHANGED <<yielded, client>>, Sound(n)
  PROVE  HInv'
BY NewFields, NothingIsAnEvent DEF HInv

LEMMA RouteOpenAIHInv ==
  ASSUME HInv, RouteOpenAI
  PROVE  HInv'
<1>1. PICK r \in Route : h' = [Start(h, r, NoVerdict) EXCEPT !.buffered = Buffers(r)]
  BY DEF RouteOpenAI, Become
<1>2. h.pc = "new" /\ h.req.surface = "openai" /\ UNCHANGED <<yielded, client>>
  BY DEF RouteOpenAI, Become, OpenAI
<1> DEFINE s == Start(h, r, NoVerdict)
<1>3. Fresh(s, r) /\ s.req = h.req /\ s.pc = "calling"
  BY <1>2, FirstCall
<1>4. PICK b \in BOOLEAN : b = Buffers(r)
  BY DEF Buffers
<1>5. h' = [s EXCEPT !.pc = "calling", !.buffered = b]
  <2>1. s \in Handlers
    BY <1>3 DEF Fresh
  <2> QED
    BY <1>1, <1>3, <1>4, <2>1 DEF Handlers
<1> HIDE DEF s
<1>6. PICK n : n = [s EXCEPT !.pc = "calling", !.buffered = b]
  OBVIOUS
<1>7. Moved(s, n) /\ n.pc = "calling" /\ n.buffered = b /\ n.req = s.req
  BY <1>3, <1>6 DEF Fresh, Handlers, Steps, Moved
<1>8. h.req.stream
  BY <1>2, NewFields, RequestKinds
<1>9. Sound(n)
  BY <1>2, <1>3, <1>7, <1>8, FreshMoved, FreshSound
<1> QED
  BY <1>2, <1>5, <1>6, <1>9, FreshHInv

LEMMA ProxiedSound ==
  ASSUME NEW s, NEW r \in Route, r # Plan, Fresh(Start(s, r, NoVerdict), r),
         Start(s, r, NoVerdict).pc = "calling", ~Start(s, r, NoVerdict).buffered,
         Start(s, r, NoVerdict).req = s.req
  PROVE  Sound(Proxied(s, r)) /\ Proxied(s, r).req = s.req
<1> DEFINE d == Start(s, r, NoVerdict)
<1>1. Fresh(d, r) /\ d.pc = "calling" /\ ~d.buffered /\ d.req = s.req
  OBVIOUS
<1>2. Proxied(s, r) = IF ~s.req.translatable THEN [d EXCEPT !.pc = "done"]
                      ELSE [d EXCEPT !.buffered = s.req.stream /\ Buffers(r)]
  BY DEF Proxied
<1> HIDE DEF d
<1>3. CASE ~s.req.translatable
  <2>1. PICK n : n = [d EXCEPT !.pc = "done"]
    OBVIOUS
  <2>2. Moved(d, n) /\ n.pc = "done" /\ n.buffered = d.buffered /\ n.req = s.req
    BY <1>1, <2>1 DEF Fresh, Handlers, Steps, Moved
  <2>3. Sound(n)
    BY <1>1, <2>2, FreshMoved, FreshSound
  <2> QED
    BY <1>2, <1>3, <2>1, <2>2, <2>3
<1>4. CASE s.req.translatable
  <2>1. PICK b \in BOOLEAN : b = (s.req.stream /\ Buffers(r))
    OBVIOUS
  <2>2. PICK n : n = [d EXCEPT !.buffered = b]
    OBVIOUS
  <2>3. Moved(d, n) /\ n.pc = "calling" /\ n.buffered = b /\ n.req = s.req
    BY <1>1, <2>2 DEF Fresh, Handlers, Steps, Moved
  <2>4. b => s.req.stream
    BY <2>1
  <2>5. Sound(n)
    BY <1>1, <2>3, <2>4, FreshMoved, FreshSound
  <2>6. Proxied(s, r) = n
    BY <1>2, <1>4, <2>1, <2>2
  <2> QED
    BY <2>3, <2>5, <2>6
<1> QED
  BY <1>3, <1>4

LEMMA MessageTyped ==
  /\ SseFromMessage \in Seq(AnyEvent) /\ Len(SseFromMessage) = 6
  /\ SseFromMessage[1] = Plain("message_start") /\ SseFromMessage[2] = Block("block_start", 0)
  /\ SseFromMessage[3] = Block("block_delta", 0) /\ SseFromMessage[4] = Block("block_stop", 0)
  /\ SseFromMessage[5] = [Plain("message_delta") EXCEPT !.reason = "end_turn"]
  /\ SseFromMessage[6] = Plain("message_stop")
<1> DEFINE a == Plain("message_start")
           b == Block("block_start", 0)
           c == Block("block_delta", 0)
           d == Block("block_stop", 0)
           e == [Plain("message_delta") EXCEPT !.reason = "end_turn"]
           f == Plain("message_stop")
<1>1. a \in AnyEvent /\ b \in AnyEvent /\ c \in AnyEvent /\ d \in AnyEvent /\ f \in AnyEvent
  BY DEF Plain, Block, AnyEvent, NoBlock
<1>2. e \in AnyEvent
  BY DEF Plain, AnyEvent, NoBlock
<1>3. SseFromMessage = <<a, b, c, d, e, f>>
  BY DEF SseFromMessage
<1> HIDE DEF a, b, c, d, e, f
<1>4. <<a, b, c, d, e, f>> \in Seq(AnyEvent)
  BY <1>1, <1>2
<1>5. /\ Len(<<a, b, c, d, e, f>>) = 6 /\ <<a, b, c, d, e, f>>[1] = a
      /\ <<a, b, c, d, e, f>>[2] = b /\ <<a, b, c, d, e, f>>[3] = c
      /\ <<a, b, c, d, e, f>>[4] = d /\ <<a, b, c, d, e, f>>[5] = e
      /\ <<a, b, c, d, e, f>>[6] = f
  OBVIOUS
<1> QED
  BY <1>3, <1>4, <1>5 DEF a, b, c, d, e, f

LEMMA SwitchFields ==
  ASSUME HInv, h.pc = "new", h.req.surface = "anthropic"
  PROVE  LET n == SwitchToPlan(h)
         IN  /\ Sound(n) /\ n.req = h.req /\ n.shown = <<>> /\ ~n.buffered /\ n.calls # <<>>
             /\ n.calls[Len(n.calls)].route = Plan
             /\ n.pc = IF h.req.stream THEN "releasing" ELSE "done"
             /\ n.held = IF h.req.stream THEN SseFromMessage ELSE <<>>
<1> DEFINE d == Start(h, Plan, NoVerdict)
           o == NewCall(Plan, NoVerdict)
           c == [o EXCEPT !.status = "handed_over"]
           p == IF h.req.stream THEN "releasing" ELSE "done"
           w == IF h.req.stream THEN SseFromMessage ELSE <<>>
           n == [d EXCEPT !.calls = [d.calls EXCEPT ![Len(d.calls)] = c], !.pc = p, !.held = w]
<1>1. Fresh(d, Plan) /\ d.req = h.req /\ d.pc = "calling" /\ ~d.buffered
  BY FirstCall, SurfaceRoutes
<1>2. /\ d \in Handlers /\ d.calls # <<>> /\ d.calls[Len(d.calls)] = o
      /\ d.shown = <<>> /\ d.lines = 0 /\ ~d.scripted /\ d.script = <<>>
      /\ d.got = NothingGot /\ ~d.appended /\ TrailBooks(d)
  BY <1>1 DEF Fresh
<1>3. o \in Calls /\ o.route = Plan /\ ~o.committed /\ ~o.metered /\ o.errors = 0
  BY NewCallTyped, NoVerdictTyped, SurfaceRoutes
<1>4. c \in Calls /\ c.route = Plan /\ ~c.committed /\ ~c.metered /\ c.status = "handed_over"
      /\ c.errors = 0
  BY <1>3 DEF Calls
<1>5. SwitchToPlan(h) = n
  BY <1>1, <1>2 DEF SwitchToPlan
<1>6. /\ Len(d.calls) \in 1..Len(d.calls) /\ d.calls \in Seq(Calls)
      /\ [d.calls EXCEPT ![Len(d.calls)] = c] \in Seq(Calls)
  BY <1>2, <1>4, LastCallTyped
<1>7. w \in Seq(AnyEvent) /\ p \in {"releasing", "done"} /\ (p = "releasing" => h.req.stream)
  BY MessageTyped
<1> HIDE DEF d, o, c, p, w
<1>8. /\ n \in Handlers /\ n.pc = p /\ n.held = w /\ n.req = d.req /\ n.shown = d.shown
      /\ n.buffered = d.buffered /\ n.appended = d.appended /\ n.lines = d.lines
      /\ n.scripted = d.scripted /\ n.script = d.script /\ n.got = d.got
      /\ n.calls = [d.calls EXCEPT ![Len(d.calls)] = c]
  BY <1>2, <1>6, <1>7 DEF Handlers, Steps
<1> HIDE DEF n
<1>9. Rebooked(d, n, c)
  BY <1>2, <1>3, <1>4, <1>8, Rebooking
<1>10. n.calls # <<>> /\ n.calls[Len(n.calls)] = c
  BY <1>9 DEF Rebooked
<1>11. TrailBooks(n)
  BY <1>2, <1>4, <1>8, <1>9, TrailRebooked DEF OwnBooks
<1>12. Placed(n)
  BY <1>1, <1>2, <1>7, <1>8, <1>10 DEF Placed
<1>13. ShownInOrder(n)
  BY <1>2, <1>8 DEF ShownInOrder
<1>14. CallBooks(n)
  BY <1>1, <1>2, <1>4, <1>7, <1>8, <1>10 DEF CallBooks
<1>15. RejectedKept(n)
  BY <1>4, <1>10 DEF RejectedKept
<1>16. Sound(n)
  BY <1>8, <1>11, <1>12, <1>13, <1>14, <1>15 DEF Sound
<1> QED
  BY <1>1, <1>2, <1>4, <1>5, <1>8, <1>10, <1>16 DEF p, w

\* The handler of a messages request, once it is routed.
LEMMA RouteAnthropicCases ==
  ASSUME HInv, RouteAnthropic
  PROVE  /\ h.pc = "new" /\ h.req.surface = "anthropic" /\ UNCHANGED <<yielded, client, tr>>
         /\ Sound(h') /\ h'.req = h.req
         /\ \/ h' = SwitchToPlan(h)
            \/ /\ h'.pc \in {"calling", "forwarding", "done"} /\ h'.held = <<>>
               /\ h'.shown = <<>>
<1>1. /\ h.pc = "new" /\ h.req.surface = "anthropic" /\ UNCHANGED <<yielded, client, tr>>
      /\ h.req \in Requests /\ h.calls = <<>>
  BY NewFields DEF RouteAnthropic, Become
<1>2. ASSUME NEW r \in Route, PlanReachable, h' = [Start(h, r, NoVerdict) EXCEPT !.pc = "forwarding"]
      PROVE  Sound(h') /\ h'.req = h.req /\ h'.pc = "forwarding" /\ h'.held = <<>> /\ h'.shown = <<>>
  <2> DEFINE s == Start(h, r, NoVerdict)
  <2>1. Fresh(s, r) /\ s.req = h.req /\ ~s.buffered
    BY <1>1, FirstCall
  <2> HIDE DEF s
  <2>2. PICK n : n = [s EXCEPT !.pc = "forwarding"]
    OBVIOUS
  <2>3. Moved(s, n) /\ n.pc = "forwarding" /\ n.buffered = s.buffered /\ n.req = s.req
    BY <2>1, <2>2 DEF Fresh, Handlers, Steps, Moved
  <2>4. h.req.stream /\ h.req.surface # "openai"
    BY <1>1, <1>2, RequestKinds DEF PlanReachable
  <2>5. Sound(n) /\ Fresh(n, r)
    BY <2>1, <2>3, <2>4, FreshMoved, FreshSound
  <2>6. h' = n
    BY <1>2, <2>2 DEF s
  <2> QED
    BY <2>1, <2>3, <2>5, <2>6 DEF Fresh
<1>3. ASSUME NEW s, NEW r \in Route, r # Plan, h' = Proxied(s, r), s.req = h.req,
             Fresh(Start(s, r, NoVerdict), r), Start(s, r, NoVerdict).pc = "calling",
             ~Start(s, r, NoVerdict).buffered, Start(s, r, NoVerdict).req = s.req
      PROVE  /\ Sound(h') /\ h'.req = h.req /\ h'.pc \in {"calling", "done"}
             /\ h'.held = <<>> /\ h'.shown = <<>>
  <2>1. Sound(h') /\ h'.req = h.req
    BY <1>3, ProxiedSound
  <2> DEFINE d == Start(s, r, NoVerdict)
  <2>2. d \in Handlers /\ d.held = <<>> /\ d.shown = <<>> /\ d.pc = "calling"
    BY <1>3 DEF Fresh
  <2>3. \/ h' = [d EXCEPT !.pc = "done"]
        \/ h' = [d EXCEPT !.buffered = s.req.stream /\ Buffers(r)]
    BY <1>3 DEF Proxied
  <2> HIDE DEF d
  <2> QED
    BY <2>1, <2>2, <2>3 DEF Handlers
<1>4. PICK r \in Route :
        \/ /\ r = Plan /\ PlanReachable
           /\ h' = [Start(h, r, NoVerdict) EXCEPT !.pc = "forwarding"]
        \/ h' = SwitchToPlan(h)
        \/ /\ r = Plan
           /\ \E q \in Route \ {Plan} : h' = Proxied(Start(h, r, NoVerdict), q)
        \/ /\ r # Plan /\ PlanReachable
           /\ h' = [Start(h, r, NoVerdict) EXCEPT !.pc = "forwarding"]
        \/ r # Plan /\ h' = Proxied(h, r)
  BY DEF RouteAnthropic, Become
<1>5. CASE PlanReachable /\ h' = [Start(h, r, NoVerdict) EXCEPT !.pc = "forwarding"]
  BY <1>1, <1>2, <1>5
<1>6. CASE h' = SwitchToPlan(h)
  BY <1>1, <1>6, SwitchFields
<1>7. CASE r = Plan /\ \E q \in Route \ {Plan} : h' = Proxied(Start(h, r, NoVerdict), q)
  <2>1. PICK q \in Route \ {Plan} : h' = Proxied(Start(h, Plan, NoVerdict), q)
    BY <1>7
  <2>2. /\ Fresh(Start(h, Plan, NoVerdict), Plan) /\ Start(h, Plan, NoVerdict).req = h.req
        /\ ~Start(h, Plan, NoVerdict).buffered
    BY <1>1, FirstCall, SurfaceRoutes
  <2> DEFINE s == Start(h, Plan, NoVerdict)
  <2> HIDE DEF s
  <2>3. /\ Fresh(Start(s, q, NoVerdict), q) /\ Start(s, q, NoVerdict).req = s.req
        /\ Start(s, q, NoVerdict).pc = "calling" /\ ~Start(s, q, NoVerdict).buffered
    BY <1>1, <2>2, SecondCall DEF s
  <2> QED
    BY <1>1, <1>3, <2>1, <2>2, <2>3 DEF s
<1>8. CASE r # Plan /\ h' = Proxied(h, r)
  BY <1>1, <1>3, <1>8, FirstCall
<1> QED
  BY <1>4, <1>5, <1>6, <1>7, <1>8

----------------------------------------------------------------------------
(* The upstream call *)

\* The handler s is h, but for what it knows of the answer.
Heeds(s) ==
  /\ s \in Handlers /\ s.pc = h.pc /\ s.req = h.req /\ s.calls = h.calls
  /\ s.buffered = h.buffered /\ s.appended = h.appended /\ s.held = h.held
  /\ s.shown = h.shown /\ s.lines = h.lines /\ s.scripted = h.scripted
  /\ s.script = h.script /\ s.budget = h.budget /\ s.checked = h.checked

\* The same, once the call is booked and the handler has moved on.
MovedOn(n) ==
  /\ n.req = h.req /\ n.buffered = h.buffered /\ n.appended = h.appended
  /\ n.held = h.held /\ n.shown = h.shown /\ Len(n.calls) = Len(h.calls)
  /\ n.pc \in {"grading", "releasing", "closing", "done"}

LEMMA AfterCallPlace ==
  ASSUME HInv, NEW s \in Handlers, NEW a \in BOOLEAN
  PROVE  LET p == AfterCall(s, a).pc
         IN  /\ AfterCall(s, a) = [s EXCEPT !.pc = p]
             /\ p \in {"grading", "releasing", "closing", "done"}
             /\ p = "grading" => a /\ ~s.appended /\ (s.buffered \/ OpenAI \/ ~s.req.stream)
             /\ p = "releasing" => s.buffered /\ (a => s.appended)
             /\ p = "closing" => OpenAI /\ ~s.buffered /\ (a => s.appended)
             /\ p = "done" => ~OpenAI /\ ~s.buffered /\ (a => s.appended \/ s.req.stream)
<1>1. s.appended \in BOOLEAN /\ s.buffered \in BOOLEAN /\ s.req.stream \in BOOLEAN
  BY RequestKinds DEF Handlers
<1>2. CASE a /\ ~s.appended /\ (s.buffered \/ OpenAI \/ ~s.req.stream)
  <2>1. AfterCall(s, a) = [s EXCEPT !.pc = "grading"]
    BY <1>2 DEF AfterCall
  <2> QED
    BY <1>2, <2>1 DEF Handlers
<1>3. CASE ~(a /\ ~s.appended) /\ s.buffered
  <2>1. AfterCall(s, a) = [s EXCEPT !.pc = "releasing"]
    BY <1>3 DEF AfterCall
  <2> QED
    BY <1>3, <2>1 DEF Handlers
<1>4. CASE ~(a /\ ~s.appended) /\ ~s.buffered /\ OpenAI
  <2>1. AfterCall(s, a) = [s EXCEPT !.pc = "closing"]
    BY <1>4 DEF AfterCall
  <2> QED
    BY <1>4, <2>1 DEF Handlers
<1>5. CASE /\ ~(a /\ ~s.appended /\ (s.buffered \/ OpenAI \/ ~s.req.stream))
           /\ ~(~(a /\ ~s.appended) /\ s.buffered)
           /\ ~(~(a /\ ~s.appended) /\ ~s.buffered /\ OpenAI)
  <2>1. AfterCall(s, a) = [s EXCEPT !.pc = "done"]
    BY <1>5 DEF AfterCall
  <2>2. ~OpenAI /\ ~s.buffered /\ (a => s.appended \/ s.req.stream)
    BY <1>1, <1>5
  <2> QED
    BY <2>1, <2>2 DEF Handlers
<1> QED
  BY <1>2, <1>3, <1>4, <1>5

LEMMA CallEnded ==
  ASSUME HInv, h.pc \in {"calling", "reading"}, NEW s, Heeds(s),
         NEW b \in {"ok", "truncated", "upstream_error", "transport_error"},
         NEW a \in BOOLEAN, a <=> b = "ok",
         b = "ok" => s.got.finish # "length", b = "truncated" => s.got.finish = "length",
         NEW n, n = AfterCall(Book(s, b), a)
  PROVE  /\ Sound(n) /\ MovedOn(n) /\ n.calls # <<>>
         /\ n.pc = "grading" => b = "ok"
         /\ n.pc = "releasing" => n.buffered
         /\ n.pc = "closing" => OpenAI
         /\ n.pc = "done" => ~OpenAI /\ ~n.buffered
         /\ n.calls[Len(n.calls)].route = Call.route
<1> DEFINE o == s.calls[Len(s.calls)]
           c == Booked(o, b)
           m == Book(s, b)
<1>1. /\ s \in Handlers /\ s.calls # <<>> /\ Sound(h) /\ h \in Handlers
  BY DEF HInv, Sound, Placed, Heeds
<1>2. o \in Calls /\ s.calls \in Seq(Calls)
  BY <1>1, LastCallTyped
<1>3. /\ o.status = "pending" /\ o.errors = 0
      /\ ~(o.route = Plan /\ s.req.surface # "openai")
  BY <1>1 DEF Sound, CallBooks, Heeds
<1>4. /\ c \in Calls /\ c.status = b /\ c.verdict = o.verdict /\ c.route = o.route
      /\ c.committed <=> b \in {"ok", "truncated"}
      /\ c.metered <=> b \in {"ok", "truncated"}
      /\ b = "ok" => c.errors = o.errors
  BY <1>2, BookedFields
<1>5. /\ m = [s EXCEPT !.calls = [s.calls EXCEPT ![Len(s.calls)] = c]]
      /\ m \in Handlers /\ Rebooked(s, m, c)
  BY <1>1, BookFields
<1> DEFINE p == AfterCall(m, a).pc
<1>6. /\ n = [m EXCEPT !.pc = p]
      /\ p \in {"grading", "releasing", "closing", "done"}
      /\ p = "grading" => a /\ ~m.appended /\ (m.buffered \/ OpenAI \/ ~m.req.stream)
      /\ p = "releasing" => m.buffered /\ (a => m.appended)
      /\ p = "closing" => OpenAI /\ ~m.buffered /\ (a => m.appended)
      /\ p = "done" => ~OpenAI /\ ~m.buffered /\ (a => m.appended \/ m.req.stream)
  BY <1>5, AfterCallPlace
<1> HIDE DEF o, c, m, p
<1>7. /\ m.pc = h.pc /\ m.req = h.req /\ m.buffered = h.buffered /\ m.appended = h.appended
      /\ m.held = h.held /\ m.shown = h.shown /\ m.lines = h.lines /\ m.scripted = h.scripted
      /\ m.script = h.script /\ m.got = s.got /\ m.budget = h.budget
  BY <1>1, <1>5 DEF Handlers, Heeds
<1>8. /\ n \in Handlers /\ n.pc = p /\ n.req = h.req /\ n.buffered = h.buffered
      /\ n.appended = h.appended /\ n.held = h.held /\ n.shown = h.shown
      /\ n.lines = h.lines /\ n.scripted = h.scripted /\ n.script = h.script
      /\ n.got = s.got /\ n.budget = h.budget /\ n.calls = m.calls
  <2>1. m \in Handlers /\ n = [m EXCEPT !.pc = p] /\ p \in Steps
    BY <1>5, <1>6 DEF Steps
  <2>2. /\ n \in Handlers /\ n.pc = p /\ n.req = m.req /\ n.buffered = m.buffered
        /\ n.appended = m.appended /\ n.held = m.held /\ n.shown = m.shown
        /\ n.lines = m.lines /\ n.scripted = m.scripted /\ n.script = m.script
        /\ n.got = m.got /\ n.budget = m.budget /\ n.calls = m.calls
    BY <2>1 DEF Handlers
  <2> QED
    BY <1>7, <2>2
<1>9. /\ Rebooked(s, n, c) /\ Len(n.calls) = Len(h.calls) /\ n.calls # <<>>
      /\ n.calls[Len(n.calls)] = c /\ o = Call
  BY <1>5, <1>8 DEF Rebooked, Heeds, o, Call, LastCall
<1>10. OpenAI <=> h.req.surface = "openai"
  BY DEF OpenAI
<1>11. h.req.surface = "openai" => h.req.stream
  BY <1>1, RequestKinds DEF Handlers
<1>12. TrailBooks(n)
  <2>1. TrailBooks(s)
    BY <1>1 DEF Sound, TrailBooks, Heeds
  <2>2. OwnBooks(s.req, c)
    BY <1>3, <1>4 DEF OwnBooks
  <2>3. n.req = s.req
    BY <1>8 DEF Heeds
  <2> QED
    BY <1>1, <1>9, <2>1, <2>2, <2>3, TrailRebooked
<1>13. Placed(n)
  BY <1>1, <1>6, <1>7, <1>8, <1>9, <1>10, <1>11 DEF Sound, Placed
<1>14. ShownInOrder(n)
  BY <1>1, <1>6, <1>8, <1>9 DEF Sound, ShownInOrder, Follows
<1>15. CallBooks(n)
  <2>1. ~(c.route = Plan /\ n.req.surface # "openai")
    BY <1>3, <1>4, <1>8 DEF Heeds
  <2>2. n.pc = "grading" => c.status = "ok"
    BY <1>4, <1>6, <1>8
  <2>3. n.pc = "releasing" => n.buffered
    BY <1>6, <1>7, <1>8
  <2> QED
    BY <1>4, <1>6, <1>8, <1>9, <2>1, <2>2, <2>3 DEF CallBooks
<1>16. RejectedKept(n)
  <2>1. n.appended => ~n.buffered /\ n.req.stream
    BY <1>1, <1>8, <1>11 DEF Sound, Placed
  <2>2. c.status = "ok" /\ (n.buffered \/ ~n.req.stream)
          => n.pc \notin {"releasing", "closing", "sentinel", "done"}
    BY <1>4, <1>6, <1>7, <1>8, <1>10, <1>11, <2>1
  <2> QED
    BY <1>9, <2>2 DEF RejectedKept
<1>17. Sound(n)
  BY <1>8, <1>12, <1>13, <1>14, <1>15, <1>16 DEF Sound
<1>18. MovedOn(n)
  BY <1>6, <1>8, <1>9 DEF MovedOn
<1> QED
  BY <1>4, <1>6, <1>7, <1>8, <1>9, <1>17, <1>18

\* What a step must leave behind.
LEMMA StepHInv ==
  ASSUME NEW n, Sound(n), h' = n, yielded' \in AnyEvent, Knows(client'),
         Quiet(n) => yielded' = Nothing
  PROVE  HInv'
BY DEF HInv

LEMMA HInvFacts ==
  ASSUME HInv
  PROVE  /\ h \in Handlers /\ Sound(h) /\ h.req \in Requests /\ Knows(client)
         /\ yielded \in AnyEvent /\ h.calls \in Seq(Calls) /\ Placed(h) /\ CallBooks(h)
         /\ TrailBooks(h) /\ ShownInOrder(h) /\ RejectedKept(h)
BY DEF HInv, Sound, Handlers

LEMMA PlainTyped ==
  /\ Plain("line") \in AnyEvent /\ Plain("error") \in AnyEvent
  /\ Plain("metadata") \in AnyEvent /\ Plain("sentinel") \in AnyEvent
  /\ Plain("line").type = "line" /\ Plain("error").type = "error"
  /\ Plain("metadata").type = "metadata" /\ Plain("sentinel").type = "sentinel"
  /\ Plain("line") # Nothing /\ Plain("error") # Nothing
  /\ Plain("metadata") # Nothing /\ Plain("sentinel") # Nothing
BY DEF Plain, Nothing, AnyEvent, NoBlock

\* The calls are what they were.
LEMMA SameCalls ==
  ASSUME NEW s, NEW n, n.calls = s.calls, n.req = s.req
  PROVE  /\ TrailBooks(s) => TrailBooks(n)
         /\ Stronger(n) = Stronger(s)
BY DEF TrailBooks, Stronger

\* The handler n is s but for the events it holds.
Holding(s, n) ==
  /\ n \in Handlers /\ n.pc = s.pc /\ n.req = s.req /\ n.calls = s.calls
  /\ n.buffered = s.buffered /\ n.appended = s.appended /\ n.shown = s.shown
  /\ n.lines = s.lines /\ n.scripted = s.scripted /\ n.script = s.script
  /\ n.got = s.got /\ n.budget = s.budget /\ n.checked = s.checked

LEMMA HeldSound ==
  ASSUME NEW s, Sound(s), s.pc \notin {"new", "calling", "forwarding"},
         NEW n, Holding(s, n), n.req.surface = "openai" => n.held \in Seq({Plain("line")})
  PROVE  Sound(n)
<1>1. TrailBooks(n) /\ Stronger(n) = Stronger(s)
  BY SameCalls DEF Holding, Sound
<1>2. Placed(n)
  BY DEF Holding, Sound, Placed
<1>3. ShownInOrder(n)
  BY DEF Holding, Sound, ShownInOrder, Follows
<1>4. CallBooks(n)
  BY DEF Holding, Sound, CallBooks
<1>5. RejectedKept(n)
  BY <1>1 DEF Holding, Sound, RejectedKept
<1> QED
  BY <1>1, <1>2, <1>3, <1>4, <1>5 DEF Sound, Holding

\* The events held, with one more.
LEMMA HeldMore ==
  ASSUME NEW s, Sound(s), s.pc \notin {"new", "calling", "forwarding"},
         NEW e \in AnyEvent, s.req.surface = "openai" => e = Plain("line")
  PROVE  LET n == [s EXCEPT !.held = Append(s.held, e)]
         IN  Sound(n) /\ Holding(s, n) /\ n.held = Append(s.held, e)
<1> DEFINE x == Append(s.held, e)
           n == [s EXCEPT !.held = x]
<1>1. s \in Handlers /\ s.held \in Seq(AnyEvent)
  BY DEF Sound, Handlers
<1>2. x \in Seq(AnyEvent)
  BY <1>1
<1>3. s.req.surface = "openai" => x \in Seq({Plain("line")})
  BY DEF Sound, Placed
<1> HIDE DEF x
<1>4. Holding(s, n) /\ n.held = x
  BY <1>1, <1>2 DEF Handlers, Holding
<1>5. Sound(n)
  BY <1>3, <1>4, HeldSound DEF Holding
<1> QED
  BY <1>4, <1>5 DEF x

LEMMA TellHInv ==
  ASSUME HInv, NEW n, Sound(n), n.pc \notin {"new", "calling", "forwarding"},
         NEW e \in AnyEvent, n.req.surface = "openai" => e = Plain("line"), Tell(n, e),
         n.buffered => yielded = Nothing, ~n.buffered => ~Quiet(n)
  PROVE  HInv'
<1>1. CASE n.buffered
  <2> DEFINE m == [n EXCEPT !.held = Append(n.held, e)]
  <2>1. Sound(m)
    BY HeldMore
  <2>2. h' = m /\ UNCHANGED <<yielded, client>>
    BY <1>1 DEF Tell, Become
  <2> HIDE DEF m
  <2> QED
    BY <1>1, <2>1, <2>2, HInvFacts, StepHInv
<1>2. CASE ~n.buffered
  <2>1. h' = n /\ yielded' = e /\ client' = client
    BY <1>2 DEF Tell, BecomeYielding
  <2> QED
    BY <1>2, <2>1, HInvFacts, StepHInv
<1> QED
  BY <1>1, <1>2

LEMMA HeedsItself ==
  ASSUME HInv
  PROVE  Heeds(h)
BY HInvFacts DEF Heeds

\* The call failed, and the open stream says so.
LEMMA FailureTold ==
  ASSUME HInv, h.pc \in {"calling", "reading"}, h.req.stream, Running,
         NEW b \in {"upstream_error", "transport_error"},
         Tell(AfterCall(Book(h, b), FALSE), ErrorEvent)
  PROVE  HInv'
<1> DEFINE n == AfterCall(Book(h, b), FALSE)
<1>1. Heeds(h)
  BY HeedsItself
<1>2. Sound(n) /\ MovedOn(n) /\ (n.pc = "grading" => b = "ok")
  BY <1>1, CallEnded
<1> HIDE DEF n
<1>3. n.pc \in {"releasing", "closing", "done"} /\ n.req = h.req
  BY <1>2 DEF MovedOn
<1>4. ErrorEvent \in AnyEvent /\ (n.req.surface = "openai" => ErrorEvent = Plain("line"))
  BY <1>3, PlainTyped DEF ErrorEvent, OpenAI
<1>5. ~Quiet(n)
  BY <1>3 DEF Quiet
<1> QED
  BY <1>2, <1>3, <1>4, <1>5, TellHInv DEF n, Running

\* The handler gives up.
LEMMA GivenUp ==
  ASSUME HInv, h.pc # "watching", h' = [h EXCEPT !.pc = "aborted"], yielded' = Nothing,
         client' = client
  PROVE  HInv'
<1>1. PICK n : n = [h EXCEPT !.pc = "aborted"]
  OBVIOUS
<1>2. /\ n \in Handlers /\ n.pc = "aborted" /\ n.req = h.req /\ n.calls = h.calls
      /\ n.buffered = h.buffered /\ n.appended = h.appended /\ n.held = h.held
      /\ n.shown = h.shown /\ n.lines = h.lines /\ n.scripted = h.scripted
      /\ n.script = h.script /\ n.got = h.got
  BY <1>1, HInvFacts DEF Handlers, Steps
<1>3. TrailBooks(n)
  BY <1>2, HInvFacts, SameCalls
<1>4. Placed(n)
  BY <1>2, HInvFacts DEF Placed
<1>5. ShownInOrder(n)
  BY <1>2, HInvFacts DEF ShownInOrder, Follows
<1>6. CallBooks(n)
  BY <1>2, HInvFacts DEF CallBooks
<1>7. RejectedKept(n)
  BY <1>2 DEF RejectedKept
<1>8. Sound(n)
  BY <1>2, <1>3, <1>4, <1>5, <1>6, <1>7 DEF Sound
<1> QED
  BY <1>1, <1>8, HInvFacts, NothingIsAnEvent, StepHInv

LEMMA BrokenHInv ==
  ASSUME HInv, Broken
  PROVE  HInv'
<1>1. h.pc \in {"calling", "reading"} /\ yielded = Nothing
  BY DEF Broken, Calling, Reading, Running
<1>2. CASE OpenAI \/ ~h.req.stream
  <2>1. h' = [h EXCEPT !.pc = "aborted"] /\ UNCHANGED <<yielded, client>>
    BY <1>2 DEF Broken, Become
  <2> QED
    BY <1>1, <2>1, GivenUp
<1>3. CASE ~(OpenAI \/ ~h.req.stream)
  <2>1. Tell(AfterCall(Book(h, "transport_error"), FALSE), ErrorEvent)
    BY <1>3 DEF Broken
  <2> QED
    BY <1>1, <1>3, <2>1, FailureTold DEF Running
<1> QED
  BY <1>2, <1>3

LEMMA RefusedUpstreamHInv ==
  ASSUME HInv, RefusedUpstream
  PROVE  HInv'
<1>1. h.pc = "calling" /\ yielded = Nothing
  BY DEF RefusedUpstream, Calling, Running
<1>2. CASE h.req.stream
  <2>1. Tell(AfterCall(Book(h, "upstream_error"), FALSE), ErrorEvent)
    BY <1>2 DEF RefusedUpstream
  <2> QED
    BY <1>1, <1>2, <2>1, FailureTold DEF Running
<1>3. CASE ~h.req.stream
  <2> DEFINE m == Book(h, "upstream_error")
  <2>1. h' = [m EXCEPT !.pc = "done"] /\ UNCHANGED <<yielded, client>>
    BY <1>3 DEF RefusedUpstream, Become
  <2>2. ~OpenAI /\ ~h.buffered
    BY <1>3, HInvFacts, RequestKinds DEF OpenAI, Placed
  <2>3. h.calls # <<>>
    BY <1>1, HInvFacts DEF Placed
  <2>4. m \in Handlers /\ m = [h EXCEPT !.calls = [h.calls EXCEPT ![Len(h.calls)] =
          Booked(h.calls[Len(h.calls)], "upstream_error")]]
    BY <2>3, HInvFacts, BookFields
  <2>5. ~m.buffered
    BY <2>2, <2>4, HInvFacts DEF Handlers
  <2>6. AfterCall(m, FALSE) = [m EXCEPT !.pc = "done"]
    BY <2>2, <2>5 DEF AfterCall
  <2>7. Sound(AfterCall(m, FALSE))
    BY <1>1, HeedsItself, CallEnded
  <2> HIDE DEF m
  <2> QED
    BY <1>1, <2>1, <2>6, <2>7, HInvFacts, StepHInv
<1> QED
  BY <1>2, <1>3

LEMMA NextLinesTyped ==
  ASSUME HInv, NEW l \in NextLines
  PROVE  l \in Line /\ (h.scripted => h.script # <<>>)
<1>1. h.scripted => h.script \in Seq(Line)
  BY HInvFacts DEF Placed
<1>2. CASE h.scripted
  <2>1. h.script # <<>> /\ l = Head(h.script)
    BY <1>2 DEF NextLines
  <2> QED
    BY <1>1, <1>2, <2>1
<1>3. CASE ~h.scripted
  <2>1. l \in Shapes
    BY <1>3 DEF NextLines
  <2> QED
    BY <1>3, <2>1, SurfaceRoutes
<1> QED
  BY <1>2, <1>3

LEMMA HeardTyped ==
  ASSUME HInv, NEW l \in Line
  PROVE  Heard(l) \in [text : BOOLEAN, tools : BOOLEAN, finish : Finish]
<1>1. h.got \in [text : BOOLEAN, tools : BOOLEAN, finish : Finish]
  BY HInvFacts DEF Handlers
<1>2. l.text \in BOOLEAN /\ l.finish \in Finish
  BY DEF Line
<1>3. PICK a \in BOOLEAN : a = (h.got.text \/ l.text)
  OBVIOUS
<1>4. PICK b \in BOOLEAN : b = (h.got.tools \/ l.call # NoTool \/ l.finish = "tool_calls")
  OBVIOUS
<1>5. PICK f \in Finish : f = IF l.finish = "none" THEN h.got.finish ELSE l.finish
  BY <1>1, <1>2
<1>6. Heard(l) = [text |-> a, tools |-> b, finish |-> f]
  BY <1>3, <1>4, <1>5 DEF Heard
<1> QED
  BY <1>6

\* A line is read: the handler has it, and stands where it stood.
LEMMA ReadOnSound ==
  ASSUME HInv, h.pc = "reading", NEW l \in NextLines
  PROVE  /\ Sound(ReadOn(l)) /\ ReadOn(l).pc = "reading" /\ ReadOn(l).req = h.req
         /\ ReadOn(l).buffered = h.buffered /\ ReadOn(l).held = h.held
         /\ ReadOn(l).shown = h.shown /\ ReadOn(l).calls = h.calls
<1> DEFINE g == Heard(l)
           w == IF h.scripted THEN Tail(h.script) ELSE h.script
           k == h.lines + 1
           n == [h EXCEPT !.lines = k, !.got = g, !.script = w]
<1>1. h \in Handlers /\ l \in Line /\ (h.scripted => h.script # <<>>)
  BY HInvFacts, NextLinesTyped
<1>2. g \in [text : BOOLEAN, tools : BOOLEAN, finish : Finish]
  BY <1>1, HeardTyped
<1>3. w \in Seq(Line \cup Said) /\ (h.scripted => w \in Seq(Line))
  <2>1. h.script \in Seq(Line \cup Said) /\ (h.scripted => h.script \in Seq(Line))
    BY HInvFacts DEF Handlers, Placed
  <2>2. h.scripted => Tail(h.script) \in Seq(Line \cup Said) /\ Tail(h.script) \in Seq(Line)
    BY <1>1, <2>1
  <2> QED
    BY <2>1, <2>2
<1>4. k \in Nat
  BY <1>1 DEF Handlers
<1>5. ReadOn(l) = n
  BY <1>1 DEF ReadOn, Handlers
<1> HIDE DEF g, w, k
<1>6. /\ n \in Handlers /\ n.pc = h.pc /\ n.req = h.req /\ n.calls = h.calls
      /\ n.buffered = h.buffered /\ n.appended = h.appended /\ n.held = h.held
      /\ n.shown = h.shown /\ n.scripted = h.scripted /\ n.script = w /\ n.budget = h.budget
  BY <1>1, <1>2, <1>3, <1>4 DEF Handlers
<1> HIDE DEF n
<1>7. TrailBooks(n)
  BY <1>6, HInvFacts, SameCalls
<1>8. Placed(n)
  BY <1>3, <1>6, HInvFacts DEF Placed
<1>9. ShownInOrder(n)
  BY <1>6, HInvFacts DEF ShownInOrder, Follows
<1>10. CallBooks(n)
  BY <1>6, HInvFacts DEF CallBooks
<1>11. RejectedKept(n)
  BY <1>6 DEF RejectedKept
<1>12. Sound(n)
  BY <1>6, <1>7, <1>8, <1>9, <1>10, <1>11 DEF Sound
<1> QED
  BY <1>5, <1>6, <1>12

LEMMA ForwardLineHInv ==
  ASSUME HInv, ForwardLine
  PROVE  HInv'
<1>1. PICK l \in NextLines : Tell(ReadOn(l), Plain("line"))
  BY DEF ForwardLine
<1>2. h.pc = "reading" /\ yielded = Nothing
  BY DEF ForwardLine, Reading, Running
<1> DEFINE n == ReadOn(l)
<1>3. Sound(n) /\ n.pc = "reading" /\ n.req = h.req
  BY <1>2, ReadOnSound
<1> HIDE DEF n
<1>4. n.req.stream
  BY <1>3 DEF Sound, Placed
<1>5. ~n.buffered => ~Quiet(n)
  BY <1>3, <1>4 DEF Quiet
<1>6. n.pc \notin {"new", "calling", "forwarding"}
  BY <1>3
<1> QED
  BY <1>1, <1>2, <1>3, <1>5, <1>6, PlainTyped, TellHInv DEF n

LEMMA TranslateLineHInv ==
  ASSUME HInv, Numbering, TranslateLine
  PROVE  HInv' /\ Numbering'
<1>1. PICK l \in NextLines : TakeLine(l) /\ h' = ReadOn(l)
  BY DEF TranslateLine
<1>2. h.pc = "reading" /\ yielded' = yielded /\ client' = client /\ yielded = Nothing
  BY <1>1 DEF TranslateLine, Reading, TakeLine, Running
<1>3. Sound(ReadOn(l)) /\ l \in Line
  BY <1>2, ReadOnSound, NextLinesTyped
<1>4. Numbering'
  BY <1>1, <1>3, TakeLineStep
<1> QED
  BY <1>1, <1>2, <1>3, <1>4, HInvFacts, StepHInv

LEMMA TranslateFrame ==
  ASSUME Translate
  PROVE  yielded = Nothing /\ client' = client
BY DEF Translate, BeginMessage, OpenText, SendText, OpenTool, SendArguments, PassCall,
       RaiseNameless, LineDone, StopBlock, DeltaMessage, StopMessage, AtCall, Running, Yield

LEMMA TranslateOnHInv ==
  ASSUME HInv, Numbering, TranslateOn
  PROVE  HInv' /\ Numbering'
<1>1. h.pc = "reading" /\ h' = h /\ Translate /\ client' = client
  BY TranslateFrame DEF TranslateOn
<1>2. KeepsStep
  BY <1>1, TranslateStep, SurfaceRoutes
<1>3. ~Quiet(h)
  BY <1>1, HInvFacts DEF Quiet, Placed, TranslateOn, OpenAI
<1> QED
  BY <1>1, <1>2, <1>3, HInvFacts, StepHInv DEF KeepsStep

LEMMA ChatSseTyped ==
  ASSUME NEW raw \in RawAnswers
  PROVE  ChatSse(ResponsesToChat(raw)) \in Seq(Line)
<1> DEFINE c == ResponsesToChat(raw)
           k == c.calls
           f == c.finish
           x == [EmptyLine EXCEPT !.text = TRUE]
           y == [n \in 1..k |-> [EmptyLine EXCEPT !.call = n - 1, !.named = TRUE, !.args = TRUE]]
           z == [EmptyLine EXCEPT !.finish = f]
           v == IF c.text THEN <<x>> ELSE <<>>
<1>1. k \in 0..MaxCalls /\ f \in Finish
  BY DEF ResponsesToChat, RawAnswers, Finish
<1>2. EmptyLine \in Line
  BY DEF EmptyLine, Line, Finish
<1>3. x \in Line
  BY <1>2 DEF Line
<1>4. z \in Line
  BY <1>1, <1>2 DEF Line
<1>5. ASSUME NEW n \in 1..k
      PROVE  [EmptyLine EXCEPT !.call = n - 1, !.named = TRUE, !.args = TRUE] \in Line
  <2>1. n - 1 \in Tool
    BY <1>1, SurfaceRoutes
  <2>2. ASSUME NEW t \in Tool
        PROVE  [EmptyLine EXCEPT !.call = t, !.named = TRUE, !.args = TRUE] \in Line
    BY <1>2 DEF Line
  <2> QED
    BY <2>1, <2>2
<1>6. y \in Seq(Line)
  <2>1. k \in Nat
    BY <1>1, SurfaceRoutes
  <2>2. y \in [1..k -> Line]
    BY <1>5
  <2> HIDE DEF y, k
  <2>3. \A m \in Nat : \A q \in [1..m -> Line] : q \in Seq(Line)
    OBVIOUS
  <2> QED
    BY <2>1, <2>2, <2>3
<1>7. ChatSse(c) = <<EmptyLine>> \o v \o y \o <<z>>
  BY DEF ChatSse
<1> HIDE DEF c, k, f, x, y, z
<1>8. v \in Seq(Line) /\ <<EmptyLine>> \in Seq(Line) /\ <<z>> \in Seq(Line)
  BY <1>2, <1>3, <1>4
<1> HIDE DEF v
<1> QED
  BY <1>6, <1>7, <1>8 DEF c

LEMMA OpenHInv ==
  ASSUME HInv, Open
  PROVE  HInv' /\ Numbering'
<1>1. PICK b \in BOOLEAN, w \in Seq(Line \cup Said) :
        /\ h' = [h EXCEPT !.pc = "reading", !.scripted = b, !.script = w]
        /\ b => w \in Seq(Line)
  <2>1. h \in Handlers /\ h.script \in Seq(Line \cup Said) /\ h.scripted \in BOOLEAN
        /\ h.script = <<>> /\ ~h.scripted
    BY HInvFacts DEF Handlers, Placed, Open, Calling
  <2>2. CASE Call.route \in ResponsesApi
    <3>1. PICK raw \in RawAnswers :
            h' = [h EXCEPT !.pc = "reading", !.scripted = TRUE,
                           !.script = ChatSse(ResponsesToChat(raw))]
      BY <2>2 DEF Open
    <3> DEFINE w == ChatSse(ResponsesToChat(raw))
    <3>2. w \in Seq(Line)
      BY ChatSseTyped
    <3> HIDE DEF w
    <3>3. w \in Seq(Line \cup Said)
      BY <3>2
    <3> QED
      BY <3>1, <3>2, <3>3 DEF w
  <2>3. CASE Call.route \notin ResponsesApi
    <3>1. h' = [h EXCEPT !.pc = "reading"]
      BY <2>3 DEF Open
    <3>2. h' = [h EXCEPT !.pc = "reading", !.scripted = h.scripted, !.script = h.script]
      BY <2>1, <3>1 DEF Handlers
    <3> QED
      BY <2>1, <3>2
  <2> QED
    BY <2>2, <2>3
<1>2. /\ h.pc = "calling" /\ h.req.stream /\ tr' = NewTranslation
      /\ yielded = Nothing /\ yielded' = yielded /\ client' = client
  BY DEF Open, Calling, Running
<1>3. PICK n : n = [h EXCEPT !.pc = "reading", !.scripted = b, !.script = w]
  OBVIOUS
<1>4. /\ n \in Handlers /\ n.pc = "reading" /\ n.req = h.req /\ n.calls = h.calls
      /\ n.buffered = h.buffered /\ n.appended = h.appended /\ n.held = h.held
      /\ n.shown = h.shown /\ n.lines = h.lines /\ n.scripted = b
      /\ n.script = w /\ n.got = h.got /\ n.budget = h.budget
  BY <1>3, HInvFacts DEF Handlers, Steps
<1>5. TrailBooks(n)
  BY <1>4, HInvFacts, SameCalls
<1>6. Placed(n)
  BY <1>1, <1>2, <1>4, HInvFacts DEF Placed
<1>7. ShownInOrder(n)
  BY <1>2, <1>4, HInvFacts DEF ShownInOrder, Follows
<1>8. CallBooks(n)
  BY <1>2, <1>4, HInvFacts DEF CallBooks
<1>9. RejectedKept(n)
  BY <1>4 DEF RejectedKept
<1>10. Sound(n)
  BY <1>4, <1>5, <1>6, <1>7, <1>8, <1>9 DEF Sound
<1>11. HInv'
  BY <1>1, <1>2, <1>3, <1>10, HInvFacts, StepHInv
<1>12. Numbering'
  <2>1. tr' = NewTranslation
    BY <1>2
  <2> QED
    BY <2>1 DEF Numbering, Numbers, Translations, NewTranslation, Blocks, NoBlock, Line,
       Finish, EmptyLine
<1> QED
  BY <1>11, <1>12

LEMMA CompletedSound ==
  ASSUME HInv, h.pc \in {"calling", "reading"},
         NEW g \in [text : BOOLEAN, tools : BOOLEAN, finish : Finish],
         NEW n, n = Completed(h, g)
  PROVE  /\ Sound(n) /\ MovedOn(n) /\ n.calls # <<>>
         /\ n.pc = "releasing" => n.buffered
         /\ n.pc = "closing" => OpenAI
         /\ n.pc = "done" => ~OpenAI /\ ~n.buffered
         /\ n.calls[Len(n.calls)].route = Call.route
<1> DEFINE a == g.finish # "length"
           b == IF g.finish = "length" THEN "truncated" ELSE "ok"
<1>1. PICK s : s = [h EXCEPT !.got = g]
  OBVIOUS
<1>2. Heeds(s) /\ s.got = g
  BY <1>1, HInvFacts DEF Heeds, Handlers
<1>3. /\ b \in {"ok", "truncated"} /\ a \in BOOLEAN /\ (a <=> b = "ok")
      /\ b = "ok" => s.got.finish # "length"
      /\ b = "truncated" => s.got.finish = "length"
  BY <1>2
<1>4. n = AfterCall(Book(s, b), a)
  BY <1>1 DEF Completed
<1> HIDE DEF a, b
<1> QED
  BY <1>2, <1>3, <1>4, CallEnded

LEMMA EndOfUpstreamHInv ==
  ASSUME HInv, Numbering, EndOfUpstream
  PROVE  HInv' /\ Numbering'
<1>1. h.pc = "reading" /\ yielded = Nothing /\ client' = client /\ yielded' = yielded
  BY DEF EndOfUpstream, Reading, Running, Become, EndOfLines
<1>2. CASE OpenAI
  <2>1. h' = Completed(h, h.got) /\ tr' = tr
    BY <1>2 DEF EndOfUpstream, Become
  <2>2. h.got \in [text : BOOLEAN, tools : BOOLEAN, finish : Finish]
    BY HInvFacts DEF Handlers
  <2>3. PICK n : n = Completed(h, h.got)
    OBVIOUS
  <2>4. Sound(n)
    BY <1>1, <2>2, <2>3, CompletedSound
  <2>5. Numbering'
    BY <2>1 DEF Numbering, Blocks
  <2> QED
    BY <1>1, <2>1, <2>3, <2>4, <2>5, HInvFacts, StepHInv
<1>3. CASE ~OpenAI
  <2>1. EndOfLines /\ h' = h
    BY <1>3 DEF EndOfUpstream
  <2> QED
    BY <1>1, <2>1, EndOfLinesStep, HInvFacts, StepHInv
<1> QED
  BY <1>2, <1>3

LEMMA TranslationDoneHInv ==
  ASSUME HInv, Numbering, TranslationDone
  PROVE  HInv'
<1> DEFINE g == [h.got EXCEPT !.tools = SeenTools # {}, !.finish = tr.finish]
<1>1. /\ h.pc = "reading" /\ yielded = Nothing /\ h' = Completed(h, g)
      /\ client' = client /\ yielded' = yielded
  BY DEF TranslationDone, Reading, Running, Become
<1>2. g \in [text : BOOLEAN, tools : BOOLEAN, finish : Finish]
  <2>1. tr.finish \in Finish
    BY DEF Numbering, Numbers, Translations
  <2>2. h.got \in [text : BOOLEAN, tools : BOOLEAN, finish : Finish]
    BY HInvFacts DEF Handlers
  <2>3. PICK b \in BOOLEAN : b = (SeenTools # {})
    OBVIOUS
  <2> QED
    BY <2>1, <2>2, <2>3
<1> HIDE DEF g
<1>3. PICK n : n = Completed(h, g)
  OBVIOUS
<1>4. Sound(n)
  BY <1>1, <1>2, <1>3, CompletedSound
<1> QED
  BY <1>1, <1>3, <1>4, HInvFacts, StepHInv

LEMMA TranslationRaisedHInv ==
  ASSUME HInv, TranslationRaised
  PROVE  HInv'
<1>1. /\ h.pc = "reading" /\ Running
      /\ Tell(AfterCall(Book(h, "transport_error"), FALSE), ErrorEvent)
  BY DEF TranslationRaised, Reading
<1>2. h.req.stream
  BY <1>1, HInvFacts DEF Placed
<1> QED
  BY <1>1, <1>2, FailureTold

LEMMA PostedHInv ==
  ASSUME HInv, Posted
  PROVE  HInv'
<1>1. h.pc = "calling" /\ yielded = Nothing /\ ~h.req.stream
  BY DEF Posted, Calling, Running
<1>2. CASE \E t, c \in BOOLEAN, f \in Finish :
             Become(Completed(h, [text |-> t, tools |-> c, finish |-> f]))
  <2>1. PICK g \in [text : BOOLEAN, tools : BOOLEAN, finish : Finish] : Become(Completed(h, g))
    <3>1. PICK t \in BOOLEAN, c \in BOOLEAN, f \in Finish :
                Become(Completed(h, [text |-> t, tools |-> c, finish |-> f]))
      BY <1>2
    <3>2. [text |-> t, tools |-> c, finish |-> f]
            \in [text : BOOLEAN, tools : BOOLEAN, finish : Finish]
      OBVIOUS
    <3> QED
      BY <3>1, <3>2
  <2>2. PICK n : n = Completed(h, g)
    OBVIOUS
  <2>3. Sound(n)
    BY <1>1, <2>2, CompletedSound
  <2> QED
    BY <1>1, <2>1, <2>2, <2>3, HInvFacts, StepHInv DEF Become
<1>3. CASE Become([h EXCEPT !.pc = "done", !.calls[LastCall].errors = @ + 1])
  <2> DEFINE o == h.calls[Len(h.calls)]
             c == [o EXCEPT !.errors = o.errors + 1]
  <2>1. h \in Handlers /\ h.calls # <<>>
    BY <1>1, HInvFacts DEF Placed
  <2>2. o \in Calls /\ Len(h.calls) \in 1..Len(h.calls) /\ h.calls \in Seq(Calls)
    BY <2>1, LastCallTyped
  <2>3. o.status = "pending" /\ ~(o.route = Plan /\ h.req.surface # "openai")
        /\ ~o.committed /\ ~o.metered
    BY <1>1, <2>1, HInvFacts DEF CallBooks
  <2>4. c \in Calls /\ c.route = o.route /\ c.status = "pending" /\ ~c.committed /\ ~c.metered
    BY <2>2, <2>3 DEF Calls
  <2>5. h' = [h EXCEPT !.pc = "done", !.calls = [h.calls EXCEPT ![Len(h.calls)] = c]]
    BY <1>3, <2>1, <2>2 DEF Become, LastCall
  <2> HIDE DEF c
  <2>6. PICK n : n = [h EXCEPT !.pc = "done", !.calls = [h.calls EXCEPT ![Len(h.calls)] = c]]
    OBVIOUS
  <2>7. [h.calls EXCEPT ![Len(h.calls)] = c] \in Seq(Calls)
    BY <2>2, <2>4
  <2>8. /\ n \in Handlers /\ n.pc = "done" /\ n.req = h.req
        /\ n.calls = [h.calls EXCEPT ![Len(h.calls)] = c]
        /\ n.buffered = h.buffered /\ n.appended = h.appended /\ n.held = h.held
        /\ n.shown = h.shown /\ n.lines = h.lines /\ n.scripted = h.scripted
        /\ n.script = h.script /\ n.got = h.got /\ n.budget = h.budget
    BY <2>1, <2>6, <2>7 DEF Handlers, Steps
  <2>9. Rebooked(h, n, c)
    BY <2>1, <2>4, <2>8, Rebooking
  <2>10. n.calls # <<>> /\ n.calls[Len(n.calls)] = c /\ Len(n.calls) = Len(h.calls)
    BY <2>9 DEF Rebooked
  <2>11. TrailBooks(n)
    BY <2>1, <2>4, <2>8, <2>9, HInvFacts, TrailRebooked DEF OwnBooks
  <2>12. Placed(n)
    BY <2>8, <2>10, HInvFacts DEF Placed
  <2>13. ShownInOrder(n)
    BY <1>1, <2>8, HInvFacts DEF ShownInOrder
  <2>14. CallBooks(n)
    BY <2>3, <2>4, <2>8, <2>10 DEF CallBooks
  <2>15. RejectedKept(n)
    BY <2>4, <2>8, <2>10 DEF RejectedKept
  <2>16. Sound(n)
    BY <2>8, <2>11, <2>12, <2>13, <2>14, <2>15 DEF Sound
  <2> QED
    BY <1>1, <1>3, <2>5, <2>6, <2>16, HInvFacts, StepHInv DEF Become
<1> QED
  BY <1>2, <1>3 DEF Posted

----------------------------------------------------------------------------
(* Grading *)

\* The current call's record is exchanged, its books aside untouched.
Reverdict(s, n, c) ==
  /\ n \in Handlers /\ n.req = s.req /\ n.buffered = s.buffered /\ n.held = s.held
  /\ n.shown = s.shown /\ n.lines = s.lines /\ n.scripted = s.scripted
  /\ n.script = s.script /\ n.got = s.got /\ n.appended = s.appended
  /\ Rebooked(s, n, c)
  /\ LET o == s.calls[Len(s.calls)]
     IN  c.status = o.status /\ c.committed = o.committed /\ c.metered = o.metered
         /\ c.errors = o.errors

\* An answer that was graded, or need not be, goes to the client.
LEMMA KeptSound ==
  ASSUME HInv, h.pc \in {"grading", "steppingUp"}, NEW c, NEW n, Reverdict(h, n, c),
         n.pc \in {"releasing", "closing", "done"},
         n.pc = "releasing" => n.buffered,
         n.pc = "closing" => OpenAI,
         RejectedKept(n)
  PROVE  Sound(n)
<1>1. h.calls # <<>> /\ h \in Handlers
  BY HInvFacts DEF Placed
<1> DEFINE o == h.calls[Len(h.calls)]
<1>2. /\ n.calls # <<>> /\ n.calls[Len(n.calls)] = c /\ Len(n.calls) = Len(h.calls)
      /\ c.route = o.route
  BY DEF Reverdict, Rebooked
<1>3. /\ o.status = "ok" /\ ~(o.route = Plan /\ h.req.surface # "openai")
      /\ h.got.finish # "length"
  BY <1>1, HInvFacts DEF CallBooks
<1>4. OwnBooks(h.req, o)
  BY <1>1, LastCallTyped, HInvFacts DEF TrailBooks, OwnBooks
<1>5. TrailBooks(n)
  <2>1. OwnBooks(h.req, c)
    BY <1>2, <1>4 DEF Reverdict, OwnBooks
  <2>2. Rebooked(h, n, c) /\ n.req = h.req
    BY DEF Reverdict
  <2> QED
    BY <1>1, <2>1, <2>2, HInvFacts, TrailRebooked
<1>6. Placed(n)
  <2>1. OpenAI <=> h.req.surface = "openai"
    BY DEF OpenAI
  <2>2. h.req.surface = "openai" => h.req.stream
    BY HInvFacts, RequestKinds
  <2> QED
    BY <1>2, <2>1, <2>2, HInvFacts DEF Placed, Reverdict
<1>7. ShownInOrder(n)
  BY <1>2, HInvFacts DEF ShownInOrder, Follows, Reverdict
<1>8. CallBooks(n)
  BY <1>2, <1>3 DEF CallBooks, Reverdict
<1> QED
  BY <1>5, <1>6, <1>7, <1>8 DEF Sound, Reverdict

LEMMA KeepFields ==
  ASSUME NEW s \in Handlers, s.req = h.req
  PROVE  LET p == Keep(s).pc
         IN  /\ Keep(s) = [s EXCEPT !.pc = p] /\ p \in {"releasing", "closing", "done"}
             /\ p = "releasing" => s.buffered
             /\ p = "closing" => OpenAI
             /\ p = "done" => ~s.buffered /\ ~OpenAI
<1>1. s.buffered \in BOOLEAN
  BY DEF Handlers
<1>2. CASE s.buffered
  <2>1. Keep(s) = [s EXCEPT !.pc = "releasing"]
    BY <1>2 DEF Keep
  <2> QED
    BY <1>2, <2>1 DEF Handlers
<1>3. CASE OpenAI /\ ~s.buffered
  <2>1. Keep(s) = [s EXCEPT !.pc = "closing"]
    BY <1>3 DEF Keep
  <2> QED
    BY <1>3, <2>1 DEF Handlers
<1>4. CASE ~s.buffered /\ ~(OpenAI /\ ~s.buffered)
  <2>1. Keep(s) = [s EXCEPT !.pc = "done"]
    BY <1>4 DEF Keep
  <2> QED
    BY <1>4, <2>1 DEF Handlers
<1> QED
  BY <1>2, <1>3, <1>4

LEMMA CheckVerdictsTyped ==
  ASSUME HInv, h.calls # <<>>, NEW v \in CheckVerdicts
  PROVE  v \in Verdicts
<1>1. Call.verdict \in Verdicts
  BY HInvFacts, LastCallTyped DEF Call, LastCall, Calls
<1>2. CASE v = Call.verdict
  BY <1>1, <1>2
<1>3. CASE v # Call.verdict
  <2>1. \E s \in {"unchecked", "adequate", "rejected", "unavailable"} :
          v = [status |-> s, to |-> NoRoute, escalations |-> Call.verdict.escalations]
    BY <1>3 DEF CheckVerdicts
  <2> QED
    BY <1>1, <2>1 DEF Verdicts
<1> QED
  BY <1>2, <1>3

LEMMA VerdictGiven ==
  ASSUME HInv, h.calls # <<>>, NEW v \in Verdicts,
         NEW s, s = [h EXCEPT !.calls[LastCall].verdict = v]
  PROVE  /\ s \in Handlers /\ s.pc = h.pc /\ s.budget = h.budget /\ s.checked = h.checked
         /\ s.calls[Len(s.calls)].verdict = v
         /\ Reverdict(h, s, s.calls[Len(s.calls)])
<1> DEFINE o == h.calls[Len(h.calls)]
           c == [o EXCEPT !.verdict = v]
<1>1. h \in Handlers /\ o \in Calls /\ Len(h.calls) \in 1..Len(h.calls) /\ h.calls \in Seq(Calls)
  BY HInvFacts, LastCallTyped
<1>2. c \in Calls /\ c.route = o.route /\ c.verdict = v /\ c.status = o.status
      /\ c.committed = o.committed /\ c.metered = o.metered /\ c.errors = o.errors
  BY <1>1 DEF Calls
<1>3. s = [h EXCEPT !.calls = [h.calls EXCEPT ![Len(h.calls)] = c]]
  BY <1>1 DEF LastCall
<1> HIDE DEF c
<1>4. [h.calls EXCEPT ![Len(h.calls)] = c] \in Seq(Calls)
  BY <1>1, <1>2
<1>5. /\ s \in Handlers /\ s.pc = h.pc /\ s.req = h.req
      /\ s.calls = [h.calls EXCEPT ![Len(h.calls)] = c]
      /\ s.buffered = h.buffered /\ s.appended = h.appended /\ s.held = h.held
      /\ s.shown = h.shown /\ s.lines = h.lines /\ s.scripted = h.scripted
      /\ s.script = h.script /\ s.got = h.got /\ s.budget = h.budget /\ s.checked = h.checked
  BY <1>1, <1>3, <1>4 DEF Handlers
<1>6. Rebooked(h, s, c)
  BY <1>1, <1>2, <1>5, Rebooking
<1>7. s.calls[Len(s.calls)] = c
  BY <1>6 DEF Rebooked
<1> QED
  BY <1>2, <1>5, <1>6, <1>7 DEF Reverdict

LEMMA GradeHInv ==
  ASSUME HInv, Grade
  PROVE  HInv'
<1>1. h.pc = "grading" /\ yielded = Nothing /\ h.calls # <<>> /\ h \in Handlers
  BY HInvFacts DEF Grade, Running, Placed
<1>0. PICK v \in CheckVerdicts :
        LET s     == [h EXCEPT !.calls[LastCall].verdict = v]
            taken == IF s.checked # NoVerdict /\ v.status = "unchecked" THEN s.checked ELSE v
            live  == OpenAI /\ ~s.buffered
            asks  == IF live THEN s.req.optIn ELSE s.budget > 0
        IN  Become(IF Escalates(taken) /\ asks
                   THEN [s EXCEPT !.pc = "steppingUp", !.budget = IF live THEN @ ELSE @ - 1]
                   ELSE Keep(s))
  BY DEF Grade
<1> DEFINE s == [h EXCEPT !.calls[LastCall].verdict = v]
           taken == IF s.checked # NoVerdict /\ v.status = "unchecked" THEN s.checked ELSE v
           c == s.calls[Len(s.calls)]
           live == OpenAI /\ ~s.buffered
           asks == IF live THEN s.req.optIn ELSE s.budget > 0
           left == IF live THEN s.budget ELSE s.budget - 1
<1>2. /\ s = [h EXCEPT !.calls[LastCall].verdict = v]
      /\ taken = IF s.checked # NoVerdict /\ v.status = "unchecked" THEN s.checked ELSE v
      /\ h' = IF Escalates(taken) /\ asks
              THEN [s EXCEPT !.pc = "steppingUp", !.budget = left] ELSE Keep(s)
      /\ UNCHANGED <<yielded, client>>
  BY <1>0 DEF Become
<1> HIDE DEF s, taken
<1>3. v \in Verdicts
  BY <1>1, CheckVerdictsTyped
<1>4. /\ s \in Handlers /\ s.pc = h.pc /\ s.budget = h.budget /\ s.checked = h.checked
      /\ c.verdict = v /\ Reverdict(h, s, c)
  BY <1>1, <1>2, <1>3, VerdictGiven
<1>5. /\ s.req = h.req /\ s.buffered = h.buffered /\ s.calls # <<>> /\ s.budget \in Nat
      /\ c \in Calls
  BY <1>4 DEF Reverdict, Rebooked, Handlers
<1>6. OpenAI <=> h.req.surface = "openai"
  BY DEF OpenAI
<1>7. CASE Escalates(taken) /\ asks
  <2>3. left \in Nat
    BY <1>5, <1>7
  <2>1. PICK n : n = [s EXCEPT !.pc = "steppingUp", !.budget = left]
    OBVIOUS
  <2>2. h' = n
    BY <1>2, <1>7, <2>1
  <2> HIDE DEF left
  <2>4. /\ n \in Handlers /\ n.pc = "steppingUp" /\ n.req = h.req /\ n.calls = s.calls
        /\ n.buffered = h.buffered /\ n.appended = h.appended /\ n.held = h.held
        /\ n.shown = h.shown /\ n.lines = h.lines /\ n.scripted = h.scripted
        /\ n.script = h.script /\ n.got = h.got
    BY <1>4, <2>1, <2>3 DEF Handlers, Steps, Reverdict
  <2>5. Rebooked(h, n, c) /\ Len(n.calls) = Len(h.calls)
    BY <1>4, <2>4 DEF Reverdict, Rebooked
  <2>6. TrailBooks(n)
    <3>1. OwnBooks(h.req, h.calls[Len(h.calls)])
      BY <1>1, LastCallTyped, HInvFacts DEF TrailBooks, OwnBooks
    <3>2. OwnBooks(h.req, c)
      BY <1>4, <3>1 DEF OwnBooks, Reverdict, Rebooked
    <3> QED
      BY <1>1, <2>4, <2>5, <3>2, HInvFacts, TrailRebooked
  <2>7. Placed(n)
    BY <1>1, <1>5, <1>6, <1>7, <2>4, HInvFacts DEF Placed
  <2>8. ShownInOrder(n)
    BY <1>1, <2>4, <2>5, HInvFacts DEF ShownInOrder, Follows
  <2>9. CallBooks(n)
    BY <1>1, <1>4, <2>4, <2>5, HInvFacts DEF CallBooks, Reverdict, Rebooked
  <2>10. RejectedKept(n)
    BY <2>4 DEF RejectedKept
  <2>11. Sound(n)
    BY <2>4, <2>6, <2>7, <2>8, <2>9, <2>10 DEF Sound
  <2> QED
    BY <1>1, <1>2, <2>2, <2>11, HInvFacts, StepHInv
<1>8. CASE ~(Escalates(taken) /\ asks)
  <2> DEFINE p == Keep(s).pc
  <2>1. h' = Keep(s)
    BY <1>2, <1>8
  <2>2. /\ Keep(s) = [s EXCEPT !.pc = p] /\ p \in {"releasing", "closing", "done"}
        /\ p = "releasing" => s.buffered
        /\ p = "closing" => OpenAI
    BY <1>4, <1>5, KeepFields
  <2> HIDE DEF p
  <2>3. PICK n : n = [s EXCEPT !.pc = p]
    OBVIOUS
  <2>4. /\ n \in Handlers /\ n.pc = p /\ n.req = h.req /\ n.calls = s.calls
        /\ n.buffered = h.buffered /\ n.appended = h.appended /\ n.held = h.held
        /\ n.shown = h.shown /\ n.lines = h.lines /\ n.scripted = h.scripted
        /\ n.script = h.script /\ n.got = h.got /\ n.budget = s.budget
    BY <1>4, <2>2, <2>3 DEF Handlers, Steps, Reverdict
  <2>5. Reverdict(h, n, c)
    BY <1>4, <2>4 DEF Reverdict, Rebooked
  <2>6. RejectedKept(n)
    <3>1. n.buffered \/ ~n.req.stream => ~(OpenAI /\ ~s.buffered)
      BY <1>1, <1>5, <1>6, <2>4, HInvFacts, RequestKinds
    <3>2. c.verdict.status = "rejected" /\ c.verdict.to = NoRoute => Escalates(taken)
      BY <1>2, <1>4 DEF Escalates
    <3>3. s.budget > 0 \/ s.budget = 0
      BY <1>5
    <3> QED
      BY <1>8, <2>4, <3>1, <3>2, <3>3 DEF RejectedKept
  <2>7. Sound(n)
    BY <1>1, <1>5, <2>2, <2>4, <2>5, <2>6, KeptSound
  <2> QED
    BY <1>1, <1>2, <2>1, <2>2, <2>3, <2>7, HInvFacts, StepHInv
<1> QED
  BY <1>7, <1>8

LEMMA StrongerIs ==
  ClearlyStronger(2) = Stronger(h)
BY DEF ClearlyStronger, Stronger, Tried, Call, LastCall

LEMMA TargetsTyped ==
  /\ \A r \in Targets : r \in Route /\ r # Plan
  /\ Targets = {} => Stronger(h) = {}
<1> DEFINE bar == ClearlyStronger(MinGain)
           above == bar \ Below
<1>1. \A g : ClearlyStronger(g) \subseteq Route \ {Plan}
  BY DEF ClearlyStronger
<1>2. bar \subseteq Route \ {Plan} /\ ClearlyStronger(2) \subseteq Route \ {Plan}
  BY <1>1
<1>3. CASE bar = {}
  <2>1. Targets = ClearlyStronger(2)
    BY <1>3 DEF Targets
  <2> QED
    BY <1>2, <2>1, StrongerIs
<1>4. CASE bar # {} /\ Call.route \in Below /\ above # {}
  <2>1. Targets = above
    BY <1>4 DEF Targets
  <2> QED
    BY <1>2, <1>4, <2>1
<1>5. CASE bar # {} /\ ~(Call.route \in Below /\ above # {})
  <2>1. Targets = bar
    BY <1>5 DEF Targets
  <2> QED
    BY <1>2, <1>5, <2>1
<1> QED
  BY <1>3, <1>4, <1>5

LEMMA GivenUpTyped ==
  ASSUME NEW o \in Calls, NEW v \in Verdicts
  PROVE  LET c == GivenUpFor(o, v)
         IN  /\ c \in Calls /\ c.verdict = v /\ c.route = o.route /\ c.status = o.status
             /\ c.committed = o.committed /\ c.metered = o.metered /\ c.errors = o.errors + 1
<1>1. PICK e \in Nat : e = o.errors + 1
  BY DEF Calls
<1>2. GivenUpFor(o, v) = [o EXCEPT !.verdict = v, !.errors = e]
  BY <1>1 DEF GivenUpFor
<1> QED
  BY <1>1, <1>2 DEF Calls

LEMMA GivenUpFields ==
  ASSUME HInv, h.calls # <<>>, NEW v \in Verdicts, NEW a \in BOOLEAN,
         NEW s, s = [h EXCEPT !.calls[LastCall] = GivenUpFor(@, v), !.checked = v,
                              !.appended = a]
  PROVE  /\ s \in Handlers /\ s.req = h.req /\ s.buffered = h.buffered /\ s.appended = a
         /\ s.shown = h.shown
         /\ Rebooked(h, s, GivenUpFor(h.calls[Len(h.calls)], v))
<1> DEFINE o == h.calls[Len(h.calls)]
           c == GivenUpFor(o, v)
<1>1. h \in Handlers /\ o \in Calls /\ Len(h.calls) \in 1..Len(h.calls) /\ h.calls \in Seq(Calls)
  BY HInvFacts, LastCallTyped
<1>2. c \in Calls /\ c.route = o.route
  BY <1>1, GivenUpTyped
<1>3. s = [h EXCEPT !.calls = [h.calls EXCEPT ![Len(h.calls)] = c], !.checked = v,
                    !.appended = a]
  BY <1>1 DEF LastCall
<1> HIDE DEF c
<1>4. [h.calls EXCEPT ![Len(h.calls)] = c] \in Seq(Calls)
  BY <1>1, <1>2
<1>5. /\ s \in Handlers /\ s.req = h.req /\ s.buffered = h.buffered /\ s.appended = a
      /\ s.shown = h.shown /\ s.calls = [h.calls EXCEPT ![Len(h.calls)] = c]
  <2> DEFINE calls == [h.calls EXCEPT ![Len(h.calls)] = c]
  <2>1. s = [h EXCEPT !.calls = calls, !.checked = v, !.appended = a] /\ calls \in Seq(Calls)
        /\ h \in Handlers /\ v \in Verdicts /\ a \in BOOLEAN
    BY <1>1, <1>3, <1>4
  <2> HIDE DEF calls
  <2>2. s \in Handlers
    BY ONLY <2>1 DEF Handlers
  <2>3. s.req = h.req /\ s.buffered = h.buffered /\ s.appended = a /\ s.shown = h.shown /\ s.calls = calls
    BY ONLY <2>1 DEF Handlers
  <2> QED
    BY <2>2, <2>3 DEF calls
<1>6. Rebooked(h, s, c)
  BY <1>1, <1>2, <1>5, Rebooking
<1> QED
  BY <1>5, <1>6 DEF c

\* The answer is given up for another route's.
LEMMA StepUpStart ==
  ASSUME HInv, h.pc = "steppingUp", NEW r \in Route, r # Plan, NEW a \in BOOLEAN,
         a => h.req.surface = "openai" /\ ~h.buffered,
         NEW v \in Verdicts, v.to = r,
         NEW s \in Handlers, s.req = h.req, s.buffered = h.buffered, s.appended = a,
         s.shown = h.shown, Rebooked(h, s, GivenUpFor(h.calls[Len(h.calls)], v))
  PROVE  LET n == Start(s, r, v)
         IN  /\ Sound(n) /\ n.pc = "calling" /\ n.req = h.req /\ n.buffered = h.buffered
<1> DEFINE o == h.calls[Len(h.calls)]
           c == GivenUpFor(o, v)
           n == Start(s, r, v)
<1>1. h \in Handlers /\ h.calls # <<>>
  BY HInvFacts DEF Placed
<1>2. o \in Calls /\ Len(h.calls) \in 1..Len(h.calls) /\ h.calls \in Seq(Calls)
  BY <1>1, LastCallTyped
<1>3. /\ c \in Calls /\ c.verdict = v /\ c.route = o.route /\ c.status = o.status
      /\ c.committed = o.committed /\ c.metered = o.metered /\ c.errors = o.errors + 1
  BY <1>2, GivenUpTyped
<1>7. Rebooked(h, s, c)
  OBVIOUS
<1> HIDE DEF c, o
<1>8. /\ n \in Handlers /\ n.pc = "calling" /\ n.req = s.req
      /\ n.buffered = s.buffered /\ n.appended = s.appended /\ n.shown = s.shown
      /\ n.held = <<>> /\ n.lines = 0 /\ n.script = <<>> /\ ~n.scripted
      /\ n.got = NothingGot
      /\ n.calls # <<>> /\ Len(n.calls) = Len(s.calls) + 1
      /\ n.calls[Len(n.calls)] = NewCall(r, v)
      /\ \A i \in 1..Len(s.calls) : n.calls[i] = s.calls[i]
  BY StartFields
<1> HIDE DEF n
<1>9. /\ Len(s.calls) = Len(h.calls) /\ n.calls[Len(h.calls)] = c
      /\ \A i \in 1..Len(h.calls) : i # Len(h.calls) => n.calls[i] = h.calls[i]
  BY <1>2, <1>7, <1>8 DEF Rebooked
<1>10. o.status = "ok" /\ ~(o.route = Plan /\ h.req.surface # "openai")
  BY <1>1, HInvFacts DEF CallBooks, o
<1>11. o.errors = 0 /\ (o.committed <=> o.metered)
  BY <1>2, <1>10, HInvFacts DEF TrailBooks, o
<1>12. TrailBooks(n)
  <2>1. /\ c.route = h.calls[Len(h.calls)].route /\ (c.committed <=> c.metered)
        /\ c.status = "ok" /\ c.errors = 1 /\ c.verdict.to = r
    BY <1>3, <1>10, <1>11 DEF o
  <2>2. n.req = h.req /\ Len(n.calls) = Len(h.calls) + 1
    BY <1>8, <1>9
  <2>3. /\ n.calls[Len(n.calls)] = NewCall(r, v)
        /\ \A i \in 1..Len(h.calls) : i # Len(h.calls) => n.calls[i] = h.calls[i]
        /\ n.calls[Len(h.calls)] = c
    BY <1>8, <1>9
  <2>4. h \in Handlers /\ TrailBooks(h) /\ (c.metered => c.status \in {"ok", "truncated"})
    BY <2>1, HInvFacts
  <2> QED
    BY <2>1, <2>2, <2>3, <2>4, TrailExtended
<1>13. Placed(n)
  <2>1. n.buffered => n.req.stream
    BY <1>8, HInvFacts DEF Placed
  <2> QED
    BY <1>8, <2>1 DEF Placed
<1>14. ShownInOrder(n)
  <2>1. ~h.buffered \/ h.shown = <<>>
    BY HInvFacts DEF ShownInOrder
  <2>2. h.shown # <<>> => h.req.stream /\ ~h.buffered /\ h.req.surface = "openai" /\ h.req.optIn
    BY <2>1, HInvFacts DEF ShownInOrder, Placed
  <2> QED
    BY <1>8, <2>2 DEF ShownInOrder, Follows
<1>15. CallBooks(n)
  <2>1. /\ NewCall(r, v).status = "pending" /\ NewCall(r, v).errors = 0
        /\ NewCall(r, v).route = r /\ ~NewCall(r, v).committed /\ ~NewCall(r, v).metered
    BY NewCallTyped
  <2> QED
    BY <1>8, <2>1 DEF CallBooks
<1>16. RejectedKept(n)
  BY <1>8 DEF RejectedKept
<1> QED
  BY <1>8, <1>12, <1>13, <1>14, <1>15, <1>16 DEF Sound, n

LEMMA StepUpHInv ==
  ASSUME HInv, StepUp
  PROVE  HInv'
<1>1. h.pc = "steppingUp" /\ yielded = Nothing /\ h.calls # <<>> /\ h \in Handlers
  BY HInvFacts DEF StepUp, HInv, Quiet, Placed
<1>2. CASE \E r \in Targets :
          LET v == [Call.verdict EXCEPT !.to = r, !.escalations = @ + 1]
              s == [h EXCEPT !.calls[LastCall] = GivenUpFor(@, v),
                             !.checked = v, !.appended = OpenAI /\ ~h.buffered]
          IN  IF s.appended THEN BecomeYielding(Start(s, r, v), Plain("metadata"))
              ELSE Become(Start(s, r, v))
  <2>1. PICK r \in Targets :
          LET v == [Call.verdict EXCEPT !.to = r, !.escalations = @ + 1]
              s == [h EXCEPT !.calls[LastCall] = GivenUpFor(@, v),
                             !.checked = v, !.appended = OpenAI /\ ~h.buffered]
          IN  IF s.appended THEN BecomeYielding(Start(s, r, v), Plain("metadata"))
              ELSE Become(Start(s, r, v))
    BY <1>2
  <2> DEFINE v == [Call.verdict EXCEPT !.to = r, !.escalations = @ + 1]
  <2>2. v \in Verdicts /\ v.to = r
    <3>1. Call.verdict \in Verdicts
      BY <1>1, LastCallTyped DEF Call, LastCall, Calls
    <3>2. r \in Route
      BY TargetsTyped
    <3>3. \A w \in Verdicts : [w EXCEPT !.to = r, !.escalations = @ + 1] \in Verdicts
      <4> TAKE w \in Verdicts
      <4>1. PICK e \in Nat : e = w.escalations + 1
        BY DEF Verdicts
      <4>2. [w EXCEPT !.to = r, !.escalations = e] \in Verdicts
        BY <3>2 DEF Verdicts
      <4> QED
        BY <4>1, <4>2
    <3>4. \A w \in Verdicts : [w EXCEPT !.to = r, !.escalations = @ + 1].to = r
      BY DEF Verdicts
    <3> QED
      BY <3>1, <3>3, <3>4
  <2>3. PICK a \in BOOLEAN : a = (OpenAI /\ ~h.buffered)
    BY DEF OpenAI
  <2> HIDE DEF v
  <2> DEFINE s == [h EXCEPT !.calls[LastCall] = GivenUpFor(@, v),
                            !.checked = v, !.appended = a]
             n == Start(s, r, v)
  <2>4. IF s.appended THEN BecomeYielding(n, Plain("metadata")) ELSE Become(n)
    BY <2>1, <2>3 DEF v
  <2>5. /\ Sound(n) /\ n.pc = "calling" /\ n.req = h.req /\ n.buffered = h.buffered
        /\ s.appended = a
    <3>1. r \in Route /\ r # Plan
      BY TargetsTyped
    <3>2. a => h.req.surface = "openai" /\ ~h.buffered
      BY <2>3 DEF OpenAI
    <3>3. PICK q : q = [h EXCEPT !.calls[LastCall] = GivenUpFor(@, v), !.checked = v,
                                 !.appended = a]
      OBVIOUS
    <3>4. /\ q \in Handlers /\ q.req = h.req /\ q.buffered = h.buffered /\ q.appended = a
          /\ q.shown = h.shown
          /\ Rebooked(h, q, GivenUpFor(h.calls[Len(h.calls)], v))
      BY <1>1, <2>2, <3>3, GivenUpFields
    <3>5. s = q
      BY <3>3
    <3> HIDE DEF s
    <3>6. /\ Sound(Start(q, r, v)) /\ Start(q, r, v).pc = "calling"
          /\ Start(q, r, v).req = h.req /\ Start(q, r, v).buffered = h.buffered
      BY <1>1, <2>2, <3>1, <3>2, <3>4, StepUpStart
    <3> QED
      BY <3>4, <3>5, <3>6
  <2> HIDE DEF s, n
  <2>6. CASE a
    <3>1. h' = n /\ yielded' = Plain("metadata") /\ client' = client
      BY <2>4, <2>5, <2>6 DEF BecomeYielding
    <3>2. ~Quiet(n)
      BY <2>3, <2>5, <2>6, HInvFacts, RequestKinds DEF Quiet, OpenAI
    <3> QED
      BY <2>5, <3>1, <3>2, HInvFacts, PlainTyped, StepHInv
  <2>7. CASE ~a
    <3>1. h' = n /\ yielded' = yielded /\ client' = client
      BY <2>4, <2>5, <2>7 DEF Become
    <3> QED
      BY <1>1, <2>5, <3>1, HInvFacts, StepHInv
  <2> QED
    BY <2>6, <2>7
<1>3. CASE Targets = {} /\ Become(Keep(h))
  <2> DEFINE p == Keep(h).pc
             o == h.calls[Len(h.calls)]
  <2>1. h' = Keep(h) /\ yielded' = yielded /\ client' = client
    BY <1>3 DEF Become
  <2>2. /\ Keep(h) = [h EXCEPT !.pc = p] /\ p \in {"releasing", "closing", "done"}
        /\ p = "releasing" => h.buffered
        /\ p = "closing" => OpenAI
    BY <1>1, KeepFields
  <2> HIDE DEF p
  <2>3. PICK n : n = [h EXCEPT !.pc = p]
    OBVIOUS
  <2>4. /\ n \in Handlers /\ n.pc = p /\ n.req = h.req /\ n.calls = h.calls
        /\ n.buffered = h.buffered /\ n.appended = h.appended /\ n.held = h.held
        /\ n.shown = h.shown /\ n.lines = h.lines /\ n.scripted = h.scripted
        /\ n.script = h.script /\ n.got = h.got
    BY <1>1, <2>2, <2>3 DEF Handlers, Steps
  <2>5. Reverdict(h, n, o)
    BY <1>1, <2>4, LastCallTyped DEF Reverdict, Rebooked
  <2>6. RejectedKept(n)
    BY <1>3, <2>4, SameCalls, TargetsTyped DEF RejectedKept
  <2>7. Sound(n)
    BY <1>1, <2>2, <2>4, <2>5, <2>6, KeptSound
  <2> QED
    BY <1>1, <2>1, <2>2, <2>3, <2>7, HInvFacts, StepHInv
<1> QED
  BY <1>2, <1>3 DEF StepUp

----------------------------------------------------------------------------
(* Delivery *)

\* One step further on the way to the end of the stream.
LEMMA SettledSound ==
  ASSUME HInv, h.pc \in {"releasing", "closing", "sentinel"},
         NEW p \in {"closing", "sentinel", "done"}, p # "done" => OpenAI
  PROVE  /\ Sound([h EXCEPT !.pc = p]) /\ [h EXCEPT !.pc = p].pc = p
         /\ [h EXCEPT !.pc = p].req = h.req
<1>1. PICK n : n = [h EXCEPT !.pc = p]
  OBVIOUS
<1>2. /\ n \in Handlers /\ n.pc = p /\ n.req = h.req /\ n.calls = h.calls
      /\ n.buffered = h.buffered /\ n.appended = h.appended /\ n.held = h.held
      /\ n.shown = h.shown /\ n.lines = h.lines /\ n.scripted = h.scripted
      /\ n.script = h.script /\ n.got = h.got /\ n.budget = h.budget
  BY <1>1, HInvFacts DEF Handlers, Steps
<1>3. TrailBooks(n) /\ Stronger(n) = Stronger(h)
  BY <1>2, HInvFacts, SameCalls
<1>4. Placed(n)
  BY <1>2, HInvFacts DEF Placed, OpenAI
<1>5. ShownInOrder(n)
  BY <1>2, HInvFacts DEF ShownInOrder, Follows
<1>6. CallBooks(n)
  BY <1>2, HInvFacts DEF CallBooks
<1>7. RejectedKept(n)
  BY <1>2, <1>3, HInvFacts DEF RejectedKept
<1> QED
  BY <1>1, <1>2, <1>3, <1>4, <1>5, <1>6, <1>7 DEF Sound

LEMMA ReleaseHInv ==
  ASSUME HInv, Release
  PROVE  HInv'
<1>1. h.pc = "releasing" /\ yielded = Nothing /\ h.req.stream /\ h \in Handlers
  BY HInvFacts DEF Release, Running, Placed
<1>2. CASE h.held # <<>>
  <2> DEFINE x == Tail(h.held)
  <2>1. h.held \in Seq(AnyEvent) /\ (h.req.surface = "openai" => h.held \in Seq({Plain("line")}))
    BY HInvFacts DEF Handlers, Placed
  <2>2. x \in Seq(AnyEvent) /\ (h.req.surface = "openai" => x \in Seq({Plain("line")}))
        /\ Head(h.held) \in AnyEvent
    BY <1>2, <2>1
  <2>3. h' = [h EXCEPT !.held = x] /\ yielded' = Head(h.held) /\ client' = client
    BY <1>1, <1>2 DEF Release, BecomeYielding
  <2> HIDE DEF x
  <2>4. PICK n : n = [h EXCEPT !.held = x]
    OBVIOUS
  <2>5. Holding(h, n) /\ n.held = x
    BY <1>1, <2>2, <2>4 DEF Handlers, Holding
  <2>6. Sound(n)
    BY <1>1, <2>2, <2>5, HInvFacts, HeldSound DEF Holding
  <2>7. ~Quiet(n)
    BY <1>1, <2>5 DEF Quiet, Holding
  <2> QED
    BY <2>2, <2>3, <2>4, <2>6, <2>7, HInvFacts, StepHInv
<1>3. CASE h.held = <<>>
  <2>1. PICK p \in {"closing", "done"} : /\ p # "done" => OpenAI
                                         /\ h' = [h EXCEPT !.pc = p]
    <3>1. h' = [h EXCEPT !.pc = IF OpenAI THEN "closing" ELSE "done"]
      BY <1>3 DEF Release, Become
    <3> QED
      BY <3>1
  <2>2. Sound([h EXCEPT !.pc = p])
    BY <1>1, <2>1, SettledSound
  <2> QED
    BY <1>1, <1>3, <2>1, <2>2, HInvFacts, StepHInv DEF Release, Become
<1> QED
  BY <1>2, <1>3

LEMMA CloseOpenAIHInv ==
  ASSUME HInv, CloseOpenAI
  PROVE  HInv'
<1>1. PICK p \in {"sentinel", "done"}, t \in {"metadata", "sentinel"} :
        /\ h.pc \in {"closing", "sentinel"} /\ h' = [h EXCEPT !.pc = p]
        /\ yielded' = Plain(t) /\ client' = client
  BY DEF CloseOpenAI, BecomeYielding
<1>2. OpenAI /\ h.req.stream
  BY <1>1, HInvFacts, RequestKinds DEF Placed, OpenAI
<1>3. PICK n : n = [h EXCEPT !.pc = p]
  OBVIOUS
<1>4. Sound(n) /\ n.pc = p /\ n.req = h.req
  BY <1>1, <1>2, <1>3, SettledSound
<1>5. ~Quiet(n)
  BY <1>2, <1>4 DEF Quiet
<1> QED
  BY <1>1, <1>3, <1>4, <1>5, HInvFacts, PlainTyped, StepHInv

LEMMA CollectHInv ==
  ASSUME HInv, Collect
  PROVE  HInv'
<1>1. h.pc = "reading" /\ h.buffered /\ h \in Handlers /\ h.req.surface # "openai"
  BY HInvFacts DEF Collect, HInv, Quiet
<1>2. h' = [h EXCEPT !.held = Append(h.held, yielded)] /\ yielded' = Nothing /\ client' = client
  BY <1>1 DEF Collect, Handlers
<1>3. Sound([h EXCEPT !.held = Append(h.held, yielded)])
  BY <1>1, HInvFacts, HeldMore
<1> QED
  BY <1>2, <1>3, HInvFacts, NothingIsAnEvent, StepHInv

LEMMA ClientKnows ==
  ASSUME HInv, Send
  PROVE  Knows(client')
<1>1. Knows(client)
  BY HInvFacts
<1>2. CASE h.pc = "watching"
  <2>0. ~OpenAI
    BY <1>2, HInvFacts DEF Placed, OpenAI
  <2>1. client' = client
    BY <1>2, <2>0 DEF Send
  <2> QED
    BY <1>1, <2>1
<1>3. CASE h.pc # "watching" /\ OpenAI
  <2>1. PICK p : client' = [client EXCEPT !.phase = p]
    BY <1>3 DEF Send
  <2>2. client' = [phase |-> p, used |-> client.used, open |-> client.open]
    BY <1>1, <2>1 DEF Knows
  <2> QED
    BY <2>2 DEF Knows
<1>4. CASE h.pc # "watching" /\ ~OpenAI
  <2>1. client' = See(client, yielded)
    BY <1>4 DEF Send
  <2> QED
    BY <1>1, <2>1, SeeKnows
<1> QED
  BY <1>2, <1>3, <1>4

LEMMA SendHInv ==
  ASSUME HInv, Send
  PROVE  HInv'
<1> DEFINE x == ShownNow
<1>1. /\ h' = [h EXCEPT !.shown = x] /\ yielded' = Nothing /\ yielded # Nothing
      /\ ~(h.buffered /\ h.pc = "reading")
  BY DEF Send
<1>2. ~Quiet(h) /\ h \in Handlers
  BY <1>1, HInvFacts DEF HInv
<1>3. h.shown \in Seq(Nat) /\ Len(h.calls) \in Nat
  BY <1>2 DEF Handlers
<1>4. \/ x = h.shown
      \/ /\ h.calls # <<>> /\ x = Append(h.shown, Len(h.calls))
         /\ h.shown # <<>> => h.shown[Len(h.shown)] # Len(h.calls)
  BY DEF ShownNow, LastCall
<1> HIDE DEF x
<1>5. x \in Seq(Nat)
  <2>1. \A q \in Seq(Nat), k \in Nat : Append(q, k) \in Seq(Nat)
    OBVIOUS
  <2> QED
    BY <1>3, <1>4, <2>1
<1>6. PICK n : n = [h EXCEPT !.shown = x]
  OBVIOUS
<1>7. /\ n \in Handlers /\ n.pc = h.pc /\ n.req = h.req /\ n.calls = h.calls
      /\ n.buffered = h.buffered /\ n.appended = h.appended /\ n.held = h.held
      /\ n.shown = x /\ n.lines = h.lines /\ n.scripted = h.scripted
      /\ n.script = h.script /\ n.got = h.got /\ n.budget = h.budget
  BY <1>2, <1>5, <1>6 DEF Handlers
<1>8. TrailBooks(n) /\ Stronger(n) = Stronger(h)
  BY <1>7, HInvFacts, SameCalls
<1>9. Placed(n)
  <2>1. n.pc # "new"
    BY <1>2, <1>7 DEF Quiet
  <2> QED
    BY <1>7, <2>1, HInvFacts DEF Placed
<1>10. ShownInOrder(n)
  <2>1. n.req.stream /\ n.pc \notin {"new", "forwarding"}
    BY <1>2, <1>7 DEF Quiet
  <2>2. n.buffered => n.pc \in {"releasing", "closing", "sentinel", "done", "aborted"}
    <3>1. h.buffered => h.pc \notin {"new", "grading", "steppingUp", "forwarding", "calling",
                                     "reading", "watching"}
      BY <1>1, <1>2, HInvFacts DEF Quiet, Placed
    <3> QED
      BY <1>7, <3>1 DEF Handlers, Steps
  <2>3. CASE x = h.shown
    BY <1>7, <2>1, <2>2, <2>3, HInvFacts DEF ShownInOrder, Follows
  <2>4. CASE /\ h.calls # <<>> /\ x = Append(h.shown, Len(h.calls))
             /\ h.shown # <<>> => h.shown[Len(h.shown)] # Len(h.calls)
    <3>1. Len(x) = Len(h.shown) + 1 /\ x[Len(x)] = Len(h.calls)
      BY <1>3, <2>4
    <3>2. Len(x) > 1 => h.shown # <<>>
      BY <1>3, <3>1
    <3>3. h.shown # <<>> => Follows(h)
      BY <2>4, HInvFacts DEF ShownInOrder
    <3> QED
      BY <1>7, <2>1, <2>2, <3>1, <3>2, <3>3 DEF ShownInOrder, Follows
  <2> QED
    BY <1>4, <2>3, <2>4
<1>11. CallBooks(n)
  BY <1>7, HInvFacts DEF CallBooks
<1>12. RejectedKept(n)
  BY <1>7, <1>8, HInvFacts DEF RejectedKept
<1>13. Sound(n)
  BY <1>7, <1>8, <1>9, <1>10, <1>11, <1>12 DEF Sound
<1> QED
  BY <1>1, <1>6, <1>13, ClientKnows, NothingIsAnEvent, StepHInv

----------------------------------------------------------------------------
(* Passthrough *)

\* The forwarded request's decision, with an outcome.
WithOutcome(o, t, b) == [o EXCEPT !.status = t, !.committed = b]

Outcomes == {"pending", "ok", "truncated", "upstream_error", "transport_error"}

\* What the two of them make of the handler s.
LEMMA ForwardedFields ==
  ASSUME NEW s \in Handlers, Len(s.calls) = LastCall,
         h.calls # <<>> => Call.route = s.calls[Len(s.calls)].route,
         s.calls = <<>> <=> h.calls = <<>>, NEW t \in Outcomes
  PROVE  LET o == s.calls[Len(s.calls)]
             u == IF o.route = Plan THEN t ELSE "not_taken"
             c == [o EXCEPT !.status = u]
         IN  /\ s.calls = <<>> => Forwarded(s, t) = s
             /\ s.calls # <<>> =>
                  /\ Forwarded(s, t) = [s EXCEPT !.calls = [s.calls EXCEPT ![Len(s.calls)] = c]]
                  /\ Forwarded(s, t) \in Handlers /\ Rebooked(s, Forwarded(s, t), c)
                  /\ c \in Calls /\ c.status = u /\ c.route = o.route /\ c.verdict = o.verdict
                  /\ c.committed = o.committed /\ c.metered = o.metered /\ c.errors = o.errors
<1> DEFINE o == s.calls[Len(s.calls)]
           u == IF o.route = Plan THEN t ELSE "not_taken"
           c == [o EXCEPT !.status = u]
<1>1. CASE s.calls = <<>>
  BY <1>1 DEF Forwarded
<1>2. CASE s.calls # <<>>
  <2>1. o \in Calls /\ Len(s.calls) \in 1..Len(s.calls) /\ s.calls \in Seq(Calls)
    BY <1>2, LastCallTyped
  <2>2. u \in {"pending", "ok", "truncated", "upstream_error", "transport_error", "not_taken"}
    BY DEF Outcomes
  <2>3. /\ c \in Calls /\ c.status = u /\ c.route = o.route /\ c.verdict = o.verdict
        /\ c.committed = o.committed /\ c.metered = o.metered /\ c.errors = o.errors
    BY <2>1, <2>2 DEF Calls
  <2>4. PICK n : n = Forwarded(s, t)
    OBVIOUS
  <2>5. n = [s EXCEPT !.calls = [s.calls EXCEPT ![Len(s.calls)] = c]]
    BY <1>2, <2>1, <2>4 DEF Forwarded
  <2> HIDE DEF c, u
  <2>6. [s.calls EXCEPT ![Len(s.calls)] = c] \in Seq(Calls)
    BY <2>1, <2>3
  <2>7. n \in Handlers /\ n.calls = [s.calls EXCEPT ![Len(s.calls)] = c]
    BY <2>5, <2>6 DEF Handlers
  <2>8. Rebooked(s, n, c)
    BY <1>2, <2>3, <2>7, Rebooking
  <2> QED
    BY <1>2, <2>3, <2>4, <2>5, <2>7, <2>8 DEF c, u
<1> QED
  BY <1>1, <1>2

\* A forwarded request whose decision has got its outcome, and the plan's
\* charge or none.
Passed(n, c) ==
  /\ n \in Handlers /\ n.req = h.req /\ n.buffered = h.buffered /\ n.held = h.held
  /\ n.shown = h.shown /\ n.lines = h.lines /\ n.scripted = h.scripted
  /\ n.script = h.script /\ n.got = h.got /\ n.appended = h.appended
  /\ Rebooked(h, n, c) /\ ~c.metered /\ c.errors = 0
  /\ c.committed => c.route = Plan
  /\ IF c.route = Plan THEN c.status \in Outcomes ELSE c.status = "not_taken"

LEMMA PassedSound ==
  ASSUME HInv, h.pc \in {"forwarding", "watching"}, h.calls # <<>>,
         NEW c, NEW n, Passed(n, c), n.pc \in {"watching", "done", "aborted"},
         n.pc = "watching" => c.route = Plan /\ c.status = "pending",
         c.status = "ok" => h.got.finish # "length",
         h.lines > 0 => (c.status = "truncated" <=> h.got.finish = "length")
  PROVE  Sound(n)
<1>1. h \in Handlers /\ h.req.stream /\ h.req.surface # "openai" /\ ~h.buffered /\ ~h.scripted
      /\ ~h.appended
  BY HInvFacts DEF Placed
<1>2. n.calls # <<>> /\ n.calls[Len(n.calls)] = c /\ Len(n.calls) = Len(h.calls)
  BY DEF Passed, Rebooked
<1>3. TrailBooks(n)
  <2>1. OwnBooks(h.req, c)
    BY <1>1 DEF Passed, OwnBooks, Outcomes, Rebooked, Calls
  <2>2. Rebooked(h, n, c) /\ n.req = h.req
    BY DEF Passed
  <2> QED
    BY <1>1, <2>1, <2>2, HInvFacts, TrailRebooked
<1>4. Placed(n)
  BY <1>1, <1>2 DEF Placed, Passed
<1>5. ShownInOrder(n)
  BY <1>1, <1>2, HInvFacts DEF ShownInOrder, Passed, Follows
<1>6. CallBooks(n)
  BY <1>1, <1>2 DEF CallBooks, Passed, Outcomes
<1>7. RejectedKept(n)
  BY <1>1 DEF RejectedKept, Passed
<1> QED
  BY <1>3, <1>4, <1>5, <1>6, <1>7 DEF Sound, Passed

\* The handler s is h, the plan's charge aside.
ChargedOnly(s) ==
  /\ s \in Handlers /\ s.req = h.req /\ s.buffered = h.buffered /\ s.held = h.held
  /\ s.shown = h.shown /\ s.lines = h.lines /\ s.scripted = h.scripted
  /\ s.script = h.script /\ s.got = h.got /\ s.appended = h.appended
  /\ LET c == s.calls[Len(s.calls)]
     IN  Rebooked(h, s, c) /\ ~c.metered /\ c.errors = 0 /\ (c.committed => c.route = Plan)

LEMMA ForwardingCall ==
  ASSUME HInv, h.pc \in {"forwarding", "watching"}, h.calls # <<>>
  PROVE  /\ h \in Handlers /\ ChargedOnly(h)
         /\ LET o == h.calls[Len(h.calls)]
            IN  o \in Calls /\ o.status = "pending" /\ ~o.metered /\ o.errors = 0
                /\ (h.pc = "watching" => o.route = Plan)
<1> DEFINE o == h.calls[Len(h.calls)]
<1>1. h \in Handlers /\ o \in Calls /\ Len(h.calls) \in 1..Len(h.calls) /\ h.calls \in Seq(Calls)
  BY HInvFacts, LastCallTyped
<1>2. /\ o.status = "pending" /\ o.errors = 0 /\ ~o.metered
      /\ h.pc = "watching" => o.route = Plan
      /\ o.committed => o.route = Plan
  BY HInvFacts DEF CallBooks
<1> QED
  BY <1>1, <1>2 DEF ChargedOnly, Rebooked

LEMMA ServedCharges ==
  ASSUME HInv, h.pc = "forwarding", h.calls # <<>>
  PROVE  ChargedOnly(Served(h))
<1> DEFINE o == h.calls[Len(h.calls)]
           c == [o EXCEPT !.committed = TRUE]
<1>1. /\ h \in Handlers /\ ChargedOnly(h) /\ o \in Calls /\ o.status = "pending"
      /\ ~o.metered /\ o.errors = 0
  BY ForwardingCall
<1>2. Len(h.calls) \in 1..Len(h.calls) /\ h.calls \in Seq(Calls) /\ Call = o
  BY <1>1, LastCallTyped DEF Call, LastCall
<1>3. CASE o.route = Plan
  <2>1. PICK n : n = Served(h)
    OBVIOUS
  <2>2. n = [h EXCEPT !.calls = [h.calls EXCEPT ![Len(h.calls)] = c]]
    BY <1>2, <1>3, <2>1 DEF Served
  <2>3. c \in Calls /\ c.route = Plan /\ ~c.metered /\ c.errors = 0
    BY <1>1, <1>3 DEF Calls
  <2> HIDE DEF c
  <2>4. [h.calls EXCEPT ![Len(h.calls)] = c] \in Seq(Calls)
    BY <1>2, <2>3
  <2>5. /\ n \in Handlers /\ n.req = h.req /\ n.buffered = h.buffered /\ n.held = h.held
        /\ n.shown = h.shown /\ n.lines = h.lines /\ n.scripted = h.scripted
        /\ n.script = h.script /\ n.got = h.got /\ n.appended = h.appended
        /\ n.calls = [h.calls EXCEPT ![Len(h.calls)] = c]
    BY <1>1, <2>2, <2>4 DEF Handlers
  <2>6. Rebooked(h, n, c)
    BY <1>1, <1>3, <2>3, <2>5, Rebooking
  <2>7. n.calls[Len(n.calls)] = c
    BY <2>6 DEF Rebooked
  <2> QED
    BY <2>1, <2>3, <2>5, <2>6, <2>7 DEF ChargedOnly
<1>4. CASE o.route # Plan
  <2>1. Served(h) = h
    BY <1>2, <1>4 DEF Served
  <2> QED
    BY <1>1, <2>1
<1> QED
  BY <1>3, <1>4

LEMMA ForwardedPassed ==
  ASSUME HInv, h.pc \in {"forwarding", "watching"}, h.calls # <<>>,
         NEW s, ChargedOnly(s), NEW t \in Outcomes, NEW p \in {"watching", "done", "aborted"},
         p = "watching" => Call.route = Plan /\ t = "pending",
         t = "ok" => h.got.finish # "length",
         h.lines > 0 => Call.route = Plan /\ (t = "truncated" <=> h.got.finish = "length")
  PROVE  Sound([Forwarded(s, t) EXCEPT !.pc = p])
<1> DEFINE o == s.calls[Len(s.calls)]
           u == IF o.route = Plan THEN t ELSE "not_taken"
           c == [o EXCEPT !.status = u]
           m == Forwarded(s, t)
           n == [m EXCEPT !.pc = p]
<1>1. /\ s \in Handlers /\ Rebooked(h, s, o) /\ ~o.metered /\ o.errors = 0
      /\ o.committed => o.route = Plan
  BY DEF ChargedOnly
<1>2. /\ s.calls # <<>> /\ Len(s.calls) = LastCall /\ o.route = Call.route
  BY <1>1 DEF Rebooked, LastCall, Call
<1>3. /\ m = [s EXCEPT !.calls = [s.calls EXCEPT ![Len(s.calls)] = c]]
      /\ m \in Handlers /\ Rebooked(s, m, c)
      /\ c \in Calls /\ c.status = u /\ c.route = o.route
      /\ c.committed = o.committed /\ c.metered = o.metered /\ c.errors = o.errors
  BY <1>1, <1>2, ForwardedFields
<1> HIDE DEF m, c
<1>4. /\ n \in Handlers /\ n.pc = p /\ n.req = s.req /\ n.calls = m.calls
      /\ n.buffered = s.buffered /\ n.appended = s.appended /\ n.held = s.held
      /\ n.shown = s.shown /\ n.lines = s.lines /\ n.scripted = s.scripted
      /\ n.script = s.script /\ n.got = s.got
  BY <1>1, <1>3 DEF Handlers, Steps
<1> HIDE DEF n
<1>5. Rebooked(h, n, c)
  BY <1>1, <1>3, <1>4 DEF Rebooked
<1>6. Passed(n, c)
  <2>1. IF c.route = Plan THEN c.status \in Outcomes ELSE c.status = "not_taken"
    BY <1>3
  <2>2. c.committed => c.route = Plan
    BY <1>1, <1>3
  <2> QED
    BY <1>1, <1>3, <1>4, <1>5, <2>1, <2>2 DEF Passed, ChargedOnly
<1>7. /\ n.pc = "watching" => c.route = Plan /\ c.status = "pending"
      /\ c.status = "ok" => h.got.finish # "length"
      /\ h.lines > 0 => (c.status = "truncated" <=> h.got.finish = "length")
  BY <1>2, <1>3, <1>4
<1>8. Sound(n)
  BY <1>4, <1>6, <1>7, PassedSound
<1> QED
  BY <1>8 DEF n, m

LEMMA ForwardEnd ==
  ASSUME HInv, h.pc = "forwarding", NEW s, s = h \/ s = Served(h),
         NEW t \in Outcomes, NEW p \in {"watching", "done"},
         p = "watching" => h.calls # <<>> /\ Call.route = Plan /\ t = "pending",
         h' = [Forwarded(s, t) EXCEPT !.pc = p], UNCHANGED <<yielded, client>>
  PROVE  HInv'
<1>1. yielded = Nothing /\ h.lines = 0 /\ h.got = NothingGot /\ h \in Handlers
  BY HInvFacts DEF HInv, Quiet, Placed
<1>2. CASE h.calls # <<>>
  <2>1. ChargedOnly(s)
    BY <1>2, ForwardingCall, ServedCharges
  <2>2. h.got.finish = "none" /\ ~(h.lines > 0)
    BY <1>1 DEF NothingGot
  <2>3. PICK n : n = [Forwarded(s, t) EXCEPT !.pc = p]
    OBVIOUS
  <2>4. Sound(n)
    BY <1>2, <2>1, <2>2, <2>3, ForwardedPassed
  <2> QED
    BY <1>1, <2>3, <2>4, HInvFacts, StepHInv
<1>3. CASE h.calls = <<>>
  <2>1. s = h /\ Forwarded(h, t) = h /\ p = "done"
    BY <1>3 DEF Served, Forwarded
  <2>2. PICK n : n = [h EXCEPT !.pc = "done"]
    OBVIOUS
  <2>3. /\ n \in Handlers /\ n.pc = "done" /\ n.req = h.req /\ n.calls = h.calls
        /\ n.buffered = h.buffered /\ n.appended = h.appended /\ n.held = h.held
        /\ n.shown = h.shown /\ n.lines = h.lines /\ n.scripted = h.scripted
        /\ n.script = h.script /\ n.got = h.got
    BY <1>1, <2>2 DEF Handlers, Steps
  <2>4. Placed(n)
    BY <2>3, HInvFacts DEF Placed
  <2>5. ShownInOrder(n)
    BY <2>3, HInvFacts DEF ShownInOrder
  <2>6. Sound(n)
    BY <1>3, <2>3, <2>4, <2>5, NoCallYet DEF Sound
  <2> QED
    BY <1>1, <2>1, <2>2, <2>6, HInvFacts, StepHInv
<1> QED
  BY <1>2, <1>3

LEMMA ForwardHInv ==
  ASSUME HInv, ForwardFails \/ ForwardAnswers \/ ForwardStreams
  PROVE  HInv'
<1>1. h.pc = "forwarding" /\ UNCHANGED <<yielded, client>>
  BY DEF ForwardFails, ForwardAnswers, ForwardStreams, Forwarding, Become
<1>2. yielded = Nothing
  BY <1>1 DEF HInv, Quiet
<1>3. CASE h' = [Forwarded(h, "upstream_error") EXCEPT !.pc = "done"]
  BY <1>1, <1>3, ForwardEnd DEF Outcomes
<1>4. CASE h' = [h EXCEPT !.pc = "aborted"]
  BY <1>1, <1>2, <1>4, GivenUp
<1>5. CASE ForwardAnswers
  <2>1. PICK t \in Outcomes : h' = [Forwarded(Served(h), t) EXCEPT !.pc = "done"]
    <3>1. PICK cut \in BOOLEAN :
            h' = [Forwarded(Served(h), PlanOutcome(TRUE, cut, FALSE, FALSE)) EXCEPT !.pc = "done"]
      BY <1>5 DEF ForwardAnswers, Become
    <3>2. PlanOutcome(TRUE, cut, FALSE, FALSE) \in Outcomes
      BY DEF PlanOutcome, Outcomes
    <3> QED
      BY <3>1, <3>2
  <2>2. PICK s : s = Served(h)
    OBVIOUS
  <2> QED
    BY <1>1, <2>1, <2>2, ForwardEnd
<1>6. CASE ForwardStreams
  <2>1. PICK p \in {"watching", "done"} :
          /\ p = "watching" => h.calls # <<>> /\ Call.route = Plan
          /\ h' = [Forwarded(Served(h), "pending") EXCEPT !.pc = p]
    BY <1>6 DEF ForwardStreams, Become
  <2>2. PICK s : s = Served(h)
    OBVIOUS
  <2>3. "pending" \in Outcomes
    BY DEF Outcomes
  <2> QED
    BY <1>1, <2>1, <2>2, <2>3, ForwardEnd
<1> QED
  BY <1>3, <1>4, <1>5, <1>6 DEF ForwardFails, Become

\* The plan's watcher, with the chunk it has passed on.
Watches(n) ==
  /\ n \in Handlers /\ n.pc = "watching" /\ n.req = h.req /\ n.calls = h.calls
  /\ n.buffered = h.buffered /\ n.held = h.held /\ n.shown = h.shown
  /\ n.scripted = h.scripted /\ n.appended = h.appended

LEMMA WatchesSound ==
  ASSUME HInv, h.pc = "watching", NEW n, Watches(n)
  PROVE  Sound(n) /\ ~Quiet(n)
<1>1. h.calls # <<>> /\ h.req.stream /\ ~h.buffered
  BY HInvFacts DEF Placed
<1>2. h.calls[Len(h.calls)].status = "pending"
  BY <1>1, ForwardingCall
<1>3. TrailBooks(n)
  BY HInvFacts, SameCalls DEF Watches
<1>4. Placed(n)
  BY HInvFacts DEF Placed, Watches
<1>5. ShownInOrder(n)
  BY HInvFacts DEF ShownInOrder, Follows, Watches
<1>6. CallBooks(n)
  BY <1>1, <1>2, HInvFacts DEF CallBooks, Watches
<1>7. RejectedKept(n)
  BY DEF RejectedKept, Watches
<1> QED
  BY <1>1, <1>3, <1>4, <1>5, <1>6, <1>7 DEF Sound, Watches, Quiet

LEMMA PassChunkHInv ==
  ASSUME HInv, PassChunk
  PROVE  HInv'
<1>1. PICK says \in Said :
        /\ h' = [h EXCEPT !.lines = h.lines + 1, !.script = <<says>>]
        /\ yielded' = Plain("line") /\ client' = client /\ h.pc = "watching"
  BY HInvFacts DEF PassChunk, BecomeYielding, Said, Handlers
<1>2. <<says>> \in Seq(Line \cup Said)
  OBVIOUS
<1>3. PICK w \in Seq(Line \cup Said) : w = <<says>>
  BY <1>2
<1>4. PICK k \in Nat : k = h.lines + 1
  BY HInvFacts DEF Handlers
<1>5. PICK n : n = [h EXCEPT !.lines = k, !.script = w]
  OBVIOUS
<1>6. Watches(n)
  BY <1>1, <1>5, HInvFacts DEF Handlers, Watches
<1>7. h' = n
  BY <1>1, <1>3, <1>4, <1>5
<1> QED
  BY <1>1, <1>6, <1>7, HInvFacts, PlainTyped, StepHInv, WatchesSound

LEMMA ReadChunkHInv ==
  ASSUME HInv, ReadChunk
  PROVE  HInv'
<1>1. h.pc = "watching" /\ yielded = Nothing /\ UNCHANGED <<yielded, client>>
  BY DEF ReadChunk, Running, Become
<1>2. PICK g \in [text : BOOLEAN, tools : BOOLEAN, finish : Finish] :
        h' = [h EXCEPT !.script = <<>>, !.got = g]
  <2>1. h.got \in [text : BOOLEAN, tools : BOOLEAN, finish : Finish] /\ h \in Handlers
    BY HInvFacts DEF Handlers
  <2> DEFINE says == Head(h.script)
             open == h.got.finish # "length"
  <2>2. PICK f \in Finish : f = IF open /\ says = "length" THEN "length" ELSE h.got.finish
    BY <2>1 DEF Finish
  <2>3. PICK b \in BOOLEAN : b = (h.got.tools \/ (open /\ says = "error"))
    OBVIOUS
  <2>4. h' = [h EXCEPT !.script = <<>>, !.got.finish = f, !.got.tools = b]
    BY <2>1, <2>2, <2>3 DEF ReadChunk, Become
  <2>5. h' = [h EXCEPT !.script = <<>>, !.got = [h.got EXCEPT !.finish = f, !.tools = b]]
    BY <2>1, <2>4 DEF Handlers
  <2>6. [h.got EXCEPT !.finish = f, !.tools = b]
          \in [text : BOOLEAN, tools : BOOLEAN, finish : Finish]
    BY <2>1
  <2> QED
    BY <2>5, <2>6
<1>3. PICK w \in Seq(Line \cup Said) : w = <<>>
  <2>1. <<>> \in Seq(Line \cup Said)
    OBVIOUS
  <2> QED
    BY <2>1
<1>4. PICK n : n = [h EXCEPT !.script = w, !.got = g]
  OBVIOUS
<1>5. Watches(n)
  BY <1>1, <1>4, HInvFacts DEF Handlers, Watches
<1> QED
  BY <1>1, <1>2, <1>3, <1>4, <1>5, HInvFacts, StepHInv, WatchesSound

LEMMA WatchedSound ==
  ASSUME HInv, h.pc = "watching", NEW b \in BOOLEAN, NEW p \in {"done", "aborted"}
  PROVE  Sound([WatchedOutcome(b) EXCEPT !.pc = p])
<1>1. h.calls # <<>> /\ h.got \in [text : BOOLEAN, tools : BOOLEAN, finish : Finish]
  BY HInvFacts DEF Placed, Handlers
<1>2. ChargedOnly(h) /\ Call.route = Plan
  BY <1>1, ForwardingCall DEF Call, LastCall
<1> DEFINE t == PlanOutcome(TRUE, h.got.finish = "length", h.got.tools, b)
<1>3. /\ t \in Outcomes /\ (t = "ok" => h.got.finish # "length")
      /\ t = "truncated" <=> h.got.finish = "length"
  BY <1>1 DEF PlanOutcome, Outcomes
<1>4. WatchedOutcome(b) = Forwarded(h, t)
  BY DEF WatchedOutcome
<1> HIDE DEF t
<1> QED
  BY <1>1, <1>2, <1>3, <1>4, ForwardedPassed

LEMMA WatchEndsHInv ==
  ASSUME HInv, WatchEnds
  PROVE  HInv'
<1>1. h.pc = "watching" /\ yielded = Nothing /\ UNCHANGED <<yielded, client>>
  BY DEF WatchEnds, Running, Become
<1>2. PICK b \in BOOLEAN, p \in {"done", "aborted"} :
        h' = [WatchedOutcome(b) EXCEPT !.pc = p]
  BY DEF WatchEnds, Become
<1>3. PICK n : n = [WatchedOutcome(b) EXCEPT !.pc = p]
  OBVIOUS
<1>4. Sound(n)
  BY <1>1, <1>3, WatchedSound
<1> QED
  BY <1>1, <1>2, <1>3, <1>4, HInvFacts, StepHInv

LEMMA ClientGoneHInv ==
  ASSUME HInv, ClientGone
  PROVE  HInv'
<1>1. yielded' = Nothing /\ client' = client
  BY DEF ClientGone
<1>2. CASE h.pc = "watching"
  <2>1. h' = [WatchedOutcome(TRUE) EXCEPT !.pc = "aborted"]
    BY <1>2 DEF ClientGone
  <2>2. PICK n : n = [WatchedOutcome(TRUE) EXCEPT !.pc = "aborted"]
    OBVIOUS
  <2>3. Sound(n)
    BY <1>2, <2>2, WatchedSound
  <2> QED
    BY <1>1, <2>1, <2>2, <2>3, HInvFacts, NothingIsAnEvent, StepHInv
<1>3. CASE h.pc # "watching"
  <2>1. h' = [h EXCEPT !.pc = "aborted"]
    BY <1>3 DEF ClientGone
  <2> QED
    BY <1>1, <1>3, <2>1, GivenUp
<1> QED
  BY <1>2, <1>3

----------------------------------------------------------------------------
(* The theorems about the handler *)

LEMMA InitHInv ==
  ASSUME Init
  PROVE  HInv /\ Numbering
<1>1. PICK q \in Requests : h = Idle(q)
  BY DEF Init
<1>2. Idle(q) \in Handlers
  BY IdleTyped
<1>3. /\ h.req = q /\ h.pc = "new" /\ h.calls = <<>> /\ ~h.buffered /\ ~h.appended
      /\ h.held = <<>> /\ h.shown = <<>> /\ h.lines = 0 /\ ~h.scripted /\ h.script = <<>>
      /\ h.got = NothingGot
  BY <1>1 DEF Idle
<1>4. Placed(h)
  BY <1>1, <1>3 DEF Placed
<1>5. ShownInOrder(h)
  BY <1>3 DEF ShownInOrder
<1>6. Sound(h)
  BY <1>1, <1>2, <1>3, <1>4, <1>5, NoCallYet DEF Sound
<1>7. Knows(client)
  BY DEF Init, NewClient, Knows
<1> QED
  BY <1>6, <1>7, NothingIsAnEvent, NewTranslationNumbered DEF Init, HInv

LEMMA SameTranslation ==
  ASSUME Numbering, tr' = tr
  PROVE  Numbering' /\ InStep' = InStep
BY DEF Numbering, InStep, Blocks

LEMMA NextHInv ==
  ASSUME HInv, Numbering, [Next]_vars
  PROVE  HInv' /\ Numbering'
<1>1. CASE Refuse \/ RouteOther
  BY <1>1, RefuseHInv, SameTranslation DEF Refuse, RouteOther, Become
<1>2. CASE RouteOpenAI
  BY <1>2, RouteOpenAIHInv, SameTranslation DEF RouteOpenAI, Become
<1>3. CASE RouteAnthropic
  <2>1. /\ h.pc = "new" /\ UNCHANGED <<yielded, client>> /\ tr' = tr /\ Sound(h')
    BY <1>3, RouteAnthropicCases
  <2>2. PICK n : n = h'
    OBVIOUS
  <2> QED
    BY <2>1, <2>2, FreshHInv, SameTranslation
<1>4. CASE Open
  BY <1>4, OpenHInv
<1>5. CASE RefusedUpstream
  BY <1>5, RefusedUpstreamHInv, SameTranslation
     DEF RefusedUpstream, Tell, Become, BecomeYielding
<1>6. CASE Broken
  BY <1>6, BrokenHInv, SameTranslation DEF Broken, Tell, Become, BecomeYielding
<1>7. CASE ForwardLine
  BY <1>7, ForwardLineHInv, SameTranslation DEF ForwardLine, Tell, Become, BecomeYielding
<1>8. CASE TranslateLine
  BY <1>8, TranslateLineHInv
<1>9. CASE TranslateOn
  BY <1>9, TranslateOnHInv
<1>10. CASE EndOfUpstream
  BY <1>10, EndOfUpstreamHInv
<1>11. CASE TranslationDone
  BY <1>11, TranslationDoneHInv, SameTranslation DEF TranslationDone, Become
<1>12. CASE TranslationRaised
  BY <1>12, TranslationRaisedHInv, SameTranslation
     DEF TranslationRaised, Tell, Become, BecomeYielding
<1>13. CASE Posted
  BY <1>13, PostedHInv, SameTranslation DEF Posted, Become
<1>14. CASE Grade
  BY <1>14, GradeHInv, SameTranslation DEF Grade, Become
<1>15. CASE StepUp
  BY <1>15, StepUpHInv, SameTranslation DEF StepUp, Become, BecomeYielding
<1>16. CASE Release
  BY <1>16, ReleaseHInv, SameTranslation DEF Release, Become, BecomeYielding
<1>17. CASE CloseOpenAI
  BY <1>17, CloseOpenAIHInv, SameTranslation DEF CloseOpenAI, BecomeYielding
<1>18. CASE Collect
  BY <1>18, CollectHInv, SameTranslation DEF Collect
<1>19. CASE Send
  BY <1>19, SendHInv, SameTranslation DEF Send
<1>20. CASE ForwardFails \/ ForwardAnswers \/ ForwardStreams
  BY <1>20, ForwardHInv, SameTranslation DEF ForwardFails, ForwardAnswers, ForwardStreams, Become
<1>21. CASE PassChunk
  BY <1>21, PassChunkHInv, SameTranslation DEF PassChunk, BecomeYielding
<1>22. CASE ReadChunk
  BY <1>22, ReadChunkHInv, SameTranslation DEF ReadChunk, Become
<1>23. CASE WatchEnds
  BY <1>23, WatchEndsHInv, SameTranslation DEF WatchEnds, Become
<1>24. CASE ClientGone
  BY <1>24, ClientGoneHInv, SameTranslation DEF ClientGone
<1>25. CASE UNCHANGED vars
  <2>1. h' = h /\ yielded' = yielded /\ client' = client /\ tr' = tr
    BY <1>25 DEF vars
  <2> QED
    BY <2>1, HInvFacts, SameTranslation, StepHInv DEF HInv
<1> QED
  BY <1>1, <1>2, <1>3, <1>4, <1>5, <1>6, <1>7, <1>8, <1>9, <1>10, <1>11, <1>12, <1>13,
     <1>14, <1>15, <1>16, <1>17, <1>18, <1>19, <1>20, <1>21, <1>22, <1>23, <1>24, <1>25
     DEF Next

\* The handler's own invariant: where it stands, what it holds back and what
\* it has booked fit one another, on every surface.
THEOREM HandlerTheorem == Spec => [](HInv /\ Numbering)
<1>1. Init => HInv /\ Numbering
  BY InitHInv
<1>2. HInv /\ Numbering /\ [Next]_vars => (HInv /\ Numbering)'
  BY NextHInv
<1> QED
  BY <1>1, <1>2, PTL DEF Spec

\* A client never gets two answers where the surface hands out one, and no
\* answer the judge rejected while there was something better left to try.
THEOREM AnswersHeldBackTheorem == Spec => []AnswersHeldBack
<1>1. HInv => AnswersHeldBack
  <2> SUFFICES ASSUME HInv PROVE AnswersHeldBack
    OBVIOUS
  <2>1. h.shown # <<>> /\ h.buffered => h.shown = <<LastCall>>
    <3> SUFFICES ASSUME h.shown # <<>>, h.buffered PROVE h.shown = <<LastCall>>
      OBVIOUS
    <3>1. h.shown \in Seq(Nat) /\ Len(h.shown) \in Nat \ {0}
      BY HInvFacts DEF Handlers
    <3>2. ~(Len(h.shown) > 1) /\ h.shown[Len(h.shown)] = Len(h.calls)
      BY HInvFacts DEF ShownInOrder, Follows
    <3> QED
      BY <3>1, <3>2 DEF LastCall
  <2>2. Len(h.shown) > 1 => OpenAI /\ h.req.optIn /\ ~h.buffered
    <3>1. Len(h.shown) > 1 => h.shown # <<>>
      BY HInvFacts DEF Handlers
    <3> QED
      BY <3>1, HInvFacts DEF ShownInOrder, Follows, OpenAI
  <2>3. RejectedHeldBack
    BY HInvFacts, StrongerIs DEF RejectedHeldBack, RejectedKept, Call, LastCall
  <2> QED
    BY <2>1, <2>2, <2>3 DEF AnswersHeldBack, OneAnswer
<1> QED
  BY <1>1, HandlerTheorem, PTL

\* What is booked for each call is what became of it, and the conversation and
\* the metrics are told the same.
THEOREM BooksHonestTheorem == Spec => []BooksHonest
<1>1. HInv => BooksHonest
  <2> SUFFICES ASSUME HInv PROVE BooksHonest
    OBVIOUS
  <2>1. OutcomesHonest
    BY HInvFacts DEF OutcomesHonest, CallBooks, PlanTurn, OpenAI, Call, LastCall
  <2>2. BooksAgree
    BY HInvFacts DEF BooksAgree, TrailBooks, PlanTurn, OpenAI, LastCall
  <2> QED
    BY <2>1, <2>2 DEF BooksHonest
<1> QED
  BY <1>1, HandlerTheorem, PTL

----------------------------------------------------------------------------
(* Where each step leaves what the client is to get *)

LEMMA GradeMoves ==
  ASSUME HInv, Grade
  PROVE  /\ h'.req = h.req /\ h'.held = h.held /\ h'.buffered = h.buffered
         /\ h'.shown = h.shown
         /\ h'.pc \in {"steppingUp", "releasing", "closing", "done"}
         /\ h'.pc = "releasing" => h.buffered
         /\ h'.pc = "closing" => OpenAI
         /\ h'.pc = "done" => ~h.buffered /\ ~OpenAI
<1>1. h.calls # <<>> /\ h \in Handlers
  BY HInvFacts DEF Grade, Placed
<1>2. PICK v \in CheckVerdicts :
        LET s     == [h EXCEPT !.calls[LastCall].verdict = v]
            taken == IF s.checked # NoVerdict /\ v.status = "unchecked" THEN s.checked ELSE v
            live  == OpenAI /\ ~s.buffered
            asks  == IF live THEN s.req.optIn ELSE s.budget > 0
        IN  Become(IF Escalates(taken) /\ asks
                   THEN [s EXCEPT !.pc = "steppingUp", !.budget = IF live THEN @ ELSE @ - 1]
                   ELSE Keep(s))
  BY DEF Grade
<1> DEFINE s == [h EXCEPT !.calls[LastCall].verdict = v]
           left == IF OpenAI /\ ~s.buffered THEN s.budget ELSE s.budget - 1
<1>3. h' = [s EXCEPT !.pc = "steppingUp", !.budget = left] \/ h' = Keep(s)
  BY <1>2 DEF Become
<1>4. s \in Handlers /\ s.req = h.req /\ s.held = h.held /\ s.buffered = h.buffered
      /\ s.shown = h.shown
  BY <1>1, CheckVerdictsTyped, VerdictGiven DEF Reverdict
<1> HIDE DEF s, left
<1>5. CASE h' = [s EXCEPT !.pc = "steppingUp", !.budget = left]
  BY <1>4, <1>5 DEF Handlers
<1>6. CASE h' = Keep(s)
  <2> DEFINE p == Keep(s).pc
  <2>1. /\ Keep(s) = [s EXCEPT !.pc = p] /\ p \in {"releasing", "closing", "done"}
        /\ p = "releasing" => s.buffered
        /\ p = "closing" => OpenAI
        /\ p = "done" => ~s.buffered /\ ~OpenAI
    BY <1>4, KeepFields
  <2> HIDE DEF p
  <2> QED
    BY <1>4, <1>6, <2>1 DEF Handlers
<1> QED
  BY <1>3, <1>5, <1>6

LEMMA StepUpMoves ==
  ASSUME HInv, StepUp
  PROVE  /\ h'.req = h.req /\ h'.buffered = h.buffered /\ h'.shown = h.shown
         /\ \/ /\ h'.pc = "calling"
               /\ yielded' = yielded \/ (yielded' = Plain("metadata") /\ OpenAI)
            \/ /\ h'.pc \in {"releasing", "closing", "done"} /\ yielded' = yielded
               /\ h'.held = h.held
               /\ h'.pc = "releasing" => h.buffered
               /\ h'.pc = "closing" => OpenAI
               /\ h'.pc = "done" => ~h.buffered /\ ~OpenAI
         /\ client' = client /\ tr' = tr
<1>1. h \in Handlers
  BY HInvFacts
<1>2. CASE \E r \in Targets :
          LET v == [Call.verdict EXCEPT !.to = r, !.escalations = @ + 1]
              s == [h EXCEPT !.calls[LastCall] = GivenUpFor(@, v),
                             !.checked = v, !.appended = OpenAI /\ ~h.buffered]
          IN  IF s.appended THEN BecomeYielding(Start(s, r, v), Plain("metadata"))
              ELSE Become(Start(s, r, v))
  <2>0. PICK r \in Targets :
          LET v == [Call.verdict EXCEPT !.to = r, !.escalations = @ + 1]
              s == [h EXCEPT !.calls[LastCall] = GivenUpFor(@, v),
                             !.checked = v, !.appended = OpenAI /\ ~h.buffered]
          IN  IF s.appended THEN BecomeYielding(Start(s, r, v), Plain("metadata"))
              ELSE Become(Start(s, r, v))
    BY <1>2
  <2>1. PICK v, s :
          /\ s = [h EXCEPT !.calls[LastCall] = GivenUpFor(@, v),
                           !.checked = v, !.appended = OpenAI /\ ~h.buffered]
          /\ IF s.appended THEN BecomeYielding(Start(s, r, v), Plain("metadata"))
             ELSE Become(Start(s, r, v))
    BY <2>0
  <2>2. /\ s.req = h.req /\ s.buffered = h.buffered /\ s.shown = h.shown
        /\ s.appended = (OpenAI /\ ~h.buffered)
    BY <1>1, <2>1 DEF Handlers
  <2>3. DOMAIN s = DOMAIN h
    BY <2>1
  <2>4. /\ h' = Start(s, r, v) /\ client' = client /\ tr' = tr
        /\ yielded' = yielded \/ (yielded' = Plain("metadata") /\ s.appended)
    BY <2>1 DEF BecomeYielding, Become
  <2>5. h'.req = s.req /\ h'.buffered = s.buffered /\ h'.shown = s.shown /\ h'.pc = "calling"
    BY <1>1, <2>3, <2>4 DEF Start, Handlers
  <2> QED
    BY <2>2, <2>4, <2>5
<1>3. CASE Targets = {} /\ Become(Keep(h))
  <2> DEFINE p == Keep(h).pc
  <2>1. /\ Keep(h) = [h EXCEPT !.pc = p] /\ p \in {"releasing", "closing", "done"}
        /\ p = "releasing" => h.buffered
        /\ p = "closing" => OpenAI
        /\ p = "done" => ~h.buffered /\ ~OpenAI
    BY <1>1, KeepFields
  <2> HIDE DEF p
  <2> QED
    BY <1>1, <1>3, <2>1 DEF Handlers, Become
<1> QED
  BY <1>2, <1>3 DEF StepUp

----------------------------------------------------------------------------
(* The client of an OpenAI stream *)

\* A step that neither ends the stream nor sends anything.
LineStep ==
  /\ h.pc # "done" /\ h'.req = h.req /\ client' = client
  /\ yielded' \in {yielded, Nothing, Plain("line"), Plain("metadata")}
  /\ h'.pc # "done" \/ (yielded' = Nothing /\ h'.shown = <<>>)

LEMMA LineStepKeeps ==
  ASSUME LinesInv, LineStep
  PROVE  LinesInv'
<1>1. OpenAI' = OpenAI
  BY DEF LineStep, OpenAI
<1> SUFFICES ASSUME OpenAI PROVE LinesInv'
  BY <1>1 DEF LinesInv
<1>2. /\ yielded \in {Nothing, Plain("line"), Plain("metadata")}
      /\ client.phase \in {"before", "open"}
  BY DEF LinesInv, LineStep
<1>3. /\ yielded' \in {Nothing, Plain("line"), Plain("metadata")}
      /\ client'.phase \in {"before", "open"}
  BY <1>2 DEF LineStep
<1>4. Plain("sentinel") \notin {Nothing, Plain("line"), Plain("metadata")}
  BY DEF Plain, Nothing
<1> QED
  BY <1>2, <1>3, <1>4 DEF LinesInv, LineStep

LEMMA RoutedLines ==
  ASSUME HInv, OpenAI, Refuse \/ RouteOpenAI \/ RouteAnthropic \/ RouteOther
  PROVE  LineStep
<1>1. ~RouteAnthropic /\ ~RouteOther
  BY DEF RouteAnthropic, RouteOther, OpenAI
<1>2. CASE Refuse
  BY <1>2, NewFields DEF Refuse, Become, LineStep, Handlers
<1>3. CASE RouteOpenAI
  <2>1. h.pc = "new" /\ yielded' = yielded /\ client' = client
    BY <1>3 DEF RouteOpenAI, Become
  <2>2. PICK r \in Route : h' = [Start(h, r, NoVerdict) EXCEPT !.buffered = Buffers(r)]
    BY <1>3 DEF RouteOpenAI, Become
  <2> DEFINE s == Start(h, r, NoVerdict)
  <2>3. s \in Handlers /\ s.req = h.req /\ s.pc = "calling"
    BY <2>1, FirstCall DEF Fresh
  <2> HIDE DEF s
  <2>4. h' = [s EXCEPT !.buffered = Buffers(r)]
    BY <2>2 DEF s
  <2> QED
    BY <2>1, <2>3, <2>4 DEF LineStep, Handlers
<1> QED
  BY <1>1, <1>2, <1>3

\* What follows a call that failed, told in the stream or not at all.
LEMMA FailureLines ==
  ASSUME HInv, OpenAI, RefusedUpstream \/ Broken
  PROVE  LineStep
<1>1. h.pc \in {"calling", "reading"} /\ h.req.stream /\ h \in Handlers
  BY HInvFacts, RequestKinds DEF RefusedUpstream, Broken, Calling, Reading, OpenAI
<1>2. CASE RefusedUpstream
  <2> DEFINE n == AfterCall(Book(h, "upstream_error"), FALSE)
  <2>1. Tell(n, Plain("line"))
    BY <1>1, <1>2 DEF RefusedUpstream, ErrorEvent
  <2>2. /\ Sound(n) /\ MovedOn(n) /\ (n.pc = "done" => ~OpenAI)
    BY <1>1, HeedsItself, CallEnded
  <2> HIDE DEF n
  <2>3. n \in Handlers /\ n.req = h.req /\ n.pc # "done"
    BY <2>2 DEF Sound, MovedOn
  <2> QED
    BY <1>1, <2>1, <2>3 DEF LineStep, Tell, Become, BecomeYielding, Handlers
<1>3. CASE Broken
  <2>1. h' = [h EXCEPT !.pc = "aborted"] /\ yielded' = yielded /\ client' = client
    BY <1>3 DEF Broken, Become
  <2> QED
    BY <1>1, <2>1 DEF LineStep, Handlers
<1> QED
  BY <1>2, <1>3

LEMMA UpstreamLines ==
  ASSUME HInv, OpenAI, Open \/ ForwardLine \/ EndOfUpstream
  PROVE  LineStep
<1>1. h \in Handlers
  BY HInvFacts
<1>2. CASE Open
  <2>1. h.pc = "calling" /\ yielded' = yielded /\ client' = client
    BY <1>2 DEF Open, Calling
  <2>2. \/ \E w : h' = [h EXCEPT !.pc = "reading", !.scripted = TRUE, !.script = w]
        \/ h' = [h EXCEPT !.pc = "reading"]
    BY <1>2 DEF Open
  <2> QED
    BY <1>1, <2>1, <2>2 DEF LineStep, Handlers
<1>3. CASE ForwardLine
  <2>1. PICK l \in NextLines : Tell(ReadOn(l), Plain("line"))
    BY <1>3 DEF ForwardLine
  <2>2. h.pc = "reading"
    BY <1>3 DEF ForwardLine, Reading
  <2> DEFINE n == ReadOn(l)
  <2>3. n \in Handlers /\ n.req = h.req /\ n.pc = "reading"
    BY <2>2, ReadOnSound DEF Sound
  <2> HIDE DEF n
  <2>4. Tell(n, Plain("line"))
    BY <2>1 DEF n
  <2> QED
    BY <2>2, <2>3, <2>4 DEF LineStep, Tell, Become, BecomeYielding, Handlers
<1>4. CASE EndOfUpstream
  <2>1. /\ h.pc = "reading" /\ h' = Completed(h, h.got) /\ yielded' = yielded
        /\ client' = client
    BY <1>4 DEF EndOfUpstream, Reading, Become
  <2>2. h.got \in [text : BOOLEAN, tools : BOOLEAN, finish : Finish]
    BY <1>1 DEF Handlers
  <2>3. PICK n : n = Completed(h, h.got)
    OBVIOUS
  <2>4. MovedOn(n) /\ n.pc # "done"
    BY <2>1, <2>2, <2>3, CompletedSound
  <2> QED
    BY <2>1, <2>3, <2>4 DEF LineStep, MovedOn
<1> QED
  BY <1>2, <1>3, <1>4

LEMMA DeliveryLines ==
  ASSUME HInv, OpenAI, Release \/ ClientGone
  PROVE  LineStep
<1>1. h \in Handlers /\ h.req.surface = "openai"
  BY HInvFacts DEF OpenAI
<1>2. CASE Release /\ h.held # <<>>
  <2>1. h' = [h EXCEPT !.held = Tail(h.held)] /\ yielded' = Head(h.held) /\ client' = client
        /\ h.pc = "releasing"
    BY <1>1, <1>2 DEF Release, BecomeYielding, Handlers
  <2>2. h.held \in Seq({Plain("line")})
    BY <1>1, HInvFacts DEF Placed
  <2>3. Head(h.held) = Plain("line")
    BY <1>2, <2>2
  <2>4. h'.pc = "releasing" /\ h'.req = h.req
    BY <1>1, <2>1 DEF Handlers
  <2> QED
    BY <2>1, <2>3, <2>4 DEF LineStep
<1>3. CASE Release /\ h.held = <<>>
  <2>1. h' = [h EXCEPT !.pc = "closing"] /\ yielded' = yielded /\ client' = client
        /\ h.pc = "releasing"
    BY <1>3 DEF Release, Become
  <2> QED
    BY <1>1, <2>1 DEF LineStep, Handlers
<1>4. CASE ClientGone
  <2>1. h.pc # "watching" /\ h.pc # "done" /\ yielded' = Nothing /\ client' = client
    BY <1>1, <1>4, HInvFacts DEF ClientGone, Placed
  <2>2. h' = [h EXCEPT !.pc = "aborted"]
    BY <1>4, <2>1 DEF ClientGone
  <2> QED
    BY <1>1, <2>1, <2>2 DEF LineStep, Handlers
<1> QED
  BY <1>2, <1>3, <1>4

\* Steps of other surfaces.
LEMMA OtherSurfaces ==
  ASSUME HInv, OpenAI
  PROVE  /\ ~TranslateLine /\ ~TranslateOn /\ ~TranslationDone /\ ~TranslationRaised
         /\ ~Posted /\ ~Collect /\ ~ForwardFails /\ ~ForwardAnswers /\ ~ForwardStreams
         /\ ~PassChunk /\ ~ReadChunk /\ ~WatchEnds
<1>1. h.req.stream /\ h.pc \notin {"forwarding", "watching"}
  BY HInvFacts, RequestKinds DEF Placed, OpenAI
<1>2. ~Collect
  BY DEF Collect, HInv, Quiet, OpenAI
<1> QED
  BY <1>1, <1>2 DEF TranslateLine, TranslateOn, TranslationDone, TranslationRaised, Posted,
     ForwardFails, ForwardAnswers, ForwardStreams, Forwarding, PassChunk, ReadChunk, WatchEnds

LEMMA CloseOpenAILines ==
  ASSUME HInv, LinesInv, CloseOpenAI
  PROVE  LinesInv'
<1>1. h \in Handlers /\ h.pc \in {"closing", "sentinel"} /\ yielded = Nothing
      /\ client' = client
  BY HInvFacts DEF CloseOpenAI, Running, BecomeYielding
<1>2. CASE h.pc = "closing"
  <2>1. h' = [h EXCEPT !.pc = "sentinel"] /\ yielded' = Plain("metadata")
    BY <1>2 DEF CloseOpenAI, BecomeYielding
  <2>2. LineStep
    BY <1>1, <2>1 DEF LineStep, Handlers
  <2> QED
    BY <2>2, LineStepKeeps
<1>3. CASE h.pc = "sentinel"
  <2>1. h' = [h EXCEPT !.pc = "done"] /\ yielded' = Plain("sentinel")
    BY <1>3 DEF CloseOpenAI, BecomeYielding
  <2>2. OpenAI /\ h'.pc = "done" /\ h'.req = h.req
    BY <1>1, <1>3, <2>1, HInvFacts DEF Placed, OpenAI, Handlers
  <2>3. client.phase \in {"before", "open"}
    BY <1>3, <2>2 DEF LinesInv
  <2> QED
    BY <1>1, <2>1, <2>2, <2>3 DEF LinesInv, OpenAI
<1> QED
  BY <1>1, <1>2, <1>3

LEMMA SendLines ==
  ASSUME HInv, LinesInv, Send
  PROVE  LinesInv'
<1>1. h' = [h EXCEPT !.shown = ShownNow] /\ yielded' = Nothing /\ yielded # Nothing
      /\ h \in Handlers
  BY HInvFacts DEF Send
<1>2. h'.pc = h.pc /\ h'.req = h.req
  BY <1>1 DEF Handlers
<1> SUFFICES ASSUME OpenAI PROVE LinesInv'
  BY <1>2 DEF LinesInv, OpenAI
<1>3. h.pc # "watching" /\ client.phase \in {"before", "open"}
  BY <1>1, HInvFacts DEF Placed, OpenAI, LinesInv
<1>4. client' = [client EXCEPT !.phase =
                   IF yielded.type = "sentinel" THEN "ended" ELSE "open"]
  BY <1>3 DEF Send
<1>5. client'.phase = IF yielded.type = "sentinel" THEN "ended" ELSE "open"
  BY <1>4, HInvFacts DEF Knows
<1>6. yielded.type = "sentinel" <=> yielded = Plain("sentinel")
  BY DEF LinesInv, Plain, Nothing
<1>7. h.pc = "done" <=> yielded = Plain("sentinel")
  BY <1>1 DEF LinesInv
<1> QED
  BY <1>1, <1>2, <1>5, <1>6, <1>7, PlainTyped DEF LinesInv

LEMMA NextLinesInv ==
  ASSUME HInv, LinesInv, [Next]_vars, h'.req = h.req
  PROVE  LinesInv'
<1> SUFFICES ASSUME OpenAI PROVE LinesInv'
  BY DEF LinesInv, OpenAI
<1>1. CASE Refuse \/ RouteOpenAI \/ RouteAnthropic \/ RouteOther
  BY <1>1, RoutedLines, LineStepKeeps
<1>2. CASE RefusedUpstream \/ Broken
  BY <1>2, FailureLines, LineStepKeeps
<1>3. CASE Open \/ ForwardLine \/ EndOfUpstream
  BY <1>3, UpstreamLines, LineStepKeeps
<1>4. CASE Grade
  <2>1. h'.pc # "done" /\ yielded' = yielded /\ client' = client /\ h.pc = "grading"
    BY <1>4, GradeMoves DEF Grade, Become
  <2> QED
    BY <2>1, LineStepKeeps DEF LineStep
<1>5. CASE StepUp
  <2>1. h'.pc # "done" /\ yielded' \in {yielded, Plain("metadata")} /\ client' = client
        /\ h.pc = "steppingUp"
    BY <1>5, StepUpMoves DEF StepUp
  <2> QED
    BY <2>1, LineStepKeeps DEF LineStep
<1>6. CASE Release \/ ClientGone
  BY <1>6, DeliveryLines, LineStepKeeps
<1>7. CASE CloseOpenAI
  BY <1>7, CloseOpenAILines
<1>8. CASE Send
  BY <1>8, SendLines
<1>9. CASE UNCHANGED vars
  <2>1. h' = h /\ yielded' = yielded /\ client' = client
    BY <1>9 DEF vars
  <2> QED
    BY <2>1 DEF LinesInv, OpenAI
<1> QED
  BY <1>1, <1>2, <1>3, <1>4, <1>5, <1>6, <1>7, <1>8, <1>9, OtherSurfaces DEF Next

----------------------------------------------------------------------------
(* The client of messages *)

LEMMA InStepPhase ==
  ASSUME Numbering
  PROVE  /\ InStep.phase \in {"before", "open", "closing", "ended"}
         /\ tr.pc = "done" => InStep.phase = "ended"
         /\ tr.pc \in {"lines", "raised"} => InStep.phase \in {"before", "open"}
BY DEF InStep, Numbering

LEMMA NewClientKnows == Knows(NewClient) /\ NewClient.phase = "before"
BY DEF Knows, NewClient

LEMMA NotConfused ==
  ASSUME HInv, Numbering, MessagesInv, ~OpenAI
  PROVE  client.phase # "confused"
<1>1. Knows(client) /\ h.pc \in Steps
  BY HInvFacts DEF Handlers
<1>2. CASE h.pc \in {"new", "calling", "forwarding", "watching", "grading", "steppingUp"}
  BY <1>2, NewClientKnows DEF MessagesInv
<1>3. CASE h.pc = "reading"
  <2>1. CASE h.buffered
    BY <1>3, <2>1, NewClientKnows DEF MessagesInv
  <2>2. CASE ~h.buffered
    <3>1. Taken(client).phase # "confused"
      BY <1>3, <2>2, InStepPhase DEF MessagesInv
    <3> QED
      BY <1>1, <3>1, TakenPhase
  <2> QED
    BY <2>1, <2>2
<1>4. CASE h.pc = "releasing"
  <2>1. PICK d : Reads(Taken(client), h.held, d)
    BY <1>4 DEF MessagesInv
  <2>2. h.held \in Seq(AnyEvent)
    BY HInvFacts DEF Handlers
  <2>3. Taken(client).phase # "confused"
    BY <2>1, <2>2, ReadsEnds
  <2> QED
    BY <1>1, <2>3, TakenPhase
<1>5. CASE h.pc = "done"
  <2>1. Taken(client).phase # "confused" \/ client.phase # "confused"
    BY <1>5 DEF MessagesInv
  <2> QED
    BY <1>1, <2>1, TakenPhase
<1>6. CASE h.pc = "aborted"
  BY <1>6 DEF MessagesInv
<1>7. CASE h.pc \in {"closing", "sentinel"}
  BY <1>7, HInvFacts DEF Placed, OpenAI
<1> QED
  BY <1>1, <1>2, <1>3, <1>4, <1>5, <1>6, <1>7 DEF Steps

\* Where the client has been sent nothing and nothing is to be sent to it.
LEMMA UntouchedKeeps ==
  ASSUME HInv, h.shown = <<>>, client = NewClient, client' = client, yielded' = Nothing,
         h'.shown = <<>>,
         h'.pc \in {"new", "calling", "forwarding", "watching", "done", "aborted"}
  PROVE  MessagesInv'
<1>1. client'.phase = "before" /\ client' = NewClient
  BY NewClientKnows
<1> QED
  BY <1>1 DEF MessagesInv

LEMMA NewMessages ==
  ASSUME HInv, MessagesInv, ~OpenAI, Refuse \/ RouteOther
  PROVE  MessagesInv'
<1>1. h.pc = "new" /\ UNCHANGED <<yielded, client>>
      /\ (h' = [h EXCEPT !.pc = "done"] \/ h' = [h EXCEPT !.pc = "forwarding"])
  BY DEF Refuse, RouteOther, Become
<1>2. h.shown = <<>> /\ yielded = Nothing /\ h \in Handlers /\ client = NewClient
  BY <1>1, NewFields DEF MessagesInv
<1>3. h'.shown = <<>> /\ h'.pc \in {"done", "forwarding"}
  BY <1>1, <1>2 DEF Handlers
<1> QED
  BY <1>1, <1>2, <1>3, UntouchedKeeps

LEMMA MessageRead ==
  \E d : Reads(NewClient, SseFromMessage, d) /\ d.phase = "ended"
<1> DEFINE K(p, u, o) == [phase |-> p, used |-> u, open |-> o]
           f == [i \in 0..6 |->
                   CASE i = 0 -> K("before", {}, {})
                     [] i = 1 -> K("open", {}, {})
                     [] i = 2 -> K("open", {0}, {0})
                     [] i = 3 -> K("open", {0}, {0})
                     [] i = 4 -> K("open", {0}, {})
                     [] i = 5 -> K("closing", {0}, {})
                     [] OTHER -> K("ended", {0}, {})]
<1>1. /\ f[0] = K("before", {}, {}) /\ f[1] = K("open", {}, {}) /\ f[2] = K("open", {0}, {0})
      /\ f[3] = K("open", {0}, {0}) /\ f[4] = K("open", {0}, {}) /\ f[5] = K("closing", {0}, {})
      /\ f[6] = K("ended", {0}, {})
  OBVIOUS
<1> HIDE DEF f
<1>2. /\ See(f[0], SseFromMessage[1]) = f[1] /\ See(f[1], SseFromMessage[2]) = f[2]
      /\ See(f[2], SseFromMessage[3]) = f[3] /\ See(f[3], SseFromMessage[4]) = f[4]
      /\ See(f[4], SseFromMessage[5]) = f[5] /\ See(f[5], SseFromMessage[6]) = f[6]
  <2>1. See(f[0], SseFromMessage[1]) = f[1]
    <3>1. Fits(f[0], SseFromMessage[1]) /\ SseFromMessage[1].type = "message_start" /\ Knows(f[0])
      BY <1>1, MessageTyped DEF Fits, Plain, Knows
    <3> QED
      BY <1>1, <3>1, SeeFitting
  <2>2. See(f[1], SseFromMessage[2]) = f[2]
    <3>1. Fits(f[1], SseFromMessage[2]) /\ SseFromMessage[2].type = "block_start" /\ Knows(f[1])
          /\ SseFromMessage[2].index = 0
      BY <1>1, MessageTyped DEF Fits, Block, Knows
    <3> QED
      BY <1>1, <3>1, SeeFitting
  <2>3. See(f[2], SseFromMessage[3]) = f[3]
    <3>1. Fits(f[2], SseFromMessage[3]) /\ SseFromMessage[3].type = "block_delta" /\ Knows(f[2])
          /\ SseFromMessage[3].index = 0
      BY <1>1, MessageTyped DEF Fits, Block, Knows
    <3> QED
      BY <1>1, <3>1, SeeFitting
  <2>4. See(f[3], SseFromMessage[4]) = f[4]
    <3>1. Fits(f[3], SseFromMessage[4]) /\ SseFromMessage[4].type = "block_stop" /\ Knows(f[3])
          /\ SseFromMessage[4].index = 0
      BY <1>1, MessageTyped DEF Fits, Block, Knows
    <3>2. {0} \ {0} = {}
      OBVIOUS
    <3>3. f[3].phase = "open" /\ f[3].used = {0} /\ f[3].open = {0}
      BY <1>1
    <3>4. [phase |-> "open", used |-> {0}, open |-> {0} \ {0}] = f[4]
      BY <1>1, <3>2
    <3>5. See(f[3], SseFromMessage[4])
            = [phase |-> f[3].phase, used |-> f[3].used,
               open |-> f[3].open \ {SseFromMessage[4].index}]
      BY <3>1, SeeFitting
    <3> QED
      BY <3>1, <3>3, <3>4, <3>5
  <2>5. See(f[4], SseFromMessage[5]) = f[5]
    <3>1. Fits(f[4], SseFromMessage[5]) /\ SseFromMessage[5].type = "message_delta" /\ Knows(f[4])
      BY <1>1, MessageTyped DEF Fits, Plain, Knows
    <3> QED
      BY <1>1, <3>1, SeeFitting
  <2>6. See(f[5], SseFromMessage[6]) = f[6]
    <3>1. Fits(f[5], SseFromMessage[6]) /\ SseFromMessage[6].type = "message_stop" /\ Knows(f[5])
      BY <1>1, MessageTyped DEF Fits, Plain, Knows
    <3> QED
      BY <1>1, <3>1, SeeFitting
  <2> QED
    BY <2>1, <2>2, <2>3, <2>4, <2>5, <2>6
<1>3. /\ f[0] = NewClient /\ f[Len(SseFromMessage)].phase = "ended"
      /\ \A i \in 0..6 : f[i].phase # "confused"
  <2>1. \A i \in 0..6 : i = 0 \/ i = 1 \/ i = 2 \/ i = 3 \/ i = 4 \/ i = 5 \/ i = 6
    OBVIOUS
  <2> QED
    BY <1>1, <2>1, MessageTyped DEF NewClient
<1>4. \A i \in 1..6 : f[i] = See(f[i - 1], SseFromMessage[i])
  <2>1. \A i \in 1..6 : i = 1 \/ i = 2 \/ i = 3 \/ i = 4 \/ i = 5 \/ i = 6
    OBVIOUS
  <2> QED
    BY <1>2, <2>1
<1>5. Reads(NewClient, SseFromMessage, f[6])
  BY <1>3, <1>4, MessageTyped DEF Reads
<1> QED
  BY <1>1, <1>5

LEMMA RouteAnthropicMessages ==
  ASSUME HInv, MessagesInv, ~OpenAI, RouteAnthropic
  PROVE  MessagesInv'
<1>1. /\ h.pc = "new" /\ h.req.surface = "anthropic" /\ UNCHANGED <<yielded, client>>
      /\ h.shown = <<>> /\ yielded = Nothing /\ client = NewClient
      /\ \/ h' = SwitchToPlan(h)
         \/ /\ h'.pc \in {"calling", "forwarding", "done"} /\ h'.held = <<>>
            /\ h'.shown = <<>>
  BY RouteAnthropicCases, NewFields DEF MessagesInv
<1>2. CASE h' = SwitchToPlan(h)
  <2>1. /\ h'.req = h.req /\ h'.shown = <<>> /\ ~h'.buffered
        /\ h'.pc = IF h.req.stream THEN "releasing" ELSE "done"
        /\ h'.held = IF h.req.stream THEN SseFromMessage ELSE <<>>
    BY <1>1, <1>2, SwitchFields
  <2>2. CASE h.req.stream
    <3>1. Taken(client)' = NewClient
      BY <1>1 DEF Taken
    <3>2. PICK d : Reads(NewClient, SseFromMessage, d) /\ d.phase = "ended"
      BY MessageRead
    <3>3. Reads(Taken(client)', h'.held, d)
      BY <2>1, <2>2, <3>1, <3>2
    <3>4. h'.pc = "releasing" /\ h'.req.stream
      BY <2>1, <2>2
    <3> QED
      BY <3>2, <3>3, <3>4 DEF MessagesInv
  <2>3. CASE ~h.req.stream
    BY <1>1, <2>1, <2>3, UntouchedKeeps
  <2> QED
    BY <2>2, <2>3
<1>3. CASE h'.pc \in {"calling", "forwarding", "done"} /\ h'.shown = <<>>
  BY <1>1, <1>3, UntouchedKeeps
<1> QED
  BY <1>1, <1>2, <1>3

LEMMA ErrorRead ==
  ASSUME NEW d, Knows(d), d.phase \in {"before", "open", "closing"}
  PROVE  See(d, Plain("error")).phase = "failed"
<1>1. Fits(d, Plain("error")) /\ Plain("error").type = "error"
  BY DEF Fits, Plain
<1>2. See(d, Plain("error")) = [phase |-> "failed", used |-> d.used, open |-> d.open]
  BY <1>1, SeeFitting
<1> QED
  BY <1>2

\* The call failed, and the client of an open stream is told.
LEMMA ErrorTold ==
  ASSUME HInv, ~OpenAI, h.pc \in {"calling", "reading"}, h.req.stream, Running,
         NEW d, Knows(d), d.phase \in {"before", "open", "closing"},
         h.buffered => Reads(client, h.held, d), ~h.buffered => client = d,
         NEW b \in {"upstream_error", "transport_error"},
         Tell(AfterCall(Book(h, b), FALSE), ErrorEvent)
  PROVE  MessagesInv'
<1> DEFINE n == AfterCall(Book(h, b), FALSE)
           e == Plain("error")
<1>1. /\ Sound(n) /\ MovedOn(n) /\ (n.pc = "grading" => b = "ok")
      /\ n.pc = "releasing" => n.buffered
      /\ n.pc = "closing" => OpenAI
      /\ n.pc = "done" => ~OpenAI /\ ~n.buffered
  BY HeedsItself, CallEnded
<1>2. Tell(n, e)
  BY DEF ErrorEvent
<1> HIDE DEF n
<1>3. /\ n \in Handlers /\ n.req = h.req /\ n.buffered = h.buffered /\ n.held = h.held
      /\ n.pc = IF h.buffered THEN "releasing" ELSE "done"
  BY <1>1 DEF Sound, MovedOn
<1>4. See(d, e).phase = "failed" /\ e \in AnyEvent /\ e # Nothing
  BY ErrorRead, PlainTyped
<1> HIDE DEF e
<1>5. CASE h.buffered
  <2>1. h' = [n EXCEPT !.held = Append(h.held, e)] /\ yielded' = Nothing /\ client' = client
    BY <1>2, <1>3, <1>5 DEF Tell, Become, Running, Handlers
  <2>2. h'.pc = "releasing" /\ h'.held = Append(h.held, e) /\ h'.req = h.req
    BY <1>3, <1>5, <2>1 DEF Handlers
  <2>3. h.held \in Seq(AnyEvent)
    BY HInvFacts DEF Handlers
  <2>4. Reads(client, Append(h.held, e), See(d, e))
    BY <1>4, <1>5, <2>3, ReadsMore
  <2>5. Taken(client)' = client
    BY <2>1 DEF Taken
  <2>6. Reads(Taken(client)', h'.held, See(d, e))
    BY <2>2, <2>4, <2>5
  <2> QED
    BY <1>4, <2>2, <2>6 DEF MessagesInv
<1>6. CASE ~h.buffered
  <2>1. h' = n /\ yielded' = e /\ client' = client /\ client = d
    BY <1>2, <1>3, <1>6 DEF Tell, BecomeYielding
  <2>2. Taken(client)' = See(d, e)
    BY <1>4, <2>1 DEF Taken
  <2>3. h'.pc = "done" /\ h'.req.stream
    BY <1>3, <1>6, <2>1
  <2> QED
    BY <1>4, <2>2, <2>3 DEF MessagesInv
<1> QED
  BY <1>5, <1>6

\* A handler that has opened no stream yet has sent nothing.
LEMMA CallingClient ==
  ASSUME HInv, MessagesInv, ~OpenAI, h.pc = "calling"
  PROVE  /\ client = NewClient /\ h.held = <<>> /\ Knows(client)
         /\ Reads(client, h.held, NewClient)
<1>1. client = NewClient /\ h.held = <<>>
  BY HInvFacts DEF MessagesInv, Placed
<1> QED
  BY <1>1, NewClientKnows, ReadsNone

LEMMA UnstreamedClient ==
  ASSUME HInv, MessagesInv, ~OpenAI, ~h.req.stream
  PROVE  client = NewClient /\ h.shown = <<>> /\ yielded = Nothing /\ ~h.buffered
BY HInvFacts DEF MessagesInv, ShownInOrder, HInv, Quiet, Placed

\* What the client of a stream being read has, or is going to have, read.
LEMMA ReadingClient ==
  ASSUME HInv, MessagesInv, ~OpenAI, h.pc = "reading", Running
  PROVE  /\ h.buffered => client = NewClient /\ Reads(client, h.held, InStep)
         /\ ~h.buffered => client = InStep
         /\ Knows(InStep)
BY InStepKnows DEF MessagesInv, Taken, Running

LEMMA OpenMessages ==
  ASSUME HInv, MessagesInv, ~OpenAI, Open
  PROVE  MessagesInv'
<1>1. h.pc = "calling" /\ yielded = Nothing /\ client' = client /\ yielded' = yielded
      /\ tr' = NewTranslation /\ h \in Handlers
  BY HInvFacts DEF Open, Calling, Running
<1>2. \/ \E w : h' = [h EXCEPT !.pc = "reading", !.scripted = TRUE, !.script = w]
      \/ h' = [h EXCEPT !.pc = "reading"]
  BY DEF Open
<1>3. h'.pc = "reading" /\ h'.held = h.held /\ h'.buffered = h.buffered /\ h'.req = h.req
  <2>1. CASE \E w : h' = [h EXCEPT !.pc = "reading", !.scripted = TRUE, !.script = w]
    BY ONLY <1>1, <2>1 DEF Handlers
  <2>2. CASE h' = [h EXCEPT !.pc = "reading"]
    BY ONLY <1>1, <2>2 DEF Handlers
  <2> QED
    BY <1>2, <2>1, <2>2
<1>4. client = NewClient /\ Reads(client, h.held, NewClient)
  BY <1>1, CallingClient
<1>5. InStep' = NewClient
  BY <1>1 DEF InStep, NewTranslation, NewClient, Blocks, NoBlock
<1>7. Taken(client)' = client /\ Taken(NewClient)' = NewClient
  BY <1>1 DEF Taken
<1>8. Reads(client', h'.held, NewClient)
  BY <1>1, <1>3, <1>4
<1>9. client' = NewClient
  BY <1>1, <1>4
<1>10. \E d : Reads(client', h'.held, d) /\ (IF yielded' = Nothing THEN d ELSE See(d, yielded')) = InStep'
  BY <1>1, <1>5, <1>8
<1> QED
  BY <1>1, <1>3, <1>5, <1>7, <1>9, <1>10 DEF MessagesInv, Taken

\* Still reading.
LEMMA ReadingKeeps ==
  ASSUME h'.pc = "reading", h'.req.stream, NEW d,
         h'.buffered => /\ client' = NewClient /\ Reads(client', h'.held, d)
                        /\ (IF yielded' = Nothing THEN d ELSE See(d, yielded')) = InStep',
         ~h'.buffered => (IF yielded' = Nothing THEN client' ELSE See(client', yielded')) = InStep'
  PROVE  MessagesInv'
BY DEF MessagesInv, Taken

LEMMA FailureMessages ==
  ASSUME HInv, Numbering, MessagesInv, ~OpenAI, RefusedUpstream \/ Broken \/ TranslationRaised
  PROVE  MessagesInv'
<1>1. h \in Handlers /\ Running /\ h.pc \in {"calling", "reading"}
  BY HInvFacts DEF RefusedUpstream, Broken, TranslationRaised, Calling, Reading
<1>2. CASE ~h.req.stream
  <2>1. client = NewClient /\ h.shown = <<>> /\ yielded = Nothing /\ ~h.buffered
    BY <1>2, UnstreamedClient
  <2>2. ~TranslationRaised
    BY <1>2, HInvFacts DEF TranslationRaised, Reading, Placed
  <2>3. h.calls # <<>>
    BY <1>1, HInvFacts DEF Placed
  <2>4. CASE RefusedUpstream
    <3>1. h' = [Book(h, "upstream_error") EXCEPT !.pc = "done"] /\ UNCHANGED <<yielded, client>>
      BY <1>2, <2>4 DEF RefusedUpstream, Become
    <3> DEFINE m == Book(h, "upstream_error")
    <3>2. m \in Handlers /\ m.shown = h.shown
      BY <1>1, <2>3, BookFields DEF Handlers
    <3> HIDE DEF m
    <3>3. h' = [m EXCEPT !.pc = "done"]
      BY <3>1 DEF m
    <3>4. h'.pc = "done" /\ h'.shown = <<>>
      BY <2>1, <3>2, <3>3 DEF Handlers
    <3> QED
      BY <2>1, <3>1, <3>4, UntouchedKeeps
  <2>5. CASE Broken
    <3>1. h' = [h EXCEPT !.pc = "aborted"] /\ UNCHANGED <<yielded, client>>
      BY <1>2, <2>5 DEF Broken, Become
    <3>2. h'.pc = "aborted" /\ h'.shown = <<>>
      BY <1>1, <2>1, <3>1 DEF Handlers
    <3> QED
      BY <2>1, <3>1, <3>2, UntouchedKeeps
  <2> QED
    BY <2>2, <2>4, <2>5
<1>3. CASE h.req.stream
  <2>1. PICK b \in {"upstream_error", "transport_error"} :
          Tell(AfterCall(Book(h, b), FALSE), ErrorEvent)
    BY <1>3 DEF RefusedUpstream, Broken, TranslationRaised
  <2>2. CASE h.pc = "calling"
    <3>1. client = NewClient /\ Reads(client, h.held, NewClient)
      BY <2>2, CallingClient
    <3> QED
      BY <1>1, <1>3, <2>1, <3>1, NewClientKnows, ErrorTold
  <2>3. CASE h.pc = "reading"
    <3>1. tr.pc \in {"lines", "raised"}
      BY <2>3 DEF RefusedUpstream, Broken, TranslationRaised, Calling
    <3>2. InStep.phase \in {"before", "open", "closing"}
      BY <3>1, InStepPhase
    <3>3. PICK d : d = InStep
      OBVIOUS
    <3>4. /\ h.buffered => Reads(client, h.held, d)
          /\ ~h.buffered => client = d
          /\ Knows(d) /\ d.phase \in {"before", "open", "closing"}
      BY <1>1, <2>3, <3>2, <3>3, ReadingClient
    <3> QED
      BY <1>1, <1>3, <2>1, <3>4, ErrorTold
  <2> QED
    BY <1>1, <2>2, <2>3
<1> QED
  BY <1>2, <1>3

LEMMA TranslatingMessages ==
  ASSUME HInv, Numbering, MessagesInv, ~OpenAI, TranslateLine \/ TranslateOn \/ EndOfUpstream
  PROVE  MessagesInv'
<1>1. /\ h.pc = "reading" /\ Running /\ h.req.stream /\ h \in Handlers
  BY TranslateFrame, HInvFacts DEF TranslateLine, TranslateOn, EndOfUpstream, Reading, Placed, Running
<1>2. /\ h.buffered => client = NewClient /\ Reads(client, h.held, InStep)
      /\ ~h.buffered => client = InStep
  BY <1>1, ReadingClient
<1>3. PICK d : d = InStep
  OBVIOUS
<1>4. CASE TranslateLine
  <2>1. PICK l \in NextLines : TakeLine(l) /\ h' = ReadOn(l)
    BY <1>4 DEF TranslateLine
  <2>2. h'.pc = "reading" /\ h'.req = h.req /\ h'.buffered = h.buffered /\ h'.held = h.held
    BY <1>1, <2>1, ReadOnSound
  <2>3. InStep' = InStep /\ yielded' = Nothing /\ client' = client
    BY <2>1, NextLinesTyped, TakeLineStep DEF TakeLine
  <2> QED
    BY <1>1, <1>2, <1>3, <2>2, <2>3, ReadingKeeps
<1>5. CASE TranslateOn
  <2>1. h' = h /\ client' = client /\ Translate
    BY <1>5, TranslateFrame DEF TranslateOn
  <2>2. KeepsStep
    BY <2>1, TranslateStep, SurfaceRoutes
  <2>3. (IF yielded' = Nothing THEN d ELSE See(d, yielded')) = InStep'
    BY <1>3, <2>2 DEF KeepsStep
  <2> QED
    BY <1>1, <1>2, <1>3, <2>1, <2>3, ReadingKeeps
<1>6. CASE EndOfUpstream
  <2>1. EndOfLines /\ h' = h
    BY <1>6 DEF EndOfUpstream
  <2>2. InStep' = InStep /\ yielded' = Nothing /\ client' = client
    BY <2>1, EndOfLinesStep DEF EndOfLines
  <2> QED
    BY <1>1, <1>2, <1>3, <2>1, <2>2, ReadingKeeps
<1> QED
  BY <1>4, <1>5, <1>6

LEMMA TranslationDoneMessages ==
  ASSUME HInv, Numbering, MessagesInv, ~OpenAI, TranslationDone
  PROVE  MessagesInv'
<1> DEFINE g == [h.got EXCEPT !.tools = SeenTools # {}, !.finish = tr.finish]
<1>1. /\ h.pc = "reading" /\ Running /\ h' = Completed(h, g) /\ tr.pc = "done"
      /\ client' = client /\ yielded' = Nothing /\ h.req.stream
  BY HInvFacts DEF TranslationDone, Reading, Running, Become, Placed
<1>2. g \in [text : BOOLEAN, tools : BOOLEAN, finish : Finish]
  <2>1. tr.finish \in Finish
    BY DEF Numbering, Numbers, Translations
  <2>2. h.got \in [text : BOOLEAN, tools : BOOLEAN, finish : Finish]
    BY HInvFacts DEF Handlers
  <2>3. PICK b \in BOOLEAN : b = (SeenTools # {})
    OBVIOUS
  <2> QED
    BY <2>1, <2>2, <2>3
<1> HIDE DEF g
<1>3. PICK n : n = Completed(h, g)
  OBVIOUS
<1>4. /\ Sound(n) /\ MovedOn(n)
      /\ n.pc = "releasing" => n.buffered
      /\ n.pc = "closing" => OpenAI
      /\ n.pc = "done" => ~n.buffered
  BY <1>1, <1>2, <1>3, CompletedSound
<1>5. /\ h' = n /\ n.req = h.req /\ n.held = h.held /\ n.buffered = h.buffered
      /\ n.pc \in {"grading", "releasing", "done"}
      /\ n.pc = "grading" => n.buffered
  BY <1>1, <1>3, <1>4 DEF MovedOn, Sound, Placed, OpenAI
<1>6. /\ h.buffered => client = NewClient /\ Reads(client, h.held, InStep)
      /\ ~h.buffered => client = InStep
      /\ InStep.phase = "ended"
  BY <1>1, ReadingClient, InStepPhase
<1>7. PICK d : d = InStep
  OBVIOUS
<1>8. Taken(client)' = client
  BY <1>1 DEF Taken
<1>9. CASE n.pc = "grading"
  <2>1. h'.pc = "grading" /\ h'.req.stream /\ client' = NewClient /\ Reads(client', h'.held, d)
        /\ d.phase = "ended"
    BY <1>1, <1>5, <1>6, <1>7, <1>9
  <2> QED
    BY <2>1 DEF MessagesInv
<1>10. CASE n.pc = "releasing"
  <2>1. h'.pc = "releasing" /\ h'.req.stream /\ Reads(Taken(client)', h'.held, d)
        /\ d.phase = "ended"
    BY <1>1, <1>4, <1>5, <1>6, <1>7, <1>8, <1>10
  <2> QED
    BY <2>1 DEF MessagesInv
<1>11. CASE n.pc = "done"
  <2>1. h'.pc = "done" /\ h'.req.stream /\ Taken(client)'.phase = "ended"
    BY <1>1, <1>4, <1>5, <1>6, <1>8, <1>11
  <2> QED
    BY <2>1 DEF MessagesInv
<1> QED
  BY <1>5, <1>9, <1>10, <1>11

LEMMA PostedMessages ==
  ASSUME HInv, MessagesInv, ~OpenAI, Posted
  PROVE  MessagesInv'
<1>1. h.pc = "calling" /\ ~h.req.stream /\ h \in Handlers
  BY HInvFacts DEF Posted, Calling
<1>2. client = NewClient /\ h.shown = <<>> /\ yielded = Nothing /\ ~h.buffered
  BY <1>1, UnstreamedClient
<1>3. client' = client /\ yielded' = yielded
  BY DEF Posted, Become
<1>4. CASE \E t, c \in BOOLEAN, f \in Finish :
             Become(Completed(h, [text |-> t, tools |-> c, finish |-> f]))
  <2>1. PICK g \in [text : BOOLEAN, tools : BOOLEAN, finish : Finish] : Become(Completed(h, g))
    <3>1. PICK t \in BOOLEAN, c \in BOOLEAN, f \in Finish :
                Become(Completed(h, [text |-> t, tools |-> c, finish |-> f]))
      BY <1>4
    <3>2. [text |-> t, tools |-> c, finish |-> f]
            \in [text : BOOLEAN, tools : BOOLEAN, finish : Finish]
      OBVIOUS
    <3> QED
      BY <3>1, <3>2
  <2>2. PICK n : n = Completed(h, g)
    OBVIOUS
  <2>3. MovedOn(n) /\ (n.pc = "releasing" => n.buffered) /\ (n.pc = "closing" => OpenAI)
    BY <1>1, <2>2, CompletedSound
  <2>4. h' = n
    BY <2>1, <2>2 DEF Become
  <2>5. h'.pc \in {"grading", "done"} /\ ~h'.buffered /\ h'.shown = <<>>
    BY <1>2, <2>3, <2>4 DEF MovedOn
  <2>6. CASE h'.pc = "grading"
    BY <1>2, <1>3, <2>5, <2>6 DEF MessagesInv
  <2>7. CASE h'.pc = "done"
    BY <1>2, <1>3, <2>5, <2>7, UntouchedKeeps
  <2> QED
    BY <2>5, <2>6, <2>7
<1>5. CASE Become([h EXCEPT !.pc = "done", !.calls[LastCall].errors = @ + 1])
  <2>1. h' = [h EXCEPT !.pc = "done", !.calls[LastCall].errors = @ + 1]
    BY <1>5 DEF Become
  <2>2. h'.pc = "done" /\ h'.shown = <<>>
    BY <1>1, <1>2, <2>1 DEF Handlers
  <2> QED
    BY <1>2, <1>3, <2>2, UntouchedKeeps
<1> QED
  BY <1>4, <1>5 DEF Posted

\* The answer is kept, or graded and to be replaced: the stream is as it was.
LEMMA GradedMessages ==
  ASSUME HInv, MessagesInv, ~OpenAI, h.pc \in {"grading", "steppingUp"},
         h'.req = h.req, h'.held = h.held, h'.buffered = h.buffered, h'.shown = h.shown,
         h'.pc \in {"steppingUp", "releasing", "closing", "done"},
         h'.pc = "releasing" => h.buffered, h'.pc = "closing" => OpenAI,
         h'.pc = "done" => ~h.buffered, client' = client, yielded' = yielded
  PROVE  MessagesInv'
<1>1. /\ client = NewClient /\ yielded = Nothing
      /\ h.buffered => \E d : Reads(client, h.held, d) /\ d.phase = "ended"
  BY DEF MessagesInv, HInv, Quiet
<1>2. CASE h'.pc = "steppingUp"
  <2>1. h'.buffered => \E d : Reads(client', h'.held, d) /\ d.phase = "ended"
    BY <1>1
  <2> QED
    BY <1>1, <1>2, <2>1 DEF MessagesInv
<1>3. CASE h'.pc = "releasing"
  <2>1. PICK d : Reads(client, h.held, d) /\ d.phase = "ended"
    BY <1>1, <1>3
  <2>2. Taken(client)' = client
    BY <1>1 DEF Taken
  <2>3. Reads(Taken(client)', h'.held, d)
    BY <2>1, <2>2
  <2> QED
    BY <1>1, <1>3, <2>1, <2>3 DEF MessagesInv
<1>4. CASE h'.pc = "done"
  <2>1. ~h.req.stream
    BY <1>4, HInvFacts DEF Placed, OpenAI
  <2>2. h.shown = <<>>
    BY <2>1, HInvFacts DEF ShownInOrder
  <2> QED
    BY <1>1, <1>4, <2>2, UntouchedKeeps
<1> QED
  BY <1>2, <1>3, <1>4

LEMMA GradeMessages ==
  ASSUME HInv, MessagesInv, ~OpenAI, Grade
  PROVE  MessagesInv'
BY GradeMoves, GradedMessages DEF Grade, Become

LEMMA StepUpMessages ==
  ASSUME HInv, MessagesInv, ~OpenAI, StepUp
  PROVE  MessagesInv'
<1>1. h.pc = "steppingUp" /\ client' = client /\ yielded' = yielded
  BY StepUpMoves DEF StepUp
<1>2. CASE h'.pc = "calling"
  <2>1. client' = NewClient
    BY <1>1 DEF MessagesInv
  <2> QED
    BY <1>2, <2>1 DEF MessagesInv
<1>3. CASE h'.pc # "calling"
  <2>1. /\ h'.req = h.req /\ h'.held = h.held /\ h'.buffered = h.buffered
        /\ h'.shown = h.shown /\ h'.pc \in {"releasing", "closing", "done"}
        /\ h'.pc = "releasing" => h.buffered
        /\ h'.pc = "closing" => OpenAI
        /\ h'.pc = "done" => ~h.buffered
    BY <1>3, StepUpMoves
  <2> QED
    BY <1>1, <2>1, GradedMessages
<1> QED
  BY <1>2, <1>3

LEMMA SeeNothing ==
  ASSUME NEW c, Knows(c)
  PROVE  See(c, Nothing).phase = "confused"
<1>1. ~Fits(c, Nothing)
  BY DEF Fits, Nothing, Plain
<1>2. See(c, Nothing) = [c EXCEPT !.phase = "confused"]
  BY <1>1 DEF See
<1> QED
  BY <1>2 DEF Knows

LEMMA ReleaseMessages ==
  ASSUME HInv, MessagesInv, ~OpenAI, Release
  PROVE  MessagesInv'
<1>1. h.pc = "releasing" /\ yielded = Nothing /\ h \in Handlers /\ h.req.stream
      /\ h.held \in Seq(AnyEvent) /\ Knows(client)
  BY HInvFacts DEF Release, Running, Placed, Handlers
<1>2. PICK d : Reads(client, h.held, d) /\ d.phase \in {"ended", "failed"}
  BY <1>1 DEF MessagesInv, Taken
<1>3. CASE h.held # <<>>
  <2>1. h' = [h EXCEPT !.held = Tail(h.held)] /\ yielded' = Head(h.held) /\ client' = client
    BY <1>1, <1>3 DEF Release, BecomeYielding, Handlers
  <2>2. Reads(See(client, Head(h.held)), Tail(h.held), d)
    BY <1>1, <1>2, <1>3, ReadsFirst
  <2>3. Tail(h.held) \in Seq(AnyEvent)
    BY <1>1, <1>3
  <2>4. See(client, Head(h.held)).phase # "confused"
    BY <2>2, <2>3, ReadsEnds
  <2>5. Head(h.held) # Nothing
    BY <1>1, <2>4, SeeNothing
  <2>6. Taken(client)' = See(client, Head(h.held))
    BY <2>1, <2>5 DEF Taken
  <2>7. h'.pc = "releasing" /\ h'.req = h.req /\ h'.held = Tail(h.held)
    BY <1>1, <2>1 DEF Handlers
  <2>8. Reads(Taken(client)', h'.held, d)
    BY <2>2, <2>6, <2>7
  <2> QED
    BY <1>1, <1>2, <2>7, <2>8 DEF MessagesInv
<1>4. CASE h.held = <<>>
  <2>1. h' = [h EXCEPT !.pc = "done"] /\ client' = client /\ yielded' = Nothing
    BY <1>1, <1>4 DEF Release, Become
  <2>2. h'.pc = "done" /\ h'.req = h.req
    BY <1>1, <2>1 DEF Handlers
  <2>3. client = d
    BY <1>1, <1>2, <1>4, ReadsEnds
  <2>4. Taken(client)' = d
    BY <2>1, <2>3 DEF Taken
  <2> QED
    BY <1>1, <1>2, <2>2, <2>4 DEF MessagesInv
<1> QED
  BY <1>3, <1>4

LEMMA CollectMessages ==
  ASSUME HInv, Numbering, MessagesInv, ~OpenAI, Collect
  PROVE  MessagesInv'
<1>1. /\ h.pc = "reading" /\ h.buffered /\ h \in Handlers /\ h.req.stream
      /\ h.held \in Seq(AnyEvent) /\ yielded # Nothing /\ yielded \in AnyEvent
      /\ yielded' = Nothing /\ client' = client /\ tr' = tr
  BY HInvFacts DEF Collect, Placed, Handlers
<1>2. PICK d : Reads(client, h.held, d) /\ See(d, yielded) = InStep
  BY <1>1 DEF MessagesInv, Taken
<1>3. InStep.phase # "confused" /\ InStep' = InStep
  BY <1>1, InStepPhase, SameTranslation
<1>4. Reads(client, Append(h.held, yielded), See(d, yielded))
  BY <1>1, <1>2, <1>3, ReadsMore
<1>5. h' = [h EXCEPT !.held = Append(h.held, yielded)]
  BY <1>1 DEF Collect, Handlers
<1>6. h'.pc = "reading" /\ h'.req = h.req /\ h'.buffered = h.buffered
      /\ h'.held = Append(h.held, yielded)
  BY <1>1, <1>5 DEF Handlers
<1>7. client = NewClient
  BY <1>1 DEF MessagesInv
<1>8. PICK e : e = InStep
  OBVIOUS
<1>9. Reads(client', h'.held, e)
  BY <1>1, <1>2, <1>4, <1>6, <1>8
<1> QED
  BY <1>1, <1>3, <1>6, <1>7, <1>8, <1>9, ReadingKeeps

LEMMA SendMessages ==
  ASSUME HInv, Numbering, MessagesInv, ~OpenAI, Send
  PROVE  MessagesInv'
<1>1. /\ h' = [h EXCEPT !.shown = ShownNow] /\ yielded' = Nothing /\ yielded # Nothing
      /\ ~(h.buffered /\ h.pc = "reading") /\ h \in Handlers /\ tr' = tr
  BY HInvFacts DEF Send
<1>2. /\ h'.pc = h.pc /\ h'.req = h.req /\ h'.held = h.held /\ h'.buffered = h.buffered
  BY <1>1 DEF Handlers
<1>3. ~Quiet(h) /\ h.req.stream /\ h.pc \in Steps
  BY <1>1 DEF HInv, Quiet, Sound, Handlers
<1>4. h.pc \in {"reading", "releasing", "watching", "done"}
  BY <1>3, HInvFacts DEF Quiet, Placed, OpenAI, Steps
<1>5. CASE h.pc = "watching"
  <2>1. client' = client
    BY <1>5 DEF Send
  <2> QED
    BY <1>2, <1>5, <2>1 DEF MessagesInv
<1>6. CASE h.pc # "watching"
  <2>1. client' = Taken(client) /\ Taken(client)' = client'
    BY <1>1, <1>6 DEF Send, Taken
  <2>2. CASE h.pc = "reading"
    <3>1. ~h.buffered /\ Taken(client) = InStep
      BY <1>1, <2>2 DEF MessagesInv
    <3>2. InStep' = InStep
      BY <1>1, SameTranslation
    <3> QED
      BY <1>1, <1>2, <1>3, <2>1, <2>2, <3>1, <3>2, ReadingKeeps
  <2>3. CASE h.pc = "releasing"
    <3>1. PICK d : Reads(Taken(client), h.held, d) /\ d.phase \in {"ended", "failed"}
      BY <2>3 DEF MessagesInv
    <3>2. Reads(Taken(client)', h'.held, d)
      BY <1>2, <2>1, <3>1
    <3> QED
      BY <1>2, <1>3, <2>3, <3>1, <3>2 DEF MessagesInv
  <2>4. CASE h.pc = "done"
    <3>1. Taken(client).phase \in {"ended", "failed"}
      BY <1>1, <2>4 DEF MessagesInv
    <3>2. Taken(client)'.phase \in {"ended", "failed"}
      BY <2>1, <3>1
    <3> QED
      BY <1>2, <1>3, <2>4, <3>2 DEF MessagesInv
  <2> QED
    BY <1>4, <1>6, <2>2, <2>3, <2>4
<1> QED
  BY <1>5, <1>6

\* Whatever is booked for a forwarded request, the request stays.
LEMMA ForwardedKeeps ==
  ASSUME h \in Handlers, NEW s, s = h \/ s = Served(h), NEW t, NEW p
  PROVE  LET n == [Forwarded(s, t) EXCEPT !.pc = p]
         IN  n.req = h.req /\ n.shown = h.shown /\ n.pc = p
<1>1. /\ s.req = h.req /\ s.shown = h.shown /\ DOMAIN s = DOMAIN h
  BY DEF Served, Handlers
<1>2. PICK m : m = Forwarded(s, t)
  OBVIOUS
<1>3. m.req = s.req /\ m.shown = s.shown /\ DOMAIN m = DOMAIN s
  BY <1>1, <1>2 DEF Forwarded, Handlers
<1> QED
  BY <1>1, <1>2, <1>3 DEF Handlers

LEMMA ForwardMessages ==
  ASSUME HInv, MessagesInv, ~OpenAI, ForwardFails \/ ForwardAnswers \/ ForwardStreams
  PROVE  MessagesInv' /\ h'.req = h.req
<1>1. h.pc = "forwarding" /\ client' = client /\ yielded' = yielded /\ h \in Handlers
  BY HInvFacts DEF ForwardFails, ForwardAnswers, ForwardStreams, Forwarding, Become
<1>2. yielded = Nothing /\ client = NewClient /\ h.shown = <<>>
  BY <1>1, HInvFacts DEF HInv, Quiet, MessagesInv, ShownInOrder
<1>3. \/ h' = [h EXCEPT !.pc = "aborted"]
      \/ \E s, t, p : /\ s = h \/ s = Served(h)
                      /\ p \in {"done", "watching"}
                      /\ h' = [Forwarded(s, t) EXCEPT !.pc = p]
  BY DEF ForwardFails, ForwardAnswers, ForwardStreams, Become
<1>4. h'.req = h.req /\ h'.shown = <<>> /\ h'.pc \in {"done", "watching", "aborted"}
  <2>1. CASE h' = [h EXCEPT !.pc = "aborted"]
    BY <1>1, <1>2, <2>1 DEF Handlers
  <2>2. CASE \E s, t, p : /\ s = h \/ s = Served(h)
                          /\ p \in {"done", "watching"}
                          /\ h' = [Forwarded(s, t) EXCEPT !.pc = p]
    BY <1>1, <1>2, <2>2, ForwardedKeeps
  <2> QED
    BY <1>3, <2>1, <2>2
<1> QED
  BY <1>1, <1>2, <1>4, UntouchedKeeps

LEMMA WatchMessages ==
  ASSUME HInv, MessagesInv, ~OpenAI, PassChunk \/ ReadChunk \/ WatchEnds
  PROVE  MessagesInv' /\ h'.req = h.req
<1>1. h.pc = "watching" /\ client' = client /\ yielded = Nothing /\ h \in Handlers
  BY HInvFacts DEF PassChunk, ReadChunk, WatchEnds, Running, Become, BecomeYielding
<1>2. client = NewClient
  BY <1>1 DEF MessagesInv
<1>3. CASE PassChunk \/ ReadChunk
  <2>1. h'.pc = "watching" /\ h'.req = h.req
    <3>1. CASE PassChunk
      <4>1. \E x, w : h' = [h EXCEPT !.lines = x, !.script = w]
        <5>1. PICK says \in {"nothing", "length", "error"} : h' = [h EXCEPT !.lines = h.lines + 1, !.script = <<says>>]
          BY ONLY <3>1, Zenon DEF PassChunk, BecomeYielding
        <5> QED
          BY ONLY <5>1, Zenon
      <4> QED
        BY <1>1, <4>1 DEF Handlers
    <3>2. CASE ReadChunk
      <4>1. \E x, y : h' = [h EXCEPT !.script = <<>>, !.got.finish = x, !.got.tools = y]
        BY <3>2 DEF ReadChunk, Become
      <4> QED
        BY <1>1, <4>1 DEF Handlers
    <3> QED
      BY <1>3, <3>1, <3>2
  <2> QED
    BY <1>1, <1>2, <2>1 DEF MessagesInv
<1>4. CASE WatchEnds
  <2>0. PICK b \in BOOLEAN, p \in {"done", "aborted"} : h' = [WatchedOutcome(b) EXCEPT !.pc = p]
    BY <1>4 DEF WatchEnds, Become
  <2> DEFINE t == PlanOutcome(TRUE, h.got.finish = "length", h.got.tools, b)
  <2>1. h' = [Forwarded(h, t) EXCEPT !.pc = p]
    BY <2>0 DEF WatchedOutcome
  <2> HIDE DEF t
  <2>2. h'.req = h.req /\ h'.pc = p
    BY <1>1, <2>1, ForwardedKeeps
  <2>3. h'.calls # <<>> /\ Call'.route = Plan
    <3>1. h.calls # <<>> /\ Call.route = Plan
      BY <1>1, HInvFacts, ForwardingCall DEF Placed, Call, LastCall
    <3>2. h' = [h EXCEPT !.calls[Len(h.calls)].status = t, !.pc = p]
      BY <1>1, <2>1, <3>1 DEF Forwarded, Handlers
    <3>3. h'.calls = [h.calls EXCEPT ![Len(h.calls)] = [@ EXCEPT !.status = t]]
      BY <1>1, <3>2 DEF Handlers
    <3>4. Len(h.calls) \in 1..Len(h.calls) /\ h.calls \in Seq(Calls) /\ Call \in Calls
      BY <1>1, <3>1, LastCallTyped DEF Call, LastCall
    <3>5. Len(h'.calls) = Len(h.calls)
      BY <3>3, <3>4
    <3>6. h'.calls[Len(h.calls)].route = Plan
      BY <3>1, <3>3, <3>4 DEF Call, LastCall, Calls
    <3> QED
      BY <3>4, <3>5, <3>6 DEF Call, LastCall
  <2>4. client'.phase # "confused" /\ yielded' = Nothing /\ client' = NewClient
    BY <1>1, <1>2, <1>4, NewClientKnows DEF WatchEnds, Become
  <2> QED
    BY <2>2, <2>3, <2>4 DEF MessagesInv
<1> QED
  BY <1>3, <1>4

LEMMA ClientGoneMessages ==
  ASSUME HInv, Numbering, MessagesInv, ~OpenAI, ClientGone
  PROVE  MessagesInv' /\ h'.req = h.req
<1>1. client' = client /\ h \in Handlers /\ h.req.stream
  BY HInvFacts DEF ClientGone
<1>2. h'.pc = "aborted" /\ h'.req = h.req
  <2>1. CASE h.pc = "watching"
    <3>1. \E t : h' = [Forwarded(h, t) EXCEPT !.pc = "aborted"]
      BY <2>1 DEF ClientGone, WatchedOutcome
    <3> QED
      BY <1>1, <3>1, ForwardedKeeps
  <2>2. CASE h.pc # "watching"
    <3>1. h' = [h EXCEPT !.pc = "aborted"]
      BY <2>2 DEF ClientGone
    <3> QED
      BY <1>1, <3>1 DEF Handlers
  <2> QED
    BY <2>1, <2>2
<1>3. client.phase # "confused"
  BY NotConfused
<1> QED
  BY <1>1, <1>2, <1>3 DEF MessagesInv

----------------------------------------------------------------------------
(* Every client *)

\* A call that failed keeps the request it was made for.
LEMMA FailureRequest ==
  ASSUME HInv, RefusedUpstream \/ Broken \/ TranslationRaised
  PROVE  h'.req = h.req
<1>1. h \in Handlers /\ h.pc \in {"calling", "reading"} /\ h.calls # <<>>
  BY HInvFacts DEF RefusedUpstream, Broken, TranslationRaised, Calling, Reading, Placed
<1>2. \/ h' = [h EXCEPT !.pc = "aborted"]
      \/ h' = [Book(h, "upstream_error") EXCEPT !.pc = "done"]
      \/ \E b \in {"upstream_error", "transport_error"} :
           Tell(AfterCall(Book(h, b), FALSE), ErrorEvent)
  BY DEF RefusedUpstream, Broken, TranslationRaised, Become
<1>3. CASE h' = [h EXCEPT !.pc = "aborted"]
  BY <1>1, <1>3 DEF Handlers
<1>4. CASE h' = [Book(h, "upstream_error") EXCEPT !.pc = "done"]
  <2> DEFINE m == Book(h, "upstream_error")
  <2>1. m \in Handlers /\ m.req = h.req
    BY <1>1, BookFields DEF Handlers
  <2> HIDE DEF m
  <2>2. h' = [m EXCEPT !.pc = "done"]
    BY <1>4 DEF m
  <2> QED
    BY <2>1, <2>2 DEF Handlers
<1>5. CASE \E b \in {"upstream_error", "transport_error"} :
             Tell(AfterCall(Book(h, b), FALSE), ErrorEvent)
  <2>1. PICK b \in {"upstream_error", "transport_error"} :
          Tell(AfterCall(Book(h, b), FALSE), ErrorEvent)
    BY <1>5
  <2> DEFINE n == AfterCall(Book(h, b), FALSE)
  <2>2. Sound(n) /\ MovedOn(n)
    BY <1>1, HeedsItself, CallEnded
  <2> HIDE DEF n
  <2>3. n \in Handlers /\ n.req = h.req
    BY <2>2 DEF Sound, MovedOn
  <2>4. Tell(n, ErrorEvent)
    BY <2>1 DEF n
  <2>5. h' = n \/ \E x : h' = [n EXCEPT !.held = x]
    BY <2>4 DEF Tell, Become, BecomeYielding
  <2> QED
    BY <2>3, <2>5 DEF Handlers
<1> QED
  BY <1>2, <1>3, <1>4, <1>5

\* So does one that was answered.
LEMMA AnswerRequest ==
  ASSUME HInv, Numbering, EndOfUpstream \/ TranslationDone \/ Posted
  PROVE  h'.req = h.req
<1>1. h \in Handlers /\ h.pc \in {"calling", "reading"}
  BY HInvFacts DEF EndOfUpstream, TranslationDone, Posted, Calling, Reading
<1>2. \/ h' = h
      \/ h' = [h EXCEPT !.pc = "done", !.calls[LastCall].errors = @ + 1]
      \/ \E g \in [text : BOOLEAN, tools : BOOLEAN, finish : Finish] : h' = Completed(h, g)
  <2>1. h.got \in [text : BOOLEAN, tools : BOOLEAN, finish : Finish]
    BY <1>1 DEF Handlers
  <2>2. CASE EndOfUpstream
    BY <2>1, <2>2 DEF EndOfUpstream, Become
  <2>3. CASE TranslationDone
    <3> DEFINE g == [h.got EXCEPT !.tools = SeenTools # {}, !.finish = tr.finish]
    <3>1. tr.finish \in Finish
      BY DEF Numbering, Numbers, Translations
    <3>2. PICK b \in BOOLEAN : b = (SeenTools # {})
      OBVIOUS
    <3>3. g \in [text : BOOLEAN, tools : BOOLEAN, finish : Finish]
      BY <2>1, <3>1, <3>2
    <3>4. h' = Completed(h, g)
      BY <2>3 DEF TranslationDone, Become
    <3> QED
      BY <3>3, <3>4
  <2>4. CASE Posted
    <3>1. CASE \E t, c \in BOOLEAN, f \in Finish :
                 Become(Completed(h, [text |-> t, tools |-> c, finish |-> f]))
      <4>1. PICK t \in BOOLEAN, c \in BOOLEAN, f \in Finish :
                  Become(Completed(h, [text |-> t, tools |-> c, finish |-> f]))
        BY <3>1
      <4>2. [text |-> t, tools |-> c, finish |-> f]
              \in [text : BOOLEAN, tools : BOOLEAN, finish : Finish]
        OBVIOUS
      <4> QED
        BY <4>1, <4>2 DEF Become
    <3>2. CASE Become([h EXCEPT !.pc = "done", !.calls[LastCall].errors = @ + 1])
      BY <3>2 DEF Become
    <3> QED
      BY <2>4, <3>1, <3>2 DEF Posted
  <2> QED
    BY <2>2, <2>3, <2>4
<1>3. CASE h' = [h EXCEPT !.pc = "done", !.calls[LastCall].errors = @ + 1]
  BY <1>1, <1>3 DEF Handlers
<1>4. CASE \E g \in [text : BOOLEAN, tools : BOOLEAN, finish : Finish] : h' = Completed(h, g)
  <2>1. PICK g \in [text : BOOLEAN, tools : BOOLEAN, finish : Finish] : h' = Completed(h, g)
    BY <1>4
  <2>2. PICK n : n = Completed(h, g)
    OBVIOUS
  <2>3. MovedOn(n)
    BY <1>1, <2>2, CompletedSound
  <2> QED
    BY <2>1, <2>2, <2>3 DEF MovedOn
<1> QED
  BY <1>2, <1>3, <1>4

\* One handler answers one request.
LEMMA SameRequest ==
  ASSUME HInv, Numbering, [Next]_vars, OpenAI \/ MessagesInv
  PROVE  h'.req = h.req
<1>1. h \in Handlers
  BY HInvFacts
<1>2. CASE Refuse \/ RouteOther
  <2>1. h' = [h EXCEPT !.pc = "done"] \/ h' = [h EXCEPT !.pc = "forwarding"]
    BY <1>2 DEF Refuse, RouteOther, Become
  <2> QED
    BY <1>1, <2>1 DEF Handlers
<1>3. CASE RouteOpenAI
  <2>1. OpenAI
    BY <1>3 DEF RouteOpenAI
  <2> QED
    BY <1>3, <2>1, RoutedLines DEF LineStep
<1>4. CASE RouteAnthropic
  BY <1>4, RouteAnthropicCases
<1>5. CASE Open
  <2>1. \/ \E w : h' = [h EXCEPT !.pc = "reading", !.scripted = TRUE, !.script = w]
        \/ h' = [h EXCEPT !.pc = "reading"]
    BY <1>5 DEF Open
  <2> QED
    BY <1>1, <2>1 DEF Handlers
<1>6. CASE RefusedUpstream \/ Broken \/ TranslationRaised
  BY <1>6, FailureRequest
<1>7. CASE ForwardLine
  <2>1. OpenAI
    BY <1>7 DEF ForwardLine
  <2> QED
    BY <1>7, <2>1, UpstreamLines DEF LineStep
<1>8. CASE TranslateLine
  <2>1. PICK l \in NextLines : h' = ReadOn(l)
    BY <1>8 DEF TranslateLine
  <2> QED
    BY <1>8, <2>1, ReadOnSound DEF TranslateLine, Reading
<1>9. CASE TranslateOn
  BY <1>9 DEF TranslateOn
<1>10. CASE EndOfUpstream \/ TranslationDone \/ Posted
  BY <1>10, AnswerRequest
<1>11. CASE Grade
  BY <1>11, GradeMoves
<1>12. CASE StepUp
  BY <1>12, StepUpMoves
<1>13. CASE Release \/ CloseOpenAI
  <2>1. \/ \E x : h' = [h EXCEPT !.held = x]
        \/ \E p : h' = [h EXCEPT !.pc = p]
    BY <1>13 DEF Release, CloseOpenAI, Become, BecomeYielding
  <2> QED
    BY <1>1, <2>1 DEF Handlers
<1>14. CASE Collect \/ Send
  <2>1. \/ \E x : h' = [h EXCEPT !.held = x]
        \/ \E x : h' = [h EXCEPT !.shown = x]
    BY <1>14 DEF Collect, Send
  <2> QED
    BY <1>1, <2>1 DEF Handlers
<1>15. CASE ForwardFails \/ ForwardAnswers \/ ForwardStreams
  <2>1. ~OpenAI
    BY <1>15, OtherSurfaces
  <2> QED
    BY <1>15, <2>1, ForwardMessages
<1>16. CASE PassChunk \/ ReadChunk \/ WatchEnds
  <2>1. ~OpenAI
    BY <1>16, OtherSurfaces
  <2> QED
    BY <1>16, <2>1, WatchMessages
<1>17. CASE ClientGone
  <2>1. CASE OpenAI
    BY <1>17, <2>1, DeliveryLines DEF LineStep
  <2>2. CASE ~OpenAI
    BY <1>17, <2>2, ClientGoneMessages
  <2> QED
    BY <2>1, <2>2
<1>18. CASE UNCHANGED vars
  BY <1>18 DEF vars
<1> QED
  BY <1>2, <1>3, <1>4, <1>5, <1>6, <1>7, <1>8, <1>9, <1>10, <1>11, <1>12, <1>13, <1>14,
     <1>15, <1>16, <1>17, <1>18 DEF Next

LEMMA NextMessagesInv ==
  ASSUME HInv, Numbering, MessagesInv, [Next]_vars, h'.req = h.req
  PROVE  MessagesInv'
<1> SUFFICES ASSUME ~OpenAI PROVE MessagesInv'
  BY DEF MessagesInv, OpenAI
<1>1. ~RouteOpenAI /\ ~ForwardLine /\ ~CloseOpenAI
  BY HInvFacts DEF RouteOpenAI, ForwardLine, CloseOpenAI, Placed, OpenAI
<1>2. CASE Refuse \/ RouteOther
  BY <1>2, NewMessages
<1>3. CASE RouteAnthropic
  BY <1>3, RouteAnthropicMessages
<1>4. CASE Open
  BY <1>4, OpenMessages
<1>5. CASE RefusedUpstream \/ Broken \/ TranslationRaised
  BY <1>5, FailureMessages
<1>6. CASE TranslateLine \/ TranslateOn \/ EndOfUpstream
  BY <1>6, TranslatingMessages
<1>7. CASE TranslationDone
  BY <1>7, TranslationDoneMessages
<1>8. CASE Posted
  BY <1>8, PostedMessages
<1>9. CASE Grade
  BY <1>9, GradeMessages
<1>10. CASE StepUp
  BY <1>10, StepUpMessages
<1>11. CASE Release
  BY <1>11, ReleaseMessages
<1>12. CASE Collect
  BY <1>12, CollectMessages
<1>13. CASE Send
  BY <1>13, SendMessages
<1>14. CASE ForwardFails \/ ForwardAnswers \/ ForwardStreams
  BY <1>14, ForwardMessages
<1>15. CASE PassChunk \/ ReadChunk \/ WatchEnds
  BY <1>15, WatchMessages
<1>16. CASE ClientGone
  BY <1>16, ClientGoneMessages
<1>17. CASE UNCHANGED vars
  <2>1. h' = h /\ yielded' = yielded /\ client' = client /\ tr' = tr
    BY <1>17 DEF vars
  <2> QED
    BY <2>1 DEF MessagesInv, OpenAI, Taken, InStep, Blocks, Call, LastCall
<1> QED
  BY <1>1, <1>2, <1>3, <1>4, <1>5, <1>6, <1>7, <1>8, <1>9, <1>10, <1>11, <1>12, <1>13,
     <1>14, <1>15, <1>16, <1>17 DEF Next

LEMMA InitClients ==
  ASSUME Init
  PROVE  LinesInv /\ MessagesInv
<1>1. /\ h.pc = "new" /\ yielded = Nothing /\ client = NewClient
      /\ client.phase = "before" /\ h.shown = <<>>
  BY NewClientKnows DEF Init, Idle
<1>2. Plain("sentinel") # Nothing
  BY PlainTyped
<1> QED
  BY <1>1, <1>2 DEF LinesInv, MessagesInv

\* Both surfaces together: what has been sent and what is still to be sent
\* always read as one stream.
ClientsInv == HInv /\ Numbering /\ LinesInv /\ MessagesInv

\* Whatever was collected, discarded, released or told as an error, on either
\* surface the client gets one well-formed stream: complete or ended by one
\* error, and nothing after its end.
THEOREM ClientUnderstandsTheorem == Spec => []ClientUnderstands
<1>1. Init => ClientsInv
  BY InitHInv, InitClients DEF ClientsInv
<1>2. ClientsInv /\ [Next]_vars => ClientsInv'
  BY NextHInv, SameRequest, NextLinesInv, NextMessagesInv DEF ClientsInv
<1>3. ClientsInv => ClientUnderstands
  <2> SUFFICES ASSUME HInv, Numbering, LinesInv, MessagesInv PROVE ClientUnderstands
    BY DEF ClientsInv
  <2>1. client.phase # "confused"
    BY NotConfused DEF LinesInv
  <2>2. Streamed => client.phase \in {"ended", "failed"}
    <3> SUFFICES ASSUME Streamed PROVE client.phase \in {"ended", "failed"}
      OBVIOUS
    <3>1. h.pc = "done" /\ yielded = Nothing /\ h.shown # <<>> /\ Call.route # Plan
          /\ h.req.stream
      BY DEF Streamed, Running
    <3>2. CASE OpenAI
      BY <3>1, <3>2, PlainTyped DEF LinesInv
    <3>3. CASE ~OpenAI
      BY <3>1, <3>3 DEF MessagesInv, Taken
    <3> QED
      BY <3>2, <3>3
  <2> QED
    BY <2>1, <2>2 DEF ClientUnderstands
<1> QED
  BY <1>1, <1>2, <1>3, PTL DEF Spec
=============================================================================
