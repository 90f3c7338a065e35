---------------------------- MODULE Translation ----------------------------
(***************************************************************************)
(* stream_translate.translate_stream: an OpenAI chat-completions stream    *)
(* rewritten as an Anthropic Messages stream, one event at a time.  It is  *)
(* an async generator: after each yield it is suspended until its consumer *)
(* asks for more, so `yielded` holds at most one event and no action of    *)
(* the generator is enabled while it does.                                 *)
(*                                                                         *)
(* A line is what is read of the first choice of one chunk; lines without  *)
(* a choice ([DONE], usage, comments) change nothing here and are left     *)
(* out.  A line carries at most one tool-call fragment.                    *)
(***************************************************************************)
EXTENDS Integers

CONSTANTS Tool,      \* the upstream's tool-call indexes
          NoTool     \* a line without a tool-call fragment

VARIABLES
  tr,        \* the generator's local variables
  yielded,   \* the event the generator is suspended on
  client     \* what a Messages client knows after the events it got

tvars == <<tr, yielded, client>>

Finish == {"none", "stop", "length", "tool_calls"}
Line == [text : BOOLEAN, call : Tool \cup {NoTool}, named : BOOLEAN,
         args : BOOLEAN, finish : Finish]
EmptyLine == [text |-> FALSE, call |-> NoTool, named |-> FALSE,
              args |-> FALSE, finish |-> "none"]

\* Block indexes; NoBlock where Python has None.
NoBlock == -1

NewTranslation ==
  [pc |-> "lines", line |-> EmptyLine, begun |-> FALSE, next |-> 0,
   text |-> NoBlock, block |-> [i \in Tool |-> NoBlock], started |-> {},
   stopped |-> {}, finish |-> "none"]

Event == [type : {"nothing", "message_start", "block_start", "block_delta",
                  "block_stop", "message_delta", "message_stop", "error"},
          index : Int, reason : {"none", "end_turn", "max_tokens", "tool_use"}]

Plain(t) == [type |-> t, index |-> NoBlock, reason |-> "none"]
Block(t, i) == [type |-> t, index |-> i, reason |-> "none"]
Nothing == Plain("nothing")

\* The generator may run; and it yields e.
Running == yielded = Nothing
Yield(e) == yielded' = e /\ UNCHANGED client

SeenTools == {i \in Tool : tr.block[i] # NoBlock}


\* STOP_REASON_MAP, unless the stream carried tool calls.
StopReason ==
  CASE SeenTools # {} \/ tr.finish = "tool_calls" -> "tool_use"
    [] SeenTools = {} /\ tr.finish = "length" -> "max_tokens"
    [] OTHER -> "end_turn"

----------------------------------------------------------------------------
(* Reading *)

\* One more chunk with a choice.
TakeLine(l) ==
  /\ Running /\ tr.pc = "lines"
  /\ tr' = [tr EXCEPT !.pc = "line", !.line = l,
                      !.finish = IF l.finish = "none" THEN @ ELSE l.finish]
  /\ UNCHANGED <<yielded, client>>

\* The first chunk with a choice, or the end of a stream that had none.
BeginMessage ==
  /\ Running /\ tr.pc \in {"line", "closing"} /\ ~tr.begun
  /\ tr' = [tr EXCEPT !.begun = TRUE]
  /\ Yield(Plain("message_start"))

OpenText ==
  /\ Running /\ tr.pc = "line" /\ tr.begun
  /\ tr.line.text /\ tr.text = NoBlock
  /\ tr' = [tr EXCEPT !.text = tr.next, !.next = @ + 1]
  /\ Yield(Block("block_start", tr.next))

SendText ==
  /\ Running /\ tr.pc = "line" /\ tr.begun
  /\ tr.line.text /\ tr.text # NoBlock
  /\ tr' = [tr EXCEPT !.line.text = FALSE]
  /\ Yield(Block("block_delta", tr.text))

\* The tool-call fragment is looked at after the text.
AtCall == /\ Running /\ tr.pc = "line" /\ tr.begun
          /\ ~tr.line.text /\ tr.line.call # NoTool

\* The accumulator of a tool index: its block is numbered when it is first
\* seen, not when it is opened.
Numbered(i) ==
  IF tr.block[i] # NoBlock THEN tr
  ELSE [tr EXCEPT !.block[i] = tr.next, !.next = @ + 1]

\* Mutant: the block is numbered again when the tool's name arrives.
OpenToolRenumbers ==
  /\ AtCall /\ tr.line.named /\ tr.line.call \notin tr.started
  /\ LET i == tr.line.call
     IN  /\ tr' = [tr EXCEPT !.block[i] = tr.next, !.started = @ \cup {i}]
         /\ Yield(Block("block_start", tr.next))

OpenTool ==
  /\ AtCall /\ tr.line.named /\ tr.line.call \notin tr.started
  /\ LET i == tr.line.call
         n == Numbered(i)
     IN  /\ tr' = [n EXCEPT !.started = @ \cup {i}]
         /\ Yield(Block("block_start", n.block[i]))

SendArguments ==
  /\ AtCall /\ tr.line.call \in tr.started /\ tr.line.args
  /\ tr' = [tr EXCEPT !.pc = "lines", !.line = EmptyLine]
  /\ Yield(Block("block_delta", tr.block[tr.line.call]))

\* A fragment with neither a name nor arguments, or a name already known.
PassCall ==
  /\ AtCall /\ ~tr.line.args
  /\ tr.line.named => tr.line.call \in tr.started
  /\ tr' = [Numbered(tr.line.call) EXCEPT !.pc = "lines", !.line = EmptyLine]
  /\ UNCHANGED <<yielded, client>>

\* Arguments before a name: TranslationError.
RaiseNameless ==
  /\ AtCall /\ tr.line.args /\ ~tr.line.named /\ tr.line.call \notin tr.started
  /\ tr' = [Numbered(tr.line.call) EXCEPT !.pc = "raised", !.line = EmptyLine]
  /\ UNCHANGED <<yielded, client>>

LineDone ==
  /\ Running /\ tr.pc = "line" /\ tr.begun
  /\ ~tr.line.text /\ tr.line.call = NoTool
  /\ tr' = [tr EXCEPT !.pc = "lines", !.line = EmptyLine]
  /\ UNCHANGED <<yielded, client>>

----------------------------------------------------------------------------
(* Ending *)

EndOfLines ==
  /\ Running /\ tr.pc = "lines"
  /\ tr' = [tr EXCEPT !.pc = "closing"]
  /\ UNCHANGED <<yielded, client>>

Blocks == ({tr.text} \ {NoBlock}) \cup {tr.block[i] : i \in tr.started}
ToStop == Blocks \ tr.stopped

\* Mutant: the text block is left open.
StopToolsOnly(b) ==
  /\ Running /\ tr.pc = "closing" /\ tr.begun
  /\ b \in ToStop
  /\ tr' = [tr EXCEPT !.stopped = @ \cup {b, tr.text}]
  /\ Yield(Block("block_stop", b))

\* The text block first, then the tools that were opened, in the order they
\* were first seen.
StopBlock(b) ==
  /\ Running /\ tr.pc = "closing" /\ tr.begun
  /\ b \in ToStop
  /\ IF tr.text \in ToStop THEN b = tr.text ELSE \A c \in ToStop : b <= c
  /\ tr' = [tr EXCEPT !.stopped = @ \cup {b}]
  /\ Yield(Block("block_stop", b))

DeltaMessage ==
  /\ Running /\ tr.pc = "closing" /\ tr.begun /\ ToStop = {}
  /\ tr' = [tr EXCEPT !.pc = "ending"]
  /\ Yield([type |-> "message_delta", index |-> NoBlock, reason |-> StopReason])

StopMessage ==
  /\ Running /\ tr.pc = "ending"
  /\ tr' = [tr EXCEPT !.pc = "done"]
  /\ Yield(Plain("message_stop"))

\* What the generator does between two lines, whatever the upstream sends.
Translate ==
  \/ BeginMessage \/ OpenText \/ SendText
  \/ OpenTool \/ SendArguments \/ PassCall \/ RaiseNameless \/ LineDone
  \/ (\E b \in ToStop : StopBlock(b)) \/ DeltaMessage \/ StopMessage

----------------------------------------------------------------------------
(* The client: a reader of Messages events. *)

NewClient == [phase |-> "before", used |-> {}, open |-> {}]

Fits(c, e) ==
  \/ e.type = "message_start" /\ c.phase = "before"
  \/ e.type = "block_start" /\ c.phase = "open" /\ e.index \notin c.used
  \/ e.type \in {"block_delta", "block_stop"} /\ c.phase = "open" /\ e.index \in c.open
  \/ e.type = "message_delta" /\ c.phase = "open" /\ c.open = {}
  \/ e.type = "message_stop" /\ c.phase = "closing"
  \/ e.type = "error" /\ c.phase \in {"before", "open", "closing"}

\* The client after e; an event out of place leaves it "confused".
See(c, e) ==
  IF ~Fits(c, e) THEN [c EXCEPT !.phase = "confused"]
  ELSE [c EXCEPT
          !.phase = CASE e.type = "message_start" -> "open"
                      [] e.type = "message_delta" -> "closing"
                      [] e.type = "message_stop" -> "ended"
                      [] e.type = "error" -> "failed"
                      [] OTHER -> @,
          !.used = IF e.type = "block_start" THEN @ \cup {e.index} ELSE @,
          !.open = CASE e.type = "block_start" -> @ \cup {e.index}
                     [] e.type = "block_stop" -> @ \ {e.index}
                     [] OTHER -> @]

----------------------------------------------------------------------------
(* One stream by itself, sent straight to the client. *)

TInit == tr = NewTranslation /\ yielded = Nothing /\ client = NewClient

Deliver ==
  /\ yielded # Nothing
  /\ client' = See(client, yielded)
  /\ yielded' = Nothing
  /\ UNCHANGED tr

TNext == \/ \E l \in Line : TakeLine(l)
         \/ EndOfLines \/ Translate \/ Deliver

TSpec == TInit /\ [][TNext]_tvars

\* A stream the translation ended is a complete message, and at no moment has
\* the client been sent an event that does not fit what came before it:
\* blocks are numbered once, opened once, written to only while open, and all
\* closed before the message ends.
WellFormed ==
  /\ client.phase # "confused"
  /\ tr.pc = "done" /\ yielded = Nothing => client.phase = "ended"
=============================================================================
