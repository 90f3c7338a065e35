----------------------------- MODULE SwitchMode -----------------------------
(***************************************************************************)
(* Switch mode: a wrapper keeps one Claude Code conversation in cheap mode *)
(* or in plan mode and restarts Claude Code to change between them.  A     *)
(* restart is asked for through one state file.  The prompt hook, a        *)
(* process of its own for each prompt, writes it, and so does the gateway  *)
(* when a cheap turn is stuck; the wrapper's watcher thread looks for it,  *)
(* and the wrapper reads and removes it once Claude Code has ended.        *)
(*                                                                         *)
(* Hooks and requests of the gateway are not tied to the life of the       *)
(* Claude Code they serve: they may write after it has ended.              *)
(***************************************************************************)
EXTENDS Naturals

CONSTANTS
  Prompt,       \* what the user types, each once
  GoOn,         \* the prompt of a hand-over by the gateway
  Again,        \* the hook of the prompt a child was started with
  None,
  MaxHandOvers  \* bound: turns that get stuck

ASSUME SwitchAssumption ==
  /\ MaxHandOvers \in Nat
  /\ GoOn \notin Prompt /\ Again \notin Prompt /\ None \notin Prompt \cup {GoOn}

VARIABLES
  wrapper,   \* run: where it is, its mode, resume, and the switch it has read
  child,     \* the Claude Code of the latest launch
  watcher,   \* _watch of that child
  hook,      \* [Hook -> _hook for one submitted prompt]
  request,   \* switch_to_plan, in the gateway
  file,      \* <token>.json
  tmp,       \* <token>.tmp, which every writer uses
  session,   \* does <token>.session exist?
  fate,      \* [Prompt -> what has become of it]
  replaced   \* the prompts of payloads that another one was written over

vars == <<wrapper, child, watcher, hook, request, file, tmp, session, fate, replaced>>

Mode == {"cheap", "plan"}
Text == Prompt \cup {GoOn}
Hook == Prompt \cup {Again}

\* `known` says whether the payload names the session; `of` is the launch of
\* the child it was decided for.
Payload == [target : Mode, prompt : Text, known : BOOLEAN, of : Nat]

ASSUME NoneAssumption == None \notin Payload

NoHook == [pc |-> "none", prompt |-> None, mode |-> "cheap", resumed |-> None, of |-> 0, target |-> "cheap"]
NoRequest == [pc |-> "none", known |-> TRUE, of |-> 0, left |-> MaxHandOvers]

\* `launch` counts the children; `told` says that the watcher sent it SIGTERM.
NoChild == [live |-> FALSE, at |-> "idle", mode |-> "cheap", resumed |-> None, launch |-> 0, told |-> FALSE]

Init ==
  /\ \E m \in Mode : wrapper = [pc |-> "launch", mode |-> m, resume |-> None, switch |-> None]
  /\ child = NoChild /\ watcher = "over"
  /\ hook = [h \in Hook |-> NoHook]
  /\ request = NoRequest
  /\ file = None /\ tmp = None /\ session = FALSE
  /\ fate = [p \in Prompt |-> "new"] /\ replaced = {}

----------------------------------------------------------------------------
(* The wrapper *)

\* The hook of the prompt `p` submitted to the child of launch n.
NewHook(p, m, resumed, n) ==
  [pc |-> "start", prompt |-> p, mode |-> m, resumed |-> resumed, of |-> n, target |-> m]

Given(p) == IF p \in Prompt THEN [fate EXCEPT ![p] = "given"] ELSE fate

\* Mutant: one watcher for all children.
LaunchKeepsWatcher ==
  LET n == child.launch + 1
      p == wrapper.resume
  IN  /\ wrapper.pc = "launch"
      /\ child' = [live |-> TRUE, at |-> IF p = None THEN "idle" ELSE "asking",
                   mode |-> wrapper.mode, resumed |-> p, launch |-> n, told |-> FALSE]
      /\ hook' = IF p = None THEN hook
                 ELSE [hook EXCEPT ![Again] = NewHook(p, wrapper.mode, p, n)]
      /\ fate' = Given(p)
      /\ watcher' = IF watcher = "settle" THEN "settle" ELSE "poll"
      /\ wrapper' = [wrapper EXCEPT !.pc = "wait"]
      /\ UNCHANGED <<request, file, tmp, session, replaced>>

\* Claude Code is started in the wrapper's mode, with the prompt of the
\* switch if there was one, and with a watcher that knows only this child.
Launch ==
  LET n == child.launch + 1
      p == wrapper.resume
  IN  /\ wrapper.pc = "launch"
      /\ child' = [live |-> TRUE, at |-> IF p = None THEN "idle" ELSE "asking",
                   mode |-> wrapper.mode, resumed |-> p, launch |-> n, told |-> FALSE]
      /\ hook' = IF p = None THEN hook
                 ELSE [hook EXCEPT ![Again] = NewHook(p, wrapper.mode, p, n)]
      /\ fate' = Given(p)
      /\ watcher' = "poll"
      /\ wrapper' = [wrapper EXCEPT !.pc = "wait"]
      /\ UNCHANGED <<request, file, tmp, session, replaced>>

\* child.wait returns, and state.exists is asked.
ChildEnded ==
  /\ wrapper.pc = "wait" /\ ~child.live
  /\ wrapper' = [wrapper EXCEPT !.pc = IF file = None THEN "clean" ELSE "read"]
  /\ UNCHANGED <<child, watcher, hook, request, file, tmp, session, fate, replaced>>

Read ==
  /\ wrapper.pc = "read"
  /\ wrapper' = [wrapper EXCEPT !.pc = "unlink", !.switch = file]
  /\ UNCHANGED <<child, watcher, hook, request, file, tmp, session, fate, replaced>>

\* The file is removed, whatever it holds by now.  Without a session there is
\* nothing to resume; without a gateway there is no cheap mode.
Unlink ==
  LET s == wrapper.switch
  IN  /\ wrapper.pc = "unlink"
      /\ file' = None
      /\ IF s.known \/ session
         THEN \E up \in BOOLEAN :
                wrapper' = [pc |-> "launch", switch |-> None, resume |-> s.prompt,
                            mode |-> IF s.target = "cheap" /\ ~up THEN "plan" ELSE s.target]
         ELSE wrapper' = [wrapper EXCEPT !.pc = "clean"]
      /\ UNCHANGED <<child, watcher, hook, request, tmp, session, fate, replaced>>

\* The end of the session: what hooks and requests wrote too late is removed.
Clean ==
  /\ wrapper.pc = "clean"
  /\ wrapper' = [wrapper EXCEPT !.pc = "over"]
  /\ file' = None /\ tmp' = None /\ session' = FALSE
  /\ UNCHANGED <<child, watcher, hook, request, fate, replaced>>

----------------------------------------------------------------------------
(* The watcher *)

\* Mutant: a turn is not disturbed.
WatcherSeesIdle ==
  /\ watcher = "poll" /\ child.live /\ child.at = "idle" /\ file # None
  /\ watcher' = "settle"
  /\ UNCHANGED <<wrapper, child, hook, request, file, tmp, session, fate, replaced>>

\* _watch looks for the file until its child has ended.
WatcherSees ==
  /\ watcher = "poll" /\ child.live /\ file # None
  /\ watcher' = "settle"
  /\ UNCHANGED <<wrapper, child, hook, request, file, tmp, session, fate, replaced>>

\* After the settle time, unless the child has ended meanwhile.
WatcherActs ==
  /\ watcher = "settle"
  /\ watcher' = "over"
  /\ child' = [child EXCEPT !.told = @ \/ child.live]
  /\ UNCHANGED <<wrapper, hook, request, file, tmp, session, fate, replaced>>

----------------------------------------------------------------------------
(* Claude Code: its user, its turns and its end *)

\* The user submits a prompt; one in the middle of a turn ends the turn.
Submit(p) ==
  /\ child.live /\ child.at # "asking" /\ fate[p] = "new"
  /\ child' = [child EXCEPT !.at = "asking"]
  /\ hook' = [hook EXCEPT ![p] = NewHook(p, child.mode, child.resumed, child.launch)]
  /\ fate' = [fate EXCEPT ![p] = "asked"]
  /\ UNCHANGED <<wrapper, watcher, request, file, tmp, session, replaced>>

TurnEnds ==
  /\ child.live /\ child.at = "turn"
  /\ child' = [child EXCEPT !.at = "idle"]
  /\ UNCHANGED <<wrapper, watcher, hook, request, file, tmp, session, fate, replaced>>

\* The user quits, a headless run ends, or SIGTERM has arrived.
Quits ==
  /\ child.live
  /\ child' = [child EXCEPT !.live = FALSE]
  /\ UNCHANGED <<wrapper, watcher, hook, request, file, tmp, session, fate, replaced>>

----------------------------------------------------------------------------
(* The hook *)

\* The child of hook h is still there and waits for it.
Waiting(h) == child.live /\ child.launch = hook[h].of /\ child.at = "asking"

\* Hook h lets its prompt through, or is not heard any more.
Passes(h) ==
  /\ hook' = [hook EXCEPT ![h] = NoHook]
  /\ child' = IF Waiting(h) THEN [child EXCEPT !.at = "turn"] ELSE child
  /\ fate' = IF h \in Prompt /\ Waiting(h) THEN [fate EXCEPT ![h] = "through"] ELSE fate

\* Mutant: the resumed prompt is routed like any other.
HookStartsAlways(h) ==
  /\ hook[h].pc = "start"
  /\ \/ Passes(h) /\ UNCHANGED session
     \/ session' = TRUE /\ hook' = [hook EXCEPT ![h].pc = "decide"] /\ UNCHANGED <<child, fate>>
  /\ UNCHANGED <<wrapper, watcher, request, file, tmp, replaced>>

\* A slash command, or the prompt this child was started with, goes through;
\* for any other the session is noted.
HookStarts(h) ==
  /\ hook[h].pc = "start"
  /\ \/ Passes(h) /\ UNCHANGED session
     \/ /\ hook[h].prompt # hook[h].resumed
        /\ session' = TRUE
        /\ hook' = [hook EXCEPT ![h].pc = "decide"]
        /\ UNCHANGED <<child, fate>>
  /\ UNCHANGED <<wrapper, watcher, request, file, tmp, replaced>>

\* Mutant: the state is written whatever the mode is.
HookDecidesAlways(h) ==
  /\ hook[h].pc = "decide"
  /\ \E target \in Mode : hook' = [hook EXCEPT ![h].pc = "write", ![h].target = target]
  /\ UNCHANGED <<wrapper, child, watcher, request, file, tmp, session, fate, replaced>>

\* decide: any mode, the current one when the router fails.
HookDecides(h) ==
  /\ hook[h].pc = "decide"
  /\ \E target \in Mode :
       IF target = hook[h].mode THEN Passes(h)
       ELSE hook' = [hook EXCEPT ![h].pc = "write", ![h].target = target] /\ UNCHANGED <<child, fate>>
  /\ UNCHANGED <<wrapper, watcher, request, file, tmp, session, replaced>>

\* The prompt that whatever is written here now replaces.
Dropped(written) == IF written = None THEN {} ELSE {written.prompt}

\* write_state writes the temporary file ...
WritesTmp(payload) ==
  /\ tmp' = payload
  /\ replaced' = replaced \cup Dropped(tmp)

\* ... and renames it, whoever has written what it holds by now.
Renames ==
  /\ file' = tmp /\ tmp' = None
  /\ replaced' = replaced \cup Dropped(file)

HookWrites(h) ==
  /\ hook[h].pc = "write"
  /\ WritesTmp([target |-> hook[h].target, prompt |-> hook[h].prompt, known |-> TRUE, of |-> hook[h].of])
  /\ hook' = [hook EXCEPT ![h].pc = "rename"]
  /\ UNCHANGED <<wrapper, child, watcher, request, file, session, fate>>

\* If another writer has renamed it, the hook fails and the prompt goes through.
HookRenames(h) ==
  /\ hook[h].pc = "rename"
  /\ IF tmp # None
     THEN Renames /\ hook' = [hook EXCEPT ![h].pc = "reply"] /\ UNCHANGED <<child, fate>>
     ELSE Passes(h) /\ UNCHANGED <<file, tmp, replaced>>
  /\ UNCHANGED <<wrapper, watcher, request, session>>

\* Mutant: the prompt is blocked as soon as the decision is made.
HookBlocksEarly(h) ==
  /\ hook[h].pc \in {"write", "rename", "reply"}
  /\ hook' = [hook EXCEPT ![h] = NoHook]
  /\ child' = IF Waiting(h) THEN [child EXCEPT !.at = "idle"] ELSE child
  /\ fate' = IF hook[h].prompt \in Prompt /\ Waiting(h) THEN [fate EXCEPT ![hook[h].prompt] = "promised"] ELSE fate
  /\ UNCHANGED <<wrapper, watcher, request, file, tmp, session, replaced>>

\* The block: "It resumes in a moment with your prompt."
HookBlocks(h) ==
  /\ hook[h].pc = "reply"
  /\ hook' = [hook EXCEPT ![h] = NoHook]
  /\ child' = IF Waiting(h) THEN [child EXCEPT !.at = "idle"] ELSE child
  /\ fate' = IF hook[h].prompt \in Prompt /\ Waiting(h) THEN [fate EXCEPT ![hook[h].prompt] = "promised"] ELSE fate
  /\ UNCHANGED <<wrapper, watcher, request, file, tmp, session, replaced>>

\* Claude Code ends the hook: after its timeout, or when it ends itself.
HookKilled(h) ==
  /\ hook[h].pc \in {"start", "decide", "write", "rename", "reply"}
  /\ Passes(h)
  /\ UNCHANGED <<wrapper, watcher, request, file, tmp, session, replaced>>

----------------------------------------------------------------------------
(* The gateway *)

\* A request of a cheap turn is stuck and its next rung is the plan.
Stuck ==
  /\ child.live /\ child.mode = "cheap" /\ child.at = "turn"
  /\ request.pc = "none" /\ request.left > 0
  /\ \E known \in BOOLEAN :
       request' = [pc |-> "write", known |-> known, of |-> child.launch, left |-> request.left - 1]
  /\ UNCHANGED <<wrapper, child, watcher, hook, file, tmp, session, fate, replaced>>

RequestWrites ==
  /\ request.pc = "write"
  /\ WritesTmp([target |-> "plan", prompt |-> GoOn, known |-> request.known, of |-> request.of])
  /\ request' = [request EXCEPT !.pc = "rename"]
  /\ UNCHANGED <<wrapper, child, watcher, hook, file, session, fate>>

\* The answer, a notice or an error, ends the turn.
RequestRenames ==
  /\ request.pc = "rename"
  /\ IF tmp # None THEN Renames ELSE UNCHANGED <<file, tmp, replaced>>
  /\ request' = [request EXCEPT !.pc = "none"]
  /\ child' = IF child.launch = request.of /\ child.at = "turn" THEN [child EXCEPT !.at = "idle"] ELSE child
  /\ UNCHANGED <<wrapper, watcher, hook, session, fate>>

----------------------------------------------------------------------------
HookStep(h) == HookStarts(h) \/ HookDecides(h) \/ HookWrites(h) \/ HookRenames(h) \/ HookBlocks(h)
WrapperStep == Launch \/ ChildEnded \/ Read \/ Unlink \/ Clean
WatcherStep == WatcherSees \/ WatcherActs
RequestStep == RequestWrites \/ RequestRenames

Next ==
  \/ WrapperStep \/ WatcherStep \/ RequestStep
  \/ \E h \in Hook : HookStep(h) \/ HookKilled(h)
  \/ \E p \in Prompt : Submit(p)
  \/ TurnEnds \/ Quits \/ Stuck

\* Claude Code need not do anything but end when it is told to.
Spec ==
  /\ Init /\ [][Next]_vars
  /\ WF_vars(WrapperStep) /\ WF_vars(WatcherStep)
  /\ WF_vars(child.told /\ Quits)
----------------------------------------------------------------------------
(* Properties *)

\* Every variable has its type, and the wrapper has a switch where it uses one.
TypeOK ==
  /\ wrapper \in [pc : {"launch", "wait", "read", "unlink", "clean", "over"}, mode : Mode,
                  resume : Text \cup {None}, switch : Payload \cup {None}]
  /\ wrapper.pc = "unlink" => wrapper.switch # None
  /\ child \in [live : BOOLEAN, at : {"idle", "asking", "turn"}, mode : Mode,
                resumed : Text \cup {None}, launch : Nat, told : BOOLEAN]
  /\ watcher \in {"poll", "settle", "over"}
  /\ hook \in [Hook -> [pc : {"none", "start", "decide", "write", "rename", "reply"}, mode : Mode,
                        prompt : Text \cup {None}, resumed : Text \cup {None}, of : Nat, target : Mode]]
  /\ request \in [pc : {"none", "write", "rename"}, known : BOOLEAN, of : Nat, left : 0..MaxHandOvers]
  /\ file \in Payload \cup {None} /\ tmp \in Payload \cup {None}
  /\ session \in BOOLEAN
  /\ fate \in [Prompt -> {"new", "asked", "through", "promised", "given"}]
  /\ replaced \subseteq Text

\* Claude Code is stopped only for a switch: one that the watcher has told to
\* end finds its switch file, and the conversation is resumed unless no writer
\* of that file knew its session.
StoppedIsResumed ==
  child.told => /\ wrapper.pc = "wait" => file # None
                /\ wrapper.pc \in {"clean", "over"} => wrapper.switch # None /\ ~wrapper.switch.known

\* A prompt that a restarted Claude Code was given is not blocked again: the
\* conversation does not bounce between the modes for one prompt.
GivenOnce == [][\A p \in Prompt : fate[p] = "given" => fate'[p] = "given"]_vars

Holds(written, p) == written # None /\ written.prompt = p

\* The wrapper will still pass p on: a file it has not read yet, a switch it
\* has read, the prompt of its next launch.
InHand(p) ==
  \/ wrapper.pc \in {"wait", "read"} /\ Holds(file, p)
  \/ wrapper.pc = "unlink" /\ Holds(wrapper.switch, p)
  \/ wrapper.pc = "launch" /\ wrapper.resume = p

\* A prompt erased from the conversation is resumed, unless another switch was
\* written over it: no file that is removed, by the wrapper once it has read a
\* switch or at the end of the session, is the last to hold such a prompt.
OnlyReplacedLost == \A p \in Prompt : fate[p] = "promised" => InHand(p) \/ p \in replaced

\* A restart decided for the Claude Code that runs changes its mode, unless
\* there is no gateway for cheap mode.
RestartMoves ==
  [][wrapper.pc = "unlink" /\ wrapper'.pc = "launch" /\ wrapper.switch.of = child.launch
       => wrapper'.mode # child.mode \/ wrapper.switch.target = "cheap"]_vars

\* A switch that was asked for ends the Claude Code that runs.
SwitchServed == file # None /\ wrapper.pc = "wait" ~> wrapper.pc # "wait"
=============================================================================
