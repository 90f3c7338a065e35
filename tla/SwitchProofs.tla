---------------------------- MODULE SwitchProofs ----------------------------
(* The safety properties of switch mode, for every set of prompts and any   *)
(* number of hand-overs.  What a payload, a hook or a request says of a     *)
(* mode is true of the Claude Code it was made for; the launch it carries   *)
(* tells whether that one still runs.                                       *)
EXTENDS SwitchMode, TLAPS

\* Who runs when: a Claude Code only while the wrapper waits for it, and the
\* watcher settles only with a switch to read.
Running ==
  /\ child.live => wrapper.pc = "wait"
  /\ wrapper.pc = "read" => file # None
  /\ watcher = "settle" /\ child.live => file # None

\* A written payload: only the gateway leaves the session out, and one made
\* for the latest Claude Code, c, moves it to the other mode.
SoundPayload(w, c) ==
  w # None => /\ w.of <= c.launch
              /\ w.prompt \in Prompt => w.known
              /\ w.of = c.launch /\ w.target = "plan" => c.mode = "cheap"

Written == \A w \in {file, tmp, wrapper.switch} : SoundPayload(w, child)

\* A hook knows the mode of its Claude Code and decides to leave it; the hook
\* of a prompt that was resumed decides nothing.
SoundHook(h) ==
  hook[h].pc # "none" =>
    /\ hook[h].prompt \in Text /\ hook[h].of <= child.launch
    /\ hook[h].of = child.launch => hook[h].mode = child.mode
    /\ hook[h].pc \in {"write", "rename", "reply"} => hook[h].target # hook[h].mode
    /\ h \in Prompt => hook[h].prompt = h
    /\ h = Again => hook[h].pc = "start" /\ hook[h].prompt = hook[h].resumed

SoundRequest ==
  request.pc # "none" => /\ request.of <= child.launch
                         /\ request.of = child.launch => child.mode = "cheap"

Kept(p) == InHand(p) \/ p \in replaced

\* The hook of p serves the Claude Code that runs.
Heard(p) == child.live /\ hook[p].of = child.launch

\* As long as its Claude Code runs, a switch that a hook has renamed is in hand
\* or was written over, and one that it has written may also still be in the
\* temporary file.
Tracked(p) ==
  /\ fate[p] = "promised" => Kept(p)
  /\ hook[p].pc = "reply" /\ Heard(p) => Kept(p)
  /\ hook[p].pc = "rename" /\ Heard(p) => Kept(p) \/ Holds(tmp, p)
  /\ fate[p] = "given" /\ hook[p].pc # "none" => hook[p].of < child.launch

\* The inductive invariant.
IInv ==
  /\ TypeOK
  /\ Running /\ StoppedIsResumed
  /\ Written /\ SoundRequest
  /\ \A h \in Hook : SoundHook(h)
  /\ \A p \in Prompt : Tracked(p)

----------------------------------------------------------------------------
(* Types *)

LEMMA DroppedIsText ==
  ASSUME NEW w \in Payload \cup {None}
  PROVE  Dropped(w) \subseteq Text
BY DEF Dropped, Payload

\* Every step keeps the types.
LEMMA TypeStep ==
  ASSUME IInv, Next
  PROVE  TypeOK'
<1>0. TypeOK
  BY DEF IInv
<1> USE <1>0, SwitchAssumption DEF TypeOK, Mode, Text, Hook, Payload
<1>1. CASE Launch
  BY <1>1 DEF Launch, NewHook, Given
<1>2. CASE ChildEnded
  BY <1>2 DEF ChildEnded
<1>3. CASE Read
  <2>1. file \in Payload
    BY <1>3 DEF Read, IInv, Running
  <2>2. wrapper' \in [pc : {"launch", "wait", "read", "unlink", "clean", "over"}, mode : Mode,
                      resume : Text \cup {None}, switch : Payload \cup {None}]
    BY <1>3, <2>1 DEF Read
  <2>3. wrapper'.switch = file /\ file # None
    BY <1>3 DEF Read, IInv, Running
  <2> QED
    BY <1>3, <2>2, <2>3 DEF Read
<1>4. CASE Unlink
  BY <1>4 DEF Unlink
<1>5. CASE Clean
  <2>1. wrapper' \in [pc : {"launch", "wait", "read", "unlink", "clean", "over"}, mode : Mode,
                      resume : Text \cup {None}, switch : Payload \cup {None}]
    BY <1>5 DEF Clean
  <2>2. wrapper'.pc = "over"
    BY <1>5 DEF Clean
  <2> QED
    BY <1>5, <2>1, <2>2, ZenonT(30) DEF Clean
<1>6. CASE WatcherSees
  BY <1>6 DEF WatcherSees
<1>7. CASE WatcherActs
  BY <1>7 DEF WatcherActs
<1>8. CASE TurnEnds
  BY <1>8 DEF TurnEnds
<1>9. CASE Quits
  <2>1. child' \in [live : BOOLEAN, at : {"idle", "asking", "turn"}, mode : Mode,
                    resumed : Text \cup {None}, launch : Nat, told : BOOLEAN]
    BY <1>9 DEF Quits
  <2> QED
    BY <1>9, <2>1 DEF Quits
<1>10. CASE Stuck
  BY <1>10 DEF Stuck
<1>11. CASE RequestWrites
  BY <1>11 DEF RequestWrites, WritesTmp, Dropped
<1>12. CASE RequestRenames
  BY <1>12 DEF RequestRenames, Renames, Dropped
<1>13. ASSUME NEW h \in Hook, HookStarts(h) PROVE TypeOK'
  <2>1. CASE Passes(h) /\ UNCHANGED session
    BY <1>13, <2>1 DEF HookStarts, Passes, Waiting, NoHook
  <2>2. CASE /\ session' = TRUE /\ hook' = [hook EXCEPT ![h].pc = "decide"]
             /\ UNCHANGED <<child, fate>>
    BY <1>13, <2>2 DEF HookStarts
  <2> QED
    BY <1>13, <2>1, <2>2 DEF HookStarts
<1>14. ASSUME NEW h \in Hook, HookDecides(h) PROVE TypeOK'
  BY <1>14 DEF HookDecides, Passes, Waiting, NoHook
<1>15. ASSUME NEW h \in Hook, HookWrites(h) PROVE TypeOK'
  <2>1. hook[h].prompt \in Text /\ Dropped(tmp) \subseteq Text
    BY <1>15, DroppedIsText DEF IInv, SoundHook, HookWrites
  <2>2. hook' \in [Hook -> [pc : {"none", "start", "decide", "write", "rename", "reply"}, mode : Mode,
                           prompt : Text \cup {None}, resumed : Text \cup {None}, of : Nat,
                           target : Mode]]
    BY <1>15 DEF HookWrites
  <2>3. tmp' \in Payload
    BY <1>15, <2>1 DEF HookWrites, WritesTmp
  <2> QED
    BY <1>15, <2>1, <2>2, <2>3 DEF HookWrites, WritesTmp
<1>16. ASSUME NEW h \in Hook, HookRenames(h) PROVE TypeOK'
  BY <1>16 DEF HookRenames, Renames, Dropped, Passes, Waiting, NoHook
<1>17. ASSUME NEW h \in Hook, HookBlocks(h) PROVE TypeOK'
  BY <1>17 DEF HookBlocks, Waiting, NoHook
<1>18. ASSUME NEW h \in Hook, HookKilled(h) PROVE TypeOK'
  BY <1>18 DEF HookKilled, Passes, Waiting, NoHook
<1>19. ASSUME NEW p \in Prompt, Submit(p) PROVE TypeOK'
  BY <1>19 DEF Submit, NewHook
<1> QED
  BY <1>1, <1>2, <1>3, <1>4, <1>5, <1>6, <1>7, <1>8, <1>9, <1>10, <1>11, <1>12, <1>13, <1>14, <1>15, <1>16, <1>17, <1>18, <1>19
  DEF Next, WrapperStep, WatcherStep, RequestStep, HookStep

----------------------------------------------------------------------------
(* Who runs when *)

\* The wrapper, its watcher and Claude Code keep in step, and whoever is told
\* to end finds a switch to read.
LEMMA RunningStep ==
  ASSUME IInv, Next
  PROVE  (Running /\ StoppedIsResumed)'
<1>0. TypeOK /\ Running /\ StoppedIsResumed
  BY DEF IInv
<1> USE <1>0 DEF TypeOK, Running, StoppedIsResumed
<1>1. CASE Launch
  BY <1>1 DEF Launch
<1>2. CASE ChildEnded
  BY <1>2 DEF ChildEnded
<1>3. CASE Read
  BY <1>3 DEF Read
<1>4. CASE Unlink
  BY <1>4 DEF Unlink
<1>5. CASE Clean
  BY <1>5 DEF Clean
<1>6. CASE WatcherSees
  BY <1>6 DEF WatcherSees
<1>7. CASE WatcherActs
  BY <1>7 DEF WatcherActs
<1>8. CASE TurnEnds \/ Quits \/ Stuck
  BY <1>8 DEF TurnEnds, Quits, Stuck
<1>9. CASE RequestWrites \/ RequestRenames
  BY <1>9 DEF RequestWrites, RequestRenames, Renames
<1>10. ASSUME NEW h \in Hook, HookStep(h) \/ HookKilled(h) PROVE (Running /\ StoppedIsResumed)'
  <2>1. UNCHANGED <<wrapper, watcher>> /\ (UNCHANGED file \/ file' # None)
    BY <1>10 DEF HookStep, HookStarts, HookDecides, HookWrites, HookRenames, HookBlocks, HookKilled, Renames
  <2>2. child'.live = child.live /\ child'.told = child.told
    BY <1>10 DEF HookStep, HookStarts, HookDecides, HookWrites, HookRenames, HookBlocks, HookKilled, Passes
  <2> QED
    BY <2>1, <2>2
<1>11. ASSUME NEW p \in Prompt, Submit(p) PROVE (Running /\ StoppedIsResumed)'
  BY <1>11 DEF Submit
<1> QED
  BY <1>1, <1>2, <1>3, <1>4, <1>5, <1>6, <1>7, <1>8, <1>9, <1>10, <1>11
  DEF Next, WrapperStep, WatcherStep, RequestStep

----------------------------------------------------------------------------
(* What is known of the Claude Code that runs *)

\* The launches only go up, and the mode changes with them.
LEMMA LaunchStep ==
  ASSUME IInv, Next
  PROVE  /\ child.launch \in Nat /\ child'.launch \in Nat
         /\ \/ child'.launch = child.launch /\ child'.mode = child.mode /\ ~Launch
            \/ Launch /\ child'.launch = child.launch + 1 /\ child'.mode = wrapper.mode
<1>0. TypeOK
  BY DEF IInv
<1>1. child.launch \in Nat /\ child.launch # child.launch + 1
  BY <1>0 DEF TypeOK
<1>2. CASE Launch
  BY <1>1, <1>2 DEF Launch
<1>3. CASE ~Launch
  <2>1. UNCHANGED child \/ \E a \in {"idle", "asking", "turn"} : child' = [child EXCEPT !.at = a]
        \/ child' = [child EXCEPT !.told = @ \/ child.live] \/ child' = [child EXCEPT !.live = FALSE]
    BY <1>3 DEF Next, WrapperStep, WatcherStep, RequestStep, HookStep, ChildEnded, Read, Unlink, Clean,
      WatcherSees, WatcherActs, TurnEnds, Quits, Stuck, RequestWrites, RequestRenames, HookStarts,
      HookDecides, HookWrites, HookRenames, HookBlocks, HookKilled, Passes, Submit
  <2>2. child'.launch = child.launch /\ child'.mode = child.mode
    BY <1>0, <2>1 DEF TypeOK
  <2> QED
    BY <1>1, <1>3, <2>2
<1> QED
  BY <1>2, <1>3

\* Only a launch makes a Claude Code run.
LEMMA LiveStep ==
  ASSUME IInv, Next, ~Launch, child'.live
  PROVE  child.live
<1>1. child \in [live : BOOLEAN, at : {"idle", "asking", "turn"}, mode : Mode,
                 resumed : Text \cup {None}, launch : Nat, told : BOOLEAN]
  BY DEF IInv, TypeOK
<1>2. UNCHANGED child \/ \E a \in {"idle", "asking", "turn"} : child' = [child EXCEPT !.at = a]
      \/ child' = [child EXCEPT !.told = @ \/ child.live] \/ child' = [child EXCEPT !.live = FALSE]
  BY DEF Next, WrapperStep, WatcherStep, RequestStep, HookStep, ChildEnded, Read, Unlink, Clean,
    WatcherSees, WatcherActs, TurnEnds, Quits, Stuck, RequestWrites, RequestRenames, HookStarts,
    HookDecides, HookWrites, HookRenames, HookBlocks, HookKilled, Passes, Submit
<1> QED
  BY <1>1, <1>2

\* A sound payload stays sound, whoever runs next.
LEMMA PayloadStep ==
  ASSUME IInv, Next, NEW w \in Payload \cup {None}, SoundPayload(w, child)
  PROVE  SoundPayload(w, child')
BY LaunchStep DEF SoundPayload, Payload

\* The files and the wrapper's switch hold sound payloads only.
LEMMA WrittenStep ==
  ASSUME IInv, Next
  PROVE  Written'
<1>0. /\ TypeOK
      /\ SoundPayload(file, child) /\ SoundPayload(tmp, child) /\ SoundPayload(wrapper.switch, child)
  BY DEF IInv, Written
<1>1. SoundPayload(None, child')
  BY DEF SoundPayload
<1>2. \A w \in {file, tmp, wrapper.switch, None} : SoundPayload(w, child')
  BY <1>0, <1>1, PayloadStep DEF TypeOK
<1>3. SUFFICES \A w \in {file', tmp', wrapper'.switch} :
                 w \in {file, tmp, wrapper.switch, None} \/ SoundPayload(w, child')
  BY <1>2 DEF Written
<1>4. CASE WrapperStep
  <2>1. file' \in {file, None} /\ tmp' \in {tmp, None}
    BY <1>4 DEF WrapperStep, Launch, ChildEnded, Read, Unlink, Clean
  <2>2. CASE Unlink
    BY <1>0, <2>1, <2>2 DEF Unlink, TypeOK
  <2>3. CASE ~Unlink
    <3>1. wrapper'.switch \in {wrapper.switch, file}
      BY <1>0, <1>4, <2>3 DEF WrapperStep, Launch, ChildEnded, Read, Clean, TypeOK
    <3> QED
      BY <2>1, <3>1
  <2> QED
    BY <2>2, <2>3
<1>5. CASE WatcherStep \/ TurnEnds \/ Quits \/ Stuck
  BY <1>5 DEF WatcherStep, WatcherSees, WatcherActs, TurnEnds, Quits, Stuck
<1>6. CASE RequestWrites
  <2>1. SoundRequest
    BY DEF IInv
  <2>2. /\ tmp'.of = request.of /\ tmp'.prompt = GoOn /\ tmp'.target = "plan"
        /\ UNCHANGED <<file, wrapper, child>>
    BY <1>6 DEF RequestWrites, WritesTmp
  <2>3. SoundPayload(tmp', child')
    BY <1>6, <2>1, <2>2, SwitchAssumption DEF SoundPayload, SoundRequest, RequestWrites
  <2> QED
    BY <2>2, <2>3
<1>7. CASE RequestRenames
  BY <1>7 DEF RequestRenames, Renames
<1>8. ASSUME NEW h \in Hook, HookStep(h) \/ HookKilled(h)
      PROVE  \A w \in {file', tmp', wrapper'.switch} :
               w \in {file, tmp, wrapper.switch, None} \/ SoundPayload(w, child')
  <2>1. CASE HookWrites(h)
    <3>1. SoundHook(h) /\ hook[h].mode \in Mode /\ hook[h].target \in Mode
      BY <1>0 DEF IInv, TypeOK
    <3>2. /\ tmp'.of = hook[h].of /\ tmp'.known /\ tmp'.target = hook[h].target
          /\ UNCHANGED <<file, wrapper, child>>
      BY <2>1 DEF HookWrites, WritesTmp
    <3>3. SoundPayload(tmp', child')
      BY <2>1, <3>1, <3>2 DEF SoundPayload, SoundHook, HookWrites, Mode
    <3> QED
      BY <3>2, <3>3
  <2>2. CASE ~HookWrites(h)
    BY <1>8, <2>2 DEF HookStep, HookStarts, HookDecides, HookRenames, HookBlocks, HookKilled, Renames
  <2> QED
    BY <2>1, <2>2
<1>9. ASSUME NEW p \in Prompt, Submit(p)
      PROVE  UNCHANGED <<file, tmp, wrapper>>
  BY <1>9 DEF Submit
<1> QED
  BY <1>4, <1>5, <1>6, <1>7, <1>8, <1>9 DEF Next, RequestStep

\* A request of the gateway belongs to a cheap turn.
LEMMA RequestKept ==
  ASSUME IInv, Next
  PROVE  SoundRequest'
<1>0. TypeOK /\ SoundRequest
  BY DEF IInv
<1>1. CASE UNCHANGED request
  BY <1>0, <1>1, LaunchStep DEF SoundRequest, TypeOK
<1>2. CASE Stuck
  BY <1>0, <1>2 DEF Stuck, SoundRequest, TypeOK
<1>3. CASE RequestWrites
  BY <1>0, <1>3 DEF RequestWrites, SoundRequest, TypeOK
<1>4. CASE RequestRenames
  BY <1>0, <1>4 DEF RequestRenames, SoundRequest, TypeOK
<1> QED
  BY <1>1, <1>2, <1>3, <1>4
  DEF Next, WrapperStep, WatcherStep, RequestStep, HookStep, Launch, ChildEnded, Read, Unlink, Clean,
    WatcherSees, WatcherActs, TurnEnds, Quits, HookStarts, HookDecides, HookWrites, HookRenames,
    HookBlocks, HookKilled, Submit

----------------------------------------------------------------------------
(* What a hook knows *)

\* What becomes of a hook: it starts for the Claude Code that runs, it goes on
\* with its prompt, or it is over.
LEMMA HookChanges ==
  ASSUME IInv, Next, NEW g \in Hook
  PROVE  \/ hook'[g] = hook[g]
         \/ hook'[g] = NoHook
         \/ /\ g = Again /\ Launch /\ wrapper.resume # None
            /\ hook'[g] = NewHook(wrapper.resume, wrapper.mode, wrapper.resume, child.launch + 1)
         \/ /\ g \in Prompt /\ Submit(g)
            /\ hook'[g] = NewHook(g, child.mode, child.resumed, child.launch)
         \/ /\ hook[g].pc = "start" /\ hook[g].prompt # hook[g].resumed
            /\ hook'[g] = [hook[g] EXCEPT !.pc = "decide"]
         \/ /\ hook[g].pc = "decide"
            /\ \E t \in Mode \ {hook[g].mode} : hook'[g] = [hook[g] EXCEPT !.pc = "write", !.target = t]
         \/ hook[g].pc = "write" /\ HookWrites(g) /\ hook'[g] = [hook[g] EXCEPT !.pc = "rename"]
         \/ hook[g].pc = "rename" /\ HookRenames(g) /\ tmp # None /\ hook'[g] = [hook[g] EXCEPT !.pc = "reply"]
<1>0. hook \in [Hook -> [pc : {"none", "start", "decide", "write", "rename", "reply"}, mode : Mode,
                        prompt : Text \cup {None}, resumed : Text \cup {None}, of : Nat, target : Mode]]
  BY DEF IInv, TypeOK
<1>1. CASE Launch
  BY <1>0, <1>1 DEF Launch
<1>2. ASSUME NEW p \in Prompt, Submit(p)
      PROVE  hook'[g] = hook[g] \/ (g = p /\ hook'[g] = NewHook(g, child.mode, child.resumed, child.launch))
  BY <1>0, <1>2 DEF Submit, Hook
<1>3. ASSUME NEW h \in Hook, Passes(h)
      PROVE  hook'[g] = hook[g] \/ hook'[g] = NoHook
  BY <1>0, <1>3 DEF Passes
<1>4. CASE UNCHANGED hook
  BY <1>4
<1>5. ASSUME NEW h \in Hook, HookStarts(h), ~Passes(h)
      PROVE  \/ hook'[g] = hook[g]
             \/ /\ hook[g].pc = "start" /\ hook[g].prompt # hook[g].resumed
                /\ hook'[g] = [hook[g] EXCEPT !.pc = "decide"]
  <2>1. hook[h].pc = "start" /\ hook[h].prompt # hook[h].resumed
    BY <1>5 DEF HookStarts
  <2>2. hook' = [hook EXCEPT ![h].pc = "decide"]
    BY <1>5 DEF HookStarts
  <2>3. hook'[g] = IF g = h THEN [hook[g] EXCEPT !.pc = "decide"] ELSE hook[g]
    BY <1>0, <2>2
  <2> QED
    BY <2>1, <2>3
<1>6. ASSUME NEW h \in Hook, HookDecides(h), ~Passes(h)
      PROVE  \/ hook'[g] = hook[g]
             \/ /\ hook[g].pc = "decide"
                /\ \E t \in Mode \ {hook[g].mode} : hook'[g] = [hook[g] EXCEPT !.pc = "write", !.target = t]
  <2>1. PICK t \in Mode \ {hook[h].mode} : hook' = [hook EXCEPT ![h].pc = "write", ![h].target = t]
    BY <1>6 DEF HookDecides
  <2>2. hook'[g] = IF g = h THEN [hook[g] EXCEPT !.pc = "write", !.target = t] ELSE hook[g]
    BY <1>0, <2>1
  <2>3. hook[h].pc = "decide"
    BY <1>6 DEF HookDecides
  <2> QED
    BY <2>2, <2>3
<1>7. ASSUME NEW h \in Hook, HookWrites(h)
      PROVE  \/ hook'[g] = hook[g]
             \/ hook[g].pc = "write" /\ HookWrites(g) /\ hook'[g] = [hook[g] EXCEPT !.pc = "rename"]
  BY <1>0, <1>7 DEF HookWrites
<1>8. ASSUME NEW h \in Hook, HookRenames(h), ~Passes(h)
      PROVE  \/ hook'[g] = hook[g]
             \/ /\ hook[g].pc = "rename" /\ HookRenames(g) /\ tmp # None
                /\ hook'[g] = [hook[g] EXCEPT !.pc = "reply"]
  BY <1>0, <1>8 DEF HookRenames
<1>9. ASSUME NEW h \in Hook, HookBlocks(h)
      PROVE  hook'[g] = hook[g] \/ hook'[g] = NoHook
  BY <1>0, <1>9 DEF HookBlocks
<1>10. CASE \E h \in Hook : HookStep(h) \/ HookKilled(h)
  BY <1>3, <1>5, <1>6, <1>7, <1>8, <1>9, <1>10 DEF HookStep, HookKilled
<1> QED
  BY <1>1, <1>2, <1>4, <1>10
  DEF Next, WrapperStep, WatcherStep, RequestStep, ChildEnded, Read, Unlink, Clean, WatcherSees,
    WatcherActs, TurnEnds, Quits, Stuck, RequestWrites, RequestRenames

\* A hook's claims hold of the Claude Code that runs.
LEMMA HookKept ==
  ASSUME IInv, Next, NEW g \in Hook
  PROVE  SoundHook(g)'
<1>0. /\ SoundHook(g) /\ child.launch \in Nat /\ wrapper.resume \in Text \cup {None} /\ Again \notin Prompt
      /\ hook[g] \in [pc : {"none", "start", "decide", "write", "rename", "reply"}, mode : Mode,
                      prompt : Text \cup {None}, resumed : Text \cup {None}, of : Nat, target : Mode]
  BY SwitchAssumption DEF IInv, TypeOK
<1>1. CASE hook'[g] = hook[g]
  <2>1. CASE ~Launch
    BY <1>0, <1>1, <2>1, LaunchStep DEF SoundHook
  <2>2. CASE Launch
    <3>1. hook[g].pc # "none" => hook[g].of < child'.launch
      BY <1>0, <2>2 DEF SoundHook, Launch
    <3> QED
      BY <1>0, <1>1, <3>1, LaunchStep DEF SoundHook
  <2> QED
    BY <2>1, <2>2
<1>2. CASE hook'[g] = NoHook
  BY <1>2 DEF SoundHook, NoHook
<1>3. CASE /\ g = Again /\ Launch /\ wrapper.resume # None
           /\ hook'[g] = NewHook(wrapper.resume, wrapper.mode, wrapper.resume, child.launch + 1)
  BY <1>0, <1>3, LaunchStep DEF SoundHook, NewHook, Launch
<1>4. CASE /\ g \in Prompt /\ Submit(g)
           /\ hook'[g] = NewHook(g, child.mode, child.resumed, child.launch)
  <2>1. child'.launch = child.launch /\ child'.mode = child.mode
    BY <1>4 DEF Submit, IInv, TypeOK
  <2> QED
    BY <1>0, <1>4, <2>1 DEF SoundHook, NewHook, Text
<1>5. ASSUME NEW pc, NEW t, hook'[g] = [hook[g] EXCEPT !.pc = pc, !.target = t],
             hook[g].pc # "none", g # Again,
             pc \in {"write", "rename", "reply"} => t # hook[g].mode
      PROVE  SoundHook(g)'
  <2>1. /\ hook'[g].pc = pc /\ hook'[g].target = t /\ hook'[g].prompt = hook[g].prompt
        /\ hook'[g].mode = hook[g].mode /\ hook'[g].of = hook[g].of
    BY <1>0, <1>5
  <2>2. hook[g].of <= child'.launch /\ (hook[g].of = child'.launch => hook[g].mode = child'.mode)
    BY <1>0, <1>5, LaunchStep DEF SoundHook
  <2>3. SoundHook(g) /\ g # Again /\ hook[g].pc # "none"
    BY <1>0, <1>5
  <2>4. pc \in {"write", "rename", "reply"} => t # hook[g].mode
    BY <1>5
  <2> QED
    BY <2>1, <2>2, <2>3, <2>4 DEF SoundHook
<1>6. CASE /\ hook[g].pc = "start" /\ hook[g].prompt # hook[g].resumed
           /\ hook'[g] = [hook[g] EXCEPT !.pc = "decide"]
  <2>1. hook'[g] = [hook[g] EXCEPT !.pc = "decide", !.target = hook[g].target]
    BY <1>0, <1>6
  <2>2. g # Again
    BY <1>0, <1>6 DEF SoundHook
  <2> QED
    BY <1>5, <1>6, <2>1, <2>2
<1>7. CASE /\ hook[g].pc = "decide"
           /\ \E t \in Mode \ {hook[g].mode} : hook'[g] = [hook[g] EXCEPT !.pc = "write", !.target = t]
  BY <1>0, <1>5, <1>7, ZenonT(30) DEF SoundHook
<1>8. ASSUME NEW pc \in {"rename", "reply"}, hook[g].pc \in {"write", "rename"},
             hook'[g] = [hook[g] EXCEPT !.pc = pc]
      PROVE  SoundHook(g)'
  <2>1. hook'[g] = [hook[g] EXCEPT !.pc = pc, !.target = hook[g].target]
    BY <1>0, <1>8
  <2>2. g # Again /\ hook[g].target # hook[g].mode
    BY <1>0, <1>8 DEF SoundHook
  <2> QED
    BY <1>5, <1>8, <2>1, <2>2, ZenonT(30)
<1> QED
  BY <1>1, <1>2, <1>3, <1>4, <1>6, <1>7, <1>8, HookChanges

----------------------------------------------------------------------------
(* No promise is lost *)

\* What is in hand or was written over stays so, but for the prompt a Claude
\* Code is started with.
LEMMA KeptStep ==
  ASSUME IInv, Next, NEW p \in Prompt, Kept(p)
  PROVE  Kept(p)' \/ (Launch /\ wrapper.resume = p)
<1>0. /\ SoundPayload(wrapper.switch, child)
      /\ wrapper \in [pc : {"launch", "wait", "read", "unlink", "clean", "over"}, mode : Mode,
                      resume : Text \cup {None}, switch : Payload \cup {None}]
  BY DEF IInv, TypeOK, Written
<1>1. CASE p \in replaced
  <2>1. CASE \E h \in Hook : HookStep(h) \/ HookKilled(h)
    <3>1. replaced \subseteq replaced'
      BY <2>1 DEF HookStep, HookKilled, HookStarts, HookDecides, HookWrites, HookRenames, HookBlocks,
        WritesTmp, Renames
    <3> QED
      BY <1>1, <3>1 DEF Kept
  <2>2. CASE RequestStep
    <3>1. replaced \subseteq replaced'
      BY <2>2 DEF RequestStep, RequestWrites, RequestRenames, WritesTmp, Renames
    <3> QED
      BY <1>1, <3>1 DEF Kept
  <2>3. CASE UNCHANGED replaced
    BY <1>1, <2>3 DEF Kept
  <2> QED
    BY <2>1, <2>2, <2>3
    DEF Next, WrapperStep, WatcherStep, Launch, ChildEnded, Read, Unlink, Clean, WatcherSees, WatcherActs,
      TurnEnds, Quits, Stuck, Submit
<1>2. CASE wrapper.pc = "unlink" /\ Holds(wrapper.switch, p)
  <2>1. wrapper.switch.known
    BY <1>0, <1>2 DEF Holds, SoundPayload
  <2>2. CASE Unlink
    BY <1>2, <2>1, <2>2 DEF Unlink, Holds, Kept, InHand
  <2>3. CASE UNCHANGED wrapper
    BY <1>2, <2>3 DEF Kept, InHand
  <2> QED
    BY <1>2, <2>2, <2>3
    DEF Next, WrapperStep, WatcherStep, Launch, ChildEnded, Read, Clean, WatcherSees, WatcherActs,
      TurnEnds, Quits, Stuck, Submit, RequestStep, RequestWrites, RequestRenames, HookStep, HookKilled,
      HookStarts, HookDecides, HookWrites, HookRenames, HookBlocks
<1>3. CASE wrapper.pc \in {"wait", "read"} /\ Holds(file, p)
  <2>1. CASE ChildEnded
    <3>1. file # None /\ file' = file
      BY <1>3, <2>1 DEF ChildEnded, Holds
    <3>2. wrapper'.pc = "read"
      BY <1>0, <2>1, <3>1 DEF ChildEnded
    <3> QED
      BY <1>3, <3>1, <3>2 DEF Holds, Kept, InHand
  <2>2. CASE Read
    <3>1. wrapper'.pc = "unlink" /\ wrapper'.switch = file
      BY <1>0, <2>2 DEF Read
    <3> QED
      BY <1>3, <3>1 DEF Holds, Kept, InHand
  <2>3. CASE Renames
    BY <1>3, <2>3 DEF Renames, Holds, Dropped, Kept
  <2>4. CASE UNCHANGED <<file, wrapper>>
    BY <1>3, <2>4 DEF Holds, Kept, InHand
  <2>5. ~Launch /\ ~Unlink /\ ~Clean
    BY <1>3 DEF Launch, Unlink, Clean
  <2> QED
    BY <2>1, <2>2, <2>3, <2>4, <2>5
    DEF Next, WrapperStep, WatcherStep, WatcherSees, WatcherActs, TurnEnds, Quits, Stuck, Submit,
      RequestStep, RequestWrites, RequestRenames, HookStep, HookKilled, HookStarts, HookDecides,
      HookWrites, HookRenames, HookBlocks
<1>4. CASE wrapper.pc = "launch" /\ wrapper.resume = p
  <2>1. CASE UNCHANGED wrapper
    BY <1>4, <2>1 DEF Kept, InHand
  <2> QED
    BY <1>4, <2>1
    DEF Next, WrapperStep, WatcherStep, ChildEnded, Read, Unlink, Clean, WatcherSees, WatcherActs,
      TurnEnds, Quits, Stuck, Submit, RequestStep, RequestWrites, RequestRenames, HookStep, HookKilled,
      HookStarts, HookDecides, HookWrites, HookRenames, HookBlocks
<1> QED
  BY <1>1, <1>2, <1>3, <1>4 DEF Kept, InHand

\* A prompt is promised only by its own hook, to the Claude Code that runs.
LEMMA Promises ==
  ASSUME IInv, Next, NEW p \in Prompt, fate'[p] = "promised", fate[p] # "promised"
  PROVE  hook[p].pc = "reply" /\ Heard(p) /\ ~Launch
<1>0. fate \in [Prompt -> {"new", "asked", "through", "promised", "given"}]
  BY DEF IInv, TypeOK
<1>1. ASSUME NEW h \in Hook, HookBlocks(h)
      PROVE  hook[p].pc = "reply" /\ Heard(p)
  <2>1. SoundHook(h) /\ SoundHook(p)
    BY DEF IInv, Hook
  <2>2. hook[h].prompt = p /\ hook[h].pc = "reply" /\ hook[h].of = child.launch /\ child.live
    BY <1>0, <1>1 DEF HookBlocks, Waiting
  <2> QED
    BY <2>1, <2>2 DEF SoundHook, Hook, Heard
<1>2. ASSUME NEW h \in Hook, Passes(h)
      PROVE  FALSE
  BY <1>0, <1>2 DEF Passes
<1>3. ASSUME NEW q \in Prompt, Submit(q)
      PROVE  FALSE
  BY <1>0, <1>3 DEF Submit
<1>4. CASE Launch
  BY <1>0, <1>4 DEF Launch, Given
<1>5. fate' # fate
  OBVIOUS
<1> QED
  BY <1>1, <1>2, <1>3, <1>4, <1>5
  DEF Next, WrapperStep, WatcherStep, ChildEnded, Read, Unlink, Clean, WatcherSees, WatcherActs,
    TurnEnds, Quits, Stuck, RequestStep, RequestWrites, RequestRenames, HookStep, HookKilled,
    HookStarts, HookDecides, HookWrites, HookRenames

\* While Claude Code runs, what is in the temporary file is renamed, or written
\* over.
LEMMA TmpStep ==
  ASSUME IInv, Next, NEW p \in Prompt, Holds(tmp, p), child.live, child'.live
  PROVE  Holds(tmp, p)' \/ Kept(p)'
<1>0. wrapper.pc = "wait" /\ wrapper'.pc = "wait"
  BY RunningStep DEF IInv, Running
<1>1. CASE UNCHANGED tmp
  BY <1>1 DEF Holds
<1>2. ~Clean
  BY <1>0 DEF Clean
<1>3. CASE Renames
  BY <1>0, <1>3 DEF Renames, Holds, Kept, InHand
<1>4. ASSUME NEW payload, WritesTmp(payload)
      PROVE  Kept(p)'
  BY <1>4 DEF WritesTmp, Holds, Dropped, Kept
<1> QED
  BY <1>1, <1>2, <1>3, <1>4
  DEF Next, WrapperStep, WatcherStep, Launch, ChildEnded, Read, Unlink, WatcherSees, WatcherActs,
    TurnEnds, Quits, Stuck, Submit, RequestStep, RequestWrites, RequestRenames, HookStep, HookKilled,
    HookStarts, HookDecides, HookWrites, HookRenames, HookBlocks

\* A prompt is given to a Claude Code by its launch only, and is then not
\* noted to have another fate.
LEMMA GivenStep ==
  ASSUME IInv, Next, NEW p \in Prompt
  PROVE  /\ fate'[p] = "given" /\ fate[p] # "given" => Launch
         /\ fate[p] = "given" => fate'[p] = "given"
<1>0. /\ fate \in [Prompt -> {"new", "asked", "through", "promised", "given"}]
      /\ Tracked(p) /\ SoundHook(p) /\ child.launch \in Nat
  BY DEF IInv, TypeOK, Hook
<1> DEFINE Fine == /\ fate'[p] = "given" /\ fate[p] # "given" => Launch
                   /\ fate[p] = "given" => fate'[p] = "given"
<1>1. ASSUME NEW h \in Hook, Passes(h), hook[h].pc # "none"
      PROVE  Fine
  BY <1>0, <1>1 DEF Passes, Waiting, Tracked
<1>2. ASSUME NEW h \in Hook, HookBlocks(h)
      PROVE  Fine
  <2>1. SoundHook(h)
    BY DEF IInv
  <2>2. hook[h].prompt \in Prompt => hook[h].prompt = h
    BY <1>2, <2>1 DEF SoundHook, HookBlocks, Hook
  <2> QED
    BY <1>0, <1>2, <2>2 DEF HookBlocks, Waiting, Tracked
<1>3. ASSUME NEW q \in Prompt, Submit(q)
      PROVE  Fine
  BY <1>0, <1>3 DEF Submit
<1>4. CASE Launch
  BY <1>0, <1>4 DEF Launch, Given
<1>5. CASE UNCHANGED fate
  BY <1>5
<1> QED
  BY <1>1, <1>2, <1>3, <1>4, <1>5
  DEF Next, WrapperStep, WatcherStep, ChildEnded, Read, Unlink, Clean, WatcherSees, WatcherActs,
    TurnEnds, Quits, Stuck, RequestStep, RequestWrites, RequestRenames, HookStep, HookKilled,
    HookStarts, HookDecides, HookWrites, HookRenames

\* A switch is tracked from its hook to the wrapper.
LEMMA TrackedStep ==
  ASSUME IInv, Next, NEW p \in Prompt
  PROVE  Tracked(p)'
<1>0. /\ Tracked(p) /\ SoundHook(p) /\ p # Again /\ p \in Hook
      /\ fate \in [Prompt -> {"new", "asked", "through", "promised", "given"}]
      /\ hook[p] \in [pc : {"none", "start", "decide", "write", "rename", "reply"}, mode : Mode,
                      prompt : Text \cup {None}, resumed : Text \cup {None}, of : Nat, target : Mode]
  BY SwitchAssumption DEF IInv, TypeOK, Hook
<1>1. ASSUME fate'[p] = "promised"
      PROVE  Kept(p)'
  <2>1. CASE fate[p] = "promised"
    <3>1. ~(Launch /\ wrapper.resume = p)
      BY <1>0, <1>1 DEF Launch, Given
    <3> QED
      BY <1>0, <2>1, <3>1, KeptStep DEF Tracked
  <2>2. CASE fate[p] # "promised"
    BY <1>0, <1>1, <2>2, Promises, KeptStep DEF Tracked
  <2> QED
    BY <2>1, <2>2
<1>2. ASSUME hook'[p].of = hook[p].of, hook[p].pc # "none", Heard(p)'
      PROVE  Heard(p) /\ ~Launch
  <2>1. hook[p].of = child.launch /\ ~Launch
    BY <1>0, <1>2, LaunchStep DEF SoundHook, Heard
  <2>2. child.live
    BY <1>2, <2>1, LiveStep DEF Heard
  <2> QED
    BY <2>1, <2>2 DEF Heard
<1>3. /\ hook'[p].pc = "reply" =>
           \/ hook'[p] = hook[p]
           \/ /\ hook[p].pc = "rename" /\ HookRenames(p) /\ tmp # None
              /\ hook'[p] = [hook[p] EXCEPT !.pc = "reply"]
      /\ hook'[p].pc = "rename" => hook'[p] = hook[p] \/ HookWrites(p)
      /\ hook'[p].pc # "none" => (hook[p].pc # "none" /\ hook'[p].of = hook[p].of) \/ Submit(p)
  <2>1. \A pc : /\ [hook[p] EXCEPT !.pc = pc].pc = pc
                /\ [hook[p] EXCEPT !.pc = pc].of = hook[p].of
    BY <1>0
  <2>2. \A t : /\ [hook[p] EXCEPT !.pc = "write", !.target = t].pc = "write"
               /\ [hook[p] EXCEPT !.pc = "write", !.target = t].of = hook[p].of
    BY <1>0
  <2>3. NoHook.pc = "none" /\ \A q, m, r, n : NewHook(q, m, r, n).pc = "start"
    BY DEF NoHook, NewHook
  <2>4. CASE hook'[p] = hook[p]
    BY <2>4
  <2>5. CASE hook'[p] = NoHook
    BY <2>3, <2>5
  <2>6. CASE Submit(p) /\ hook'[p] = NewHook(p, child.mode, child.resumed, child.launch)
    BY <2>3, <2>6
  <2>7. CASE hook[p].pc = "start" /\ hook'[p] = [hook[p] EXCEPT !.pc = "decide"]
    BY <2>1, <2>7
  <2>8. CASE /\ hook[p].pc = "decide"
             /\ \E t \in Mode \ {hook[p].mode} : hook'[p] = [hook[p] EXCEPT !.pc = "write", !.target = t]
    BY <2>2, <2>8
  <2>9. CASE hook[p].pc = "write" /\ HookWrites(p) /\ hook'[p] = [hook[p] EXCEPT !.pc = "rename"]
    BY <2>1, <2>9
  <2>10. CASE /\ hook[p].pc = "rename" /\ HookRenames(p) /\ tmp # None
              /\ hook'[p] = [hook[p] EXCEPT !.pc = "reply"]
    BY <2>1, <2>10
  <2> QED
    BY <1>0, <2>4, <2>5, <2>6, <2>7, <2>8, <2>9, <2>10, HookChanges
<1>4. ASSUME hook'[p].pc = "reply", Heard(p)'
      PROVE  Kept(p)'
  <2>1. CASE hook'[p] = hook[p]
    BY <1>0, <1>2, <1>4, <2>1, KeptStep DEF Tracked
  <2>2. CASE hook[p].pc = "rename" /\ HookRenames(p) /\ tmp # None /\ hook'[p] = [hook[p] EXCEPT !.pc = "reply"]
    <3>1. Renames
      BY <2>2 DEF HookRenames
    <3>2. Heard(p) /\ ~Launch
      <4>1. hook'[p].of = hook[p].of
        BY <1>0, <2>2
      <4> QED
        BY <1>2, <1>4, <2>2, <4>1
    <3>3. CASE Holds(tmp, p)
      <4>1. wrapper'.pc = "wait"
        BY <1>4, RunningStep DEF Heard, Running
      <4> QED
        BY <3>1, <3>3, <4>1 DEF Renames, Holds, Kept, InHand
    <3>4. CASE Kept(p)
      BY <3>2, <3>4, KeptStep
    <3> QED
      BY <1>0, <2>2, <3>2, <3>3, <3>4 DEF Tracked
  <2> QED
    BY <1>4, <1>3, <2>1, <2>2
<1>5. ASSUME hook'[p].pc = "rename", Heard(p)'
      PROVE  Kept(p)' \/ Holds(tmp, p)'
  <2>1. CASE hook'[p] = hook[p]
    <3>1. Heard(p) /\ ~Launch
      BY <1>2, <1>5, <2>1
    <3>2. Kept(p) \/ Holds(tmp, p)
      BY <1>0, <1>5, <2>1, <3>1 DEF Tracked
    <3> QED
      BY <1>5, <3>1, <3>2, KeptStep, TmpStep DEF Heard
  <2>2. CASE HookWrites(p)
    <3>1. tmp' \in Payload
      <4>1. /\ tmp' = [target |-> hook[p].target, prompt |-> hook[p].prompt, known |-> TRUE, of |-> hook[p].of]
            /\ hook[p].pc = "write"
        BY <2>2 DEF HookWrites, WritesTmp
      <4>2. hook[p].target \in Mode /\ hook[p].of \in Nat /\ hook[p].prompt \in Text
        BY <1>0, <4>1 DEF SoundHook
      <4> QED
        BY <4>1, <4>2 DEF Payload
    <3>2. tmp'.prompt = p
      BY <1>0, <2>2 DEF HookWrites, WritesTmp, SoundHook
    <3> QED
      BY <3>1, <3>2, NoneAssumption DEF Holds
  <2> QED
    BY <1>5, <1>3, <2>1, <2>2
<1>6. ASSUME fate'[p] = "given", hook'[p].pc # "none"
      PROVE  hook'[p].of < child'.launch
  <2>1. CASE fate[p] = "given"
    <3>1. hook'[p].of = hook[p].of /\ hook[p].pc # "none"
      BY <1>6, <1>3, <2>1 DEF Submit
    <3> QED
      BY <1>0, <2>1, <3>1, LaunchStep DEF Tracked
  <2>2. CASE fate[p] # "given"
    <3>1. Launch
      BY <1>6, <2>2, GivenStep
    <3>2. hook'[p] = hook[p]
      BY <1>0, <3>1 DEF Launch
    <3> QED
      BY <1>0, <1>6, <3>1, <3>2, LaunchStep DEF SoundHook
  <2> QED
    BY <2>1, <2>2
<1> QED
  BY <1>1, <1>4, <1>5, <1>6 DEF Tracked, Heard

----------------------------------------------------------------------------
(* The theorems *)

LEMMA InitHolds ==
  ASSUME Init
  PROVE  IInv
<1> USE SwitchAssumption DEF Init, NoChild, NoHook, NoRequest
<1>1. TypeOK
  <2>1. wrapper \in [pc : {"launch", "wait", "read", "unlink", "clean", "over"}, mode : Mode,
                     resume : Text \cup {None}, switch : Payload \cup {None}]
        /\ wrapper.pc = "launch"
    OBVIOUS
  <2>2. child \in [live : BOOLEAN, at : {"idle", "asking", "turn"}, mode : Mode,
                   resumed : Text \cup {None}, launch : Nat, told : BOOLEAN]
    BY DEF Mode
  <2>3. hook \in [Hook -> [pc : {"none", "start", "decide", "write", "rename", "reply"}, mode : Mode,
                           prompt : Text \cup {None}, resumed : Text \cup {None}, of : Nat, target : Mode]]
    BY DEF Mode
  <2>4. request \in [pc : {"none", "write", "rename"}, known : BOOLEAN, of : Nat, left : 0..MaxHandOvers]
    OBVIOUS
  <2>5. file \in Payload \cup {None} /\ tmp \in Payload \cup {None}
    OBVIOUS
  <2>6. watcher \in {"poll", "settle", "over"} /\ session \in BOOLEAN /\ replaced \subseteq Text
        /\ fate \in [Prompt -> {"new", "asked", "through", "promised", "given"}]
    OBVIOUS
  <2> QED
    BY <2>1, <2>2, <2>3, <2>4, <2>5, <2>6 DEF TypeOK
<1>2. Running /\ StoppedIsResumed /\ SoundRequest
  BY DEF Running, StoppedIsResumed, SoundRequest
<1>3. Written
  BY DEF Written, SoundPayload
<1>4. (\A h \in Hook : SoundHook(h)) /\ \A p \in Prompt : Tracked(p)
  BY DEF SoundHook, Tracked, Heard, Hook
<1> QED
  BY <1>1, <1>2, <1>3, <1>4 DEF IInv

LEMMA StepHolds ==
  ASSUME IInv, [Next]_vars
  PROVE  IInv'
<1>1. CASE Next
  <2>1. TypeOK' /\ (Running /\ StoppedIsResumed)' /\ Written' /\ SoundRequest'
    BY <1>1, TypeStep, RunningStep, WrittenStep, RequestKept
  <2>2. (\A h \in Hook : SoundHook(h))'
    BY <1>1, HookKept
  <2>3. (\A p \in Prompt : Tracked(p))'
    BY <1>1, TrackedStep
  <2> QED
    BY <2>1, <2>2, <2>3 DEF IInv
<1>2. CASE UNCHANGED vars
  BY <1>2 DEF vars, IInv, TypeOK, Running, StoppedIsResumed, Written, SoundPayload, SoundRequest,
    SoundHook, Tracked, Heard, Kept, InHand, Holds
<1> QED
  BY <1>1, <1>2

\* The inductive invariant holds in every reachable state.
THEOREM Invariance == Spec => []IInv
BY InitHolds, StepHolds, PTL DEF Spec

\* Every variable of switch mode keeps its type, and the wrapper uses a switch
\* only where it has read one.
THEOREM TypeCorrect == Spec => []TypeOK
<1>1. IInv => TypeOK
  BY DEF IInv
<1> QED
  BY <1>1, Invariance, PTL

\* A Claude Code that the watcher has told to end is resumed by the wrapper,
\* unless no writer of its switch knew the session.
THEOREM StoppedResumed == Spec => []StoppedIsResumed
<1>1. IInv => StoppedIsResumed
  BY DEF IInv
<1> QED
  BY <1>1, Invariance, PTL

\* A prompt that a hook has promised to pass on is in the wrapper's hand, or
\* another switch was written over it; removing the files loses none.
THEOREM OnlyReplaced == Spec => []OnlyReplacedLost
<1>1. IInv => OnlyReplacedLost
  BY DEF IInv, Tracked, Kept, OnlyReplacedLost
<1> QED
  BY <1>1, Invariance, PTL

\* A prompt given to a restarted Claude Code is never blocked again.
THEOREM GivenStays == Spec => GivenOnce
<1>1. IInv /\ [Next]_vars => [\A p \in Prompt : fate[p] = "given" => fate'[p] = "given"]_vars
  BY GivenStep DEF vars
<1> QED
  BY <1>1, Invariance, PTL DEF Spec, GivenOnce

\* A restart for the Claude Code that runs changes its mode, but for a cheap
\* mode without a gateway.
THEOREM RestartChanges == Spec => RestartMoves
<1>1. ASSUME IInv, Next, wrapper.pc = "unlink", wrapper'.pc = "launch",
             wrapper.switch.of = child.launch
      PROVE  wrapper'.mode # child.mode \/ wrapper.switch.target = "cheap"
  <2>1. /\ wrapper.switch \in Payload /\ SoundPayload(wrapper.switch, child)
        /\ wrapper \in [pc : {"launch", "wait", "read", "unlink", "clean", "over"}, mode : Mode,
                       resume : Text \cup {None}, switch : Payload \cup {None}]
    BY <1>1 DEF IInv, TypeOK, Written
  <2>2. Unlink
    BY <1>1, <2>1 DEF Next, WrapperStep, WatcherStep, RequestStep, HookStep, Launch, ChildEnded, Read, Clean,
      WatcherSees, WatcherActs, TurnEnds, Quits, Stuck, RequestWrites, RequestRenames, HookStarts,
      HookDecides, HookWrites, HookRenames, HookBlocks, HookKilled, Submit
  <2>3. wrapper.switch.target \in {"cheap", "plan"} /\ wrapper.switch # None
    BY <2>1, NoneAssumption DEF Payload, Mode
  <2>4. CASE wrapper.switch.target = "plan"
    <3>1. child.mode = "cheap"
      BY <1>1, <2>1, <2>3, <2>4 DEF SoundPayload
    <3>2. wrapper'.mode = "plan"
      BY <1>1, <2>1, <2>2, <2>4 DEF Unlink
    <3> QED
      BY <3>1, <3>2
  <2> QED
    BY <2>3, <2>4
<1>2. IInv /\ [Next]_vars =>
        [wrapper.pc = "unlink" /\ wrapper'.pc = "launch" /\ wrapper.switch.of = child.launch
           => wrapper'.mode # child.mode \/ wrapper.switch.target = "cheap"]_vars
  BY <1>1
<1> QED
  BY <1>2, Invariance, PTL DEF Spec, RestartMoves
====
