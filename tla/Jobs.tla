-------------------------------- MODULE Jobs --------------------------------
(***************************************************************************)
(* procs.run on the main thread of route-run: one job is started in a      *)
(* process group of its own, waited for, and ended with everything in the  *)
(* group on a timeout, on a stop signal, or when its first process has     *)
(* left others behind.  Stop signals run Python handlers between any two   *)
(* steps of the main thread; while a job is started or stopped a           *)
(* _HeldSignals object stands in for the handlers and keeps the signals    *)
(* for later.                                                              *)
(*                                                                         *)
(* A handler runs on top of the main thread, a second one on top of the    *)
(* first.  An exception raised by the innermost ends them all, so that one *)
(* variable is enough for the stack.                                       *)
(***************************************************************************)
EXTENDS Naturals, Sequences

CONSTANTS
  Proc,        \* processes the job may consist of
  Child,       \* the one run starts
  MaxSignals,  \* bound: stop signals that arrive
  Window       \* may one arrive while handlers are being exchanged?

ASSUME JobsAssumption == Child \in Proc /\ MaxSignals \in Nat /\ Window \in BOOLEAN

VARIABLES
  proc,        \* [Proc -> the state of a process of the job's group]
  main,        \* the main thread, in procs.run
  handler,     \* the handler that runs on top of it
  put,         \* the signals a _HeldSignals object is the handler of
  holding,     \* _HeldSignals.holding
  pending,     \* _HeldSignals.pending
  registered,  \* is the job in _LIVE?
  interrupted, \* _INTERRUPTED
  count        \* signals that arrived, that handlers have seen, that made one raise

vars == <<proc, main, handler, put, holding, pending, registered, interrupted, count>>

\* SIGHUP is treated like SIGTERM throughout.
Sig == {"INT", "TERM"}

\* `hold` is a _HeldSignals in use, to start the job or to stop it; `inTry`
\* says that the stopping is inside run's try; `raised` that an exception is
\* on its way, `caught` that release has collected one.
NewMain == [pc |-> "hold", hold |-> "start", inTry |-> FALSE, raised |-> FALSE, caught |-> FALSE]

Live == {p \in Proc : proc[p] = "live"}

Init ==
  /\ proc = [p \in Proc |-> "none"]
  /\ main = NewMain
  /\ handler = "none"
  /\ put = {} /\ holding = TRUE /\ pending = <<>>
  /\ registered = FALSE /\ interrupted = FALSE
  /\ count = [arrived |-> 0, seen |-> 0, raised |-> 0]

----------------------------------------------------------------------------
(* What an exception does, by where the main thread is *)

\* Mutant: the stopping is begun with the handlers in place.
StopUnheld(m, inTry) ==
  [m EXCEPT !.pc = "grace", !.hold = "stop", !.inTry = inTry,
            !.raised = m.raised \/ ~inTry, !.caught = FALSE]

\* _stop: a new _HeldSignals, then terminate.
BeginStop(m, inTry) ==
  [m EXCEPT !.pc = "hold", !.hold = "stop", !.inTry = inTry,
            !.raised = m.raised \/ ~inTry, !.caught = FALSE]

\* Out of release: to run's except clause where that is in force, else out.
Propagate(m) ==
  CASE m.hold = "start" /\ registered -> BeginStop(m, FALSE)
    [] m.hold = "start" /\ ~registered -> [m EXCEPT !.pc = "over", !.raised = TRUE]
    [] m.hold = "stop" /\ m.inTry -> BeginStop(m, FALSE)
    [] m.hold = "stop" /\ ~m.inTry -> [m EXCEPT !.pc = "pop"]

Thrown(m) ==
  CASE m.pc \in {"hold", "fork", "grace"} -> [m EXCEPT !.pc = "release", !.raised = TRUE]
    [] m.pc \in {"communicate", "check"} -> BeginStop(m, FALSE)
    [] m.pc \in {"release", "restore", "deliver"} -> Propagate(m)
    [] m.pc = "pop" -> [m EXCEPT !.pc = "over", !.raised = TRUE]

----------------------------------------------------------------------------
(* Signals *)

Killed == [p \in Proc |-> IF p \in Live THEN "gone" ELSE proc[p]]

\* The main thread goes on at m; each hold is a _HeldSignals of its own.
Goto(m) ==
  /\ main' = m
  /\ holding' = (holding \/ m.pc = "hold")

Noted(m) == IF m.pc = "hold" /\ main.pc # "hold" THEN <<>> ELSE pending

\* Where the main thread is once the innermost handler raises: release
\* collects what it delivers.
Raising(delivering) == IF delivering THEN [main EXCEPT !.caught = TRUE] ELSE Thrown(main)

\* Mutant: a stop signal after Ctrl-C ends the job with the short grace.
ReactionAlways(sig) ==
  IF interrupted /\ sig = "INT" THEN "ignored"
  ELSE IF sig = "INT" \/ ~registered THEN "raises" ELSE "ends"

\* _interrupt_once and _exit_on_signal: after a Ctrl-C nothing happens; a
\* Ctrl-C raises; a TERM raises when terminate_all has ended what is registered.
Reaction(sig) ==
  IF interrupted THEN "ignored"
  ELSE IF sig = "INT" \/ ~registered THEN "raises" ELSE "ends"

\* `new` is 1 for a signal that has just arrived, 0 for one that waited.
Handle(sig, delivering, new) ==
  LET r == Reaction(sig)
  IN  /\ interrupted' = (interrupted \/ sig = "INT")
      /\ handler' = CASE r = "ignored" -> handler [] r = "raises" -> "none" [] r = "ends" -> "grace"
      /\ Goto(IF r = "raises" THEN Raising(delivering) ELSE main)
      /\ count' = [count EXCEPT !.arrived = @ + new, !.seen = @ + 1,
                                !.raised = IF r = "ignored" THEN @ ELSE @ + 1]

\* Handlers are being exchanged, or release is between two it delivers.
Exchanging == handler = "none" /\ main.pc \in {"hold", "release", "restore", "deliver"}

MayArrive ==
  main.pc # "over" /\ count.arrived < MaxSignals /\ (Exchanging => Window)

SignalHeld ==
  /\ MayArrive /\ holding
  /\ \E sig \in put : pending' = Append(pending, sig)
  /\ count' = [count EXCEPT !.arrived = @ + 1]
  /\ UNCHANGED <<proc, main, handler, put, holding, registered, interrupted>>

SignalHandled ==
  /\ MayArrive
  /\ \E sig \in Sig : /\ ~(holding /\ sig \in put)
                     /\ Handle(sig, main.pc = "deliver" /\ handler # "none", 1)
  /\ pending' = Noted(main')
  /\ UNCHANGED <<proc, put, registered>>

\* terminate_all: TERM, half a second, then KILL for what is left of the group.
HandlerEnds ==
  /\ handler = "grace"
  /\ proc' = Killed
  /\ handler' = "none"
  /\ Goto(Raising(main.pc = "deliver")) /\ pending' = Noted(main')
  /\ UNCHANGED <<put, registered, interrupted, count>>

----------------------------------------------------------------------------
(* _HeldSignals *)

At(pc) == main.pc = pc /\ handler = "none"

\* hold replaces one handler after the other.
HoldNext ==
  /\ At("hold") /\ put # Sig
  /\ put' = put \cup {IF "INT" \in put THEN "TERM" ELSE "INT"}
  /\ UNCHANGED <<proc, main, handler, holding, pending, registered, interrupted, count>>

HoldDone ==
  /\ At("hold") /\ put = Sig
  /\ main' = [main EXCEPT !.pc = IF main.hold = "start" THEN "fork" ELSE "grace"]
  /\ UNCHANGED <<proc, handler, put, holding, pending, registered, interrupted, count>>

\* release: nothing is noted any more, the handlers are put back one by one ...
Release ==
  /\ At("release")
  /\ holding' = FALSE
  /\ main' = [main EXCEPT !.pc = "restore"]
  /\ UNCHANGED <<proc, handler, put, pending, registered, interrupted, count>>

RestoreNext ==
  /\ At("restore") /\ put # {}
  /\ put' = put \ {IF "INT" \in put THEN "INT" ELSE "TERM"}
  /\ UNCHANGED <<proc, main, handler, holding, pending, registered, interrupted, count>>

Restored ==
  /\ At("restore") /\ put = {}
  /\ main' = [main EXCEPT !.pc = "deliver"]
  /\ UNCHANGED <<proc, handler, put, holding, pending, registered, interrupted, count>>

\* Mutant: the first handler that raises ends the delivery.
DeliverUntilRaised ==
  /\ At("deliver") /\ pending # <<>>
  /\ IF main.caught
     THEN pending' = <<>> /\ UNCHANGED <<main, handler, holding, interrupted, count>>
     ELSE Handle(Head(pending), TRUE, 0) /\ pending' = Tail(pending)
  /\ UNCHANGED <<proc, put, registered>>

\* ... then what came meanwhile is delivered in order, whatever it raises ...
Deliver ==
  /\ At("deliver") /\ pending # <<>>
  /\ Handle(Head(pending), TRUE, 0) /\ pending' = Tail(pending)
  /\ UNCHANGED <<proc, put, registered>>

\* ... and the first stop raised goes on, if any; else run does.
Delivered ==
  /\ At("deliver") /\ pending = <<>>
  /\ Goto(IF main.caught THEN Propagate(main)
          ELSE [main EXCEPT !.pc = IF main.hold = "stop" THEN "pop"
                                   ELSE IF main.raised THEN "over" ELSE "communicate"])
  /\ UNCHANGED <<proc, handler, put, pending, registered, interrupted, count>>

----------------------------------------------------------------------------
(* run *)

\* Popen, then the registration in _LIVE.
Fork ==
  /\ At("fork")
  /\ proc' = [proc EXCEPT ![Child] = "live"]
  /\ main' = [main EXCEPT !.pc = "register"]
  /\ UNCHANGED <<handler, put, holding, pending, registered, interrupted, count>>

ForkFails ==
  /\ At("fork")
  /\ main' = Thrown(main)
  /\ UNCHANGED <<proc, handler, put, holding, pending, registered, interrupted, count>>

Register ==
  /\ At("register")
  /\ registered' = TRUE
  /\ main' = [main EXCEPT !.pc = "release"]
  /\ UNCHANGED <<proc, handler, put, holding, pending, interrupted, count>>

\* communicate: the first process has ended, or the timeout has come.
ChildEnded ==
  /\ At("communicate") /\ Child \notin Live
  /\ main' = [main EXCEPT !.pc = "check"]
  /\ UNCHANGED <<proc, handler, put, holding, pending, registered, interrupted, count>>

TimedOut ==
  /\ At("communicate")
  /\ Goto(BeginStop(main, FALSE)) /\ pending' = <<>>
  /\ UNCHANGED <<proc, handler, put, registered, interrupted, count>>

\* Is anything left in the group?
Check ==
  /\ At("check")
  /\ Goto(IF Live # {} THEN BeginStop(main, TRUE) ELSE [main EXCEPT !.pc = "pop"])
  /\ UNCHANGED <<proc, handler, put, pending, registered, interrupted, count>>

\* Mutant: the job is told to end, and waited for.
TerminateWaits ==
  /\ At("grace") /\ Live = {}
  /\ main' = [main EXCEPT !.pc = "release"]
  /\ UNCHANGED <<proc, handler, put, holding, pending, registered, interrupted, count>>

\* terminate: TERM, the grace period (JobEnds), then KILL for what is left.
Terminate ==
  /\ At("grace")
  /\ proc' = Killed
  /\ main' = [main EXCEPT !.pc = "release"]
  /\ UNCHANGED <<handler, put, holding, pending, registered, interrupted, count>>

Pop ==
  /\ At("pop")
  /\ registered' = FALSE
  /\ main' = [main EXCEPT !.pc = "over"]
  /\ UNCHANGED <<proc, handler, put, holding, pending, interrupted, count>>

\* The job's processes start others and end.
JobForks ==
  /\ Live # {}
  /\ \E p \in Proc : proc[p] = "none" /\ proc' = [proc EXCEPT ![p] = "live"]
  /\ UNCHANGED <<main, handler, put, holding, pending, registered, interrupted, count>>

JobEnds ==
  /\ \E p \in Live : proc' = [proc EXCEPT ![p] = "gone"]
  /\ UNCHANGED <<main, handler, put, holding, pending, registered, interrupted, count>>

Run ==
  \/ HoldNext \/ HoldDone \/ Release \/ RestoreNext \/ Restored \/ Deliver \/ Delivered
  \/ Fork \/ ForkFails \/ Register \/ ChildEnded \/ Check \/ Terminate \/ Pop
  \/ HandlerEnds

Next == Run \/ TimedOut \/ SignalHeld \/ SignalHandled \/ JobForks \/ JobEnds

\* The main thread goes on, in its handlers too; the job may run for ever.
Spec == Init /\ [][Next]_vars /\ WF_vars(Run)
----------------------------------------------------------------------------
(* Properties *)

\* Every variable has its type; signals are noted only where they are held.
TypeOK ==
  /\ proc \in [Proc -> {"none", "live", "gone"}]
  /\ main \in [pc : {"hold", "fork", "register", "release", "restore", "deliver", "communicate",
                     "check", "grace", "pop", "over"},
               hold : {"start", "stop"}, inTry : BOOLEAN, raised : BOOLEAN, caught : BOOLEAN]
  /\ handler \in {"none", "grace"}
  /\ put \subseteq Sig
  /\ holding \in BOOLEAN /\ (holding /\ ~Window => main.pc \in {"hold", "fork", "register", "grace", "release"})
  /\ pending \in Seq(Sig) /\ Len(pending) <= MaxSignals
  /\ registered \in BOOLEAN /\ interrupted \in BOOLEAN
  /\ count \in [arrived : 0..MaxSignals, seen : 0..MaxSignals, raised : 0..MaxSignals]

Over == main.pc = "over"

\* However run ends, nothing of the job's group is left.
NoneLeft == Over => Live = {}

\* Every stop signal that arrived, those that waited too, has reached its
\* handler, and the handlers are back in place.
AllDelivered == Over => count.seen = count.arrived /\ put = {}

\* A stop that a handler has raised is never taken for a normal end: whatever
\* was being started, awaited or stopped, run raises.
StopNotSwallowed == Over /\ count.raised > 0 => main.raised

\* No stop signal is lost on its way, in a handler's queue or in an exception.
StopsArrive == AllDelivered /\ StopNotSwallowed

\* After a Ctrl-C the job has its full grace: no handler cuts it short.
CtrlCKeepsGrace == interrupted => handler = "none"

\* A job that is to be stopped is, even if it ignores TERM.
StopEndsRun == (main.raised \/ count.raised > 0) ~> Over
=============================================================================
