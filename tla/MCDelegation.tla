---------------------------- MODULE MCDelegation ----------------------------
(* Every kind of message, and two briefs over a tree that is being edited. *)
EXTENDS Delegation, TLC
Arguments(tasks) == [known |-> TRUE, required |-> TRUE, wellTyped |-> TRUE, cwd |-> "inside",
                     parallel |-> 1, tasks |-> tasks]
Launcher == [has |-> {"PATH", "KEY", "TOKEN"}, inherit |-> FALSE, allow |-> {},
             runner |-> [pass |-> {}, clear |-> {}, set |-> {}, from |-> {"KEY"}]]
Places(p, entry) == [path |-> p, entry |-> entry]
MCTree == <<File("one"), Link(1), Link(Out)>>
Message == [method |-> "tools/call", id |-> TRUE, tool |-> "delegate_many", args |-> Arguments(2),
            tooLarge |-> FALSE, tree |-> MCTree, launcher |-> Launcher, userChanges |-> {},
            workerChanges |-> {}, writes |-> 0, detaches |-> FALSE, ends |-> {Ran(0)}]
Wrong(field, value) == [Message EXCEPT !.args[field] = value]
MCMessages ==
       {[Message EXCEPT !.method = m] : m \in {"parse error", "no object", "initialize", "other"}}
  \cup {[Message EXCEPT !.id = FALSE], [Message EXCEPT !.tool = "unknown"], [Message EXCEPT !.tooLarge = TRUE],
        Wrong("known", FALSE), Wrong("required", FALSE), Wrong("wellTyped", FALSE), Wrong("cwd", "outside"),
        Wrong("cwd", "missing")}
MCCall ==
  MCMessages \cup
  {[Message EXCEPT !.userChanges = {Places(1, Link(Out)), Places(2, File("one")), Places(3, None), Places(3, File("two"))},
      !.workerChanges = {Places(2, Link(Out)), Places(1, None)}, !.writes = 1, !.ends = {Ran(0), LauncherRefused(3), BriefRaised}],
   [Message EXCEPT !.tool = "delegate", !.args.parallel = 2, !.detaches = TRUE, !.writes = 2, !.ends = {Ran(0), WorkerTimedOut},
      !.tree = <<File("one"), Link(1), Pipe>>, !.userChanges = {Places(3, Link(2))},
      !.launcher.inherit = TRUE, !.launcher.runner.clear = {"TOKEN"},
      !.workerChanges = {Places(1, File("one, other newlines")), Places(2, File("one")), Places(3, Link(Out))}],
   [Message EXCEPT !.tree = <<File("one"), Link(3), Link(2)>>, !.writes = 2,
      !.workerChanges = {Places(1, File("binary")), Places(1, File("locked")), Places(2, File("two")), Places(3, File("too large")), Places(3, File("two"))}],
   [Message EXCEPT !.tool = "delegate", !.ends = {LauncherRefused(3), BriefRaised, Ran(0)}],
   [Message EXCEPT !.args.tasks = 1, !.writes = 2, !.detaches = TRUE,
      !.ends = {LauncherRefused(1), LauncherRefused(2), LauncherRefused(3), BriefRaised, WorkerTimedOut, Ran(0), Ran(1), Ran(124)}, !.workerChanges = {Places(1, File("two")), Places(2, Link(Out))}]}
=============================================================================
