----------------------------- MODULE Delegation -----------------------------
(***************************************************************************)
(* One message of a planning agent to the delegate server (delegate.py),   *)
(* from its arrival to the reply: the checks, the private copies of a tree *)
(* that its owner goes on editing, the launchers (launcher.py) with the    *)
(* environment each worker gets, what the workers write, through links     *)
(* too, and what is read back from the copies for the reply.               *)
(*                                                                         *)
(* Who may delete a copy, and stops, are in Copies; the stopping of a job  *)
(* is in Jobs. A tree has no directories; its paths are numbers, in their  *)
(* order. A link leads to a path of the tree or `Out` of it.               *)
(***************************************************************************)
EXTENDS Values, SequencesExt, FiniteSetsExt

CONSTANTS
  ToolCall,    \* the messages, each with a tree and what its workers may do
  PatchLimit   \* paths after which the patch is full, MAX_PATCH in bytes

VARIABLE y     \* the message, the trees, the workers and the reply

Out == 0
TreePaths == 1..3
File(text) == [kind |-> "file", text |-> text]
Link(to) == [kind |-> "link", to |-> to]
Pipe == [kind |-> "pipe"]

IsLink(tree, p) == tree[p] # None /\ tree[p].kind = "link"

\* Where a path leads once every link is followed; a loop leads nowhere else.
Reach(tree, p) ==
  LET at[n \in 0..Cardinality(TreePaths)] ==
        IF n = 0 THEN p
        ELSE IF at[n - 1] # Out /\ IsLink(tree, at[n - 1]) THEN tree[at[n - 1]].to ELSE at[n - 1]
  IN at[Cardinality(TreePaths)]

\* An absolute target, one that climbs out, or a chain that ends outside.
LinkEscapes(tree, p) == IsLink(tree, p) /\ Reach(tree, p) = Out

Tree(tree) == {p \in TreePaths : tree[p] # None}

IsEntry(entry) == entry = None \/ entry.kind # "link" \/ entry.to \in TreePaths \cup {Out}
IsTree(tree) == DOMAIN tree = TreePaths /\ \A p \in TreePaths : IsEntry(tree[p])
----------------------------------------------------------------------------
(* The message *)

\* What the schema and the directory say of the arguments.
Tools == {"delegate", "delegate_many"}
Validate(args) == args.known /\ args.required /\ args.wellTyped
ResolveCwd(args) == args.cwd = "inside"

Briefs(m) == IF m.tool = "delegate" THEN m.args.parallel ELSE m.args.tasks
Isolated == Briefs(y.call) > 1
BriefIds == 1..Briefs(y.call)
PoolSize == Min({y.call.args.parallel, Briefs(y.call)})

Failure(error) == [ok |-> FALSE, error |-> error]
ToolResult(result) == [kind |-> "result", isError |-> ~result.ok, result |-> result]
Protocol(code) == [kind |-> "error", code |-> code]

Ended(reply) == [y EXCEPT !.pc = "reply", !.reply = reply]

\* What needs no worker: an unreadable line, a message that wants no reply
\* (even a call), the other methods, an unknown tool.
ReplyTo(m) ==
  CASE m.method = "parse error" -> Protocol(-32700)
    [] m.method = "no object" -> Protocol(-32600)
    [] m.method \notin {"parse error", "no object"} /\ ~m.id -> None
    [] m.id /\ m.method \in {"initialize", "ping", "tools/list"} -> [kind |-> "result"]
    [] m.id /\ m.method = "other" -> Protocol(-32601)
    [] OTHER -> Protocol(-32602)

\* Wrong arguments are told as a result.
HandleMessage ==
  /\ y.pc = "read"
  /\ LET m == y.call
     IN y' = IF m.method # "tools/call" \/ ~m.id \/ m.tool \notin Tools THEN Ended(ReplyTo(m))
             ELSE IF ~Validate(m.args) \/ ~ResolveCwd(m.args) THEN Ended(ToolResult(Failure("invalid arguments")))
             ELSE IF ~Isolated THEN [y EXCEPT !.pc = "running"]
             ELSE IF m.tooLarge THEN Ended(ToolResult(Failure("too large to copy")))
             ELSE [y EXCEPT !.pc = "listing"]
----------------------------------------------------------------------------
(* The copies *)

\* os.scandir: what each entry is, as of now.
ListEntries ==
  /\ y.pc = "listing"
  /\ y' = [y EXCEPT !.pc = "copying", !.seen = [p \in Tree(y.tree) |-> y.tree[p].kind],
                    !.todo = SetToSortSeq(Tree(y.tree), <), !.record = TRUE]

\* Each entry is opened without following links, whatever it was: a file that
\* is one no more is left out; a link that is none any more cannot be read.
CopyEntry ==
  /\ y.pc = "copying" /\ y.todo # <<>>
  /\ LET p == Head(y.todo)
         now == y.tree[p]
         next == [y EXCEPT !.todo = Tail(@)]
         skips == [next EXCEPT !.skipped = @ \cup {p}]
     IN y' = CASE y.seen[p] = "pipe" -> skips
               [] y.seen[p] = "file" -> IF now # None /\ now.kind = "file" THEN [next EXCEPT !.base[p] = now] ELSE skips
               [] OTHER -> IF IsLink(y.tree, p) THEN [next EXCEPT !.base[p] = now]
                           ELSE [Ended(ToolResult(Failure("could not copy"))) EXCEPT !.record = FALSE]

\* Mutant: the tree is vetted, not the copy.
VettedInSource(tree) == {p \in TreePaths : LinkEscapes(y.tree, p)}

\* Every link is judged on the finished copy before any is removed.
Vetted(tree) == {p \in TreePaths : LinkEscapes(tree, p)}

\* The workers' copies are made of the first one.
CopiesMade ==
  /\ y.pc = "copying" /\ y.todo = <<>>
  /\ LET out == Vetted(y.base)
         base == [p \in TreePaths |-> IF p \in out THEN None ELSE y.base[p]]
     IN y' = [y EXCEPT !.pc = "running", !.skipped = @ \cup out, !.base = base,
                       !.copy = [i \in BriefIds |-> base], !.there = BriefIds]

\* The owner of the tree works on in it.
OwnerEdits(change) ==
  /\ y.pc \in {"listing", "copying"} /\ y.edits < 1
  /\ y' = [y EXCEPT !.tree[change.path] = change.entry, !.edits = @ + 1]
----------------------------------------------------------------------------
(* The workers *)

\* The child's environment: an allowlist and what the route asks for, out of
\* the launcher's own; the names a plan must not see are emptied.
CopyEnv == "copy"
BaseAllow == {CopyEnv, "PATH"}
EnvPolicy(launcher) == BaseAllow \cup launcher.allow
BuildEnv(launcher, has) ==
  LET spec == launcher.runner
      visible == IF launcher.inherit THEN has ELSE has \cap (EnvPolicy(launcher) \cup spec.pass)
  IN (visible \ spec.clear) \cup spec.set \cup {n \in spec.from : n \in has}

\* Every process of a worker in a copy carries the copy's name.
LauncherEnv == y.call.launcher.has \cup (IF Isolated THEN {CopyEnv} ELSE {})
WorkerEnv == BuildEnv(y.call.launcher, LauncherEnv)
Carries(i) == CopyEnv \in WorkerEnv

\* What a message holds: numbers of briefs, trees and changes to them, and a
\* runner whose credentials to clear do not include the mark of the copies.
ASSUME MessagesTyped ==
  /\ None \notin Nat /\ PatchLimit \in Nat /\ \A to \in TreePaths \cup {Out} : None # Link(to)
  /\ \A m \in ToolCall :
       /\ Briefs(m) \in Nat /\ IsTree(m.tree)
       /\ \A change \in m.userChanges \cup m.workerChanges : change.path \in TreePaths /\ IsEntry(change.entry)
       /\ CopyEnv \notin m.launcher.runner.clear

BriefIs(i, where) == y.pc = "running" /\ i \in BriefIds /\ y.w[i] = where

\* The pool takes the briefs in order.
StartBrief(i) ==
  /\ BriefIs(i, "queued") /\ \A j \in 1..(i - 1) : ~BriefIs(j, "queued")
  /\ Cardinality({j \in BriefIds : y.w[j] \in {"launching", "working"}}) < PoolSize
  /\ y' = [y EXCEPT !.w[i] = "launching"]

Returned(i, result) == [y EXCEPT !.w[i] = "returned", !.results[i] = result]

\* The launcher decides, and starts the route's client or says why not: a
\* wrong configuration or no client (2), no route (3), a crash (1). Of its
\* last line that reads as a decision comes the model.
LauncherRefused(code) == [ok |-> FALSE, exit |-> code, model |-> None, error |-> "refused"]
Ran(code) == [ok |-> code = 0, exit |-> code, model |-> "route", error |-> None]
WorkerTimedOut == [ok |-> FALSE, exit |-> None, model |-> None, error |-> "timeout"]
BriefRaised == [ok |-> FALSE, exit |-> None, model |-> None, error |-> "worker failed"]

\* No launcher is started when the brief is too long for a command line.
LauncherRefuses(i) ==
  /\ BriefIs(i, "launching")
  /\ \E r \in y.call.ends \cap {LauncherRefused(1), LauncherRefused(2), LauncherRefused(3), BriefRaised, WorkerTimedOut} : y' = Returned(i, r)

ClientStarts(i) == BriefIs(i, "launching") /\ y' = [y EXCEPT !.w[i] = "working"]

\* 124 is the launcher's own timeout; at the server's all of it is stopped.
WorkerReturns(i) ==
  /\ BriefIs(i, "working")
  /\ \E r \in y.call.ends \cap {Ran(0), Ran(1), Ran(124), WorkerTimedOut} : y' = Returned(i, r)

\* The tree a worker is in.
Of(i) == IF Isolated THEN y.copy[i] ELSE y.tree

Put(i, p, entry) ==
  IF Isolated THEN [y EXCEPT !.copy[i][p] = entry] ELSE [y EXCEPT !.tree[p] = entry]

\* A worker, or what it left behind, replaces an entry, or writes through it.
Writer(i) == BriefIs(i, "working") \/ (y.pc \in {"running", "reading"} /\ i \in y.loose)

Replace(i, change) ==
  /\ Writer(i) /\ y.writes < y.call.writes
  /\ y' = [Put(i, change.path, change.entry) EXCEPT !.writes = @ + 1,
             !.made = IF change.entry # None /\ change.entry.kind = "link" THEN @ \cup {<<i, change.path>>} ELSE @]

WriteThrough(i, p) ==
  /\ Writer(i) /\ y.writes < y.call.writes /\ IsLink(Of(i), p)
  /\ LET to == Reach(Of(i), p)
     IN y' = IF to = Out THEN [y EXCEPT !.writes = @ + 1, !.outside = @ \cup {<<i, p>>}]
             ELSE IF IsLink(Of(i), to) \/ Of(i)[to] = Pipe THEN y   \* a loop, nobody reads
             ELSE [Put(i, to, File("worker's")) EXCEPT !.writes = @ + 1]

Detach(i) ==
  /\ BriefIs(i, "working") /\ y.call.detaches /\ y.loose = {}
  /\ y' = [y EXCEPT !.loose = {i}]

LooseEnds(i) == i \in y.loose /\ y' = [y EXCEPT !.loose = @ \ {i}]
----------------------------------------------------------------------------
(* What is read back *)

\* Mutant: links are compared by the files they reach.
SameFollowed(old, new, p) ==
  LET text(tree) == IF Reach(tree, p) = Out \/ IsLink(tree, Reach(tree, p)) THEN None ELSE tree[Reach(tree, p)]
  IN text(old) = text(new)

\* Links compare by target.
SameEntry(old, new, p) == old[p] = new[p]

\* The text of an entry for the patch, or why it has none.
DiffText(entry) ==
  CASE entry = None -> "nothing"
    [] entry # None /\ entry.kind = "link" -> <<"-> out", "-> 1", "-> 2", "-> 3">>[entry.to + 1]
    [] entry # None /\ entry.kind = "pipe" -> "binary"
    [] OTHER -> IF entry.text = "one, other newlines" THEN "one" ELSE entry.text

\* The patch takes paths in their order until it is full; what is too large
\* or comes after is listed.
DiffTrees(old, new) ==
  LET added == Tree(new) \ Tree(old)
      deleted == Tree(old) \ Tree(new)
      modified == {p \in Tree(old) \cap Tree(new) : ~SameEntry(old, new, p)}
      changed == added \cup deleted \cup modified
      texts(p) == {DiffText(old[p]), DiffText(new[p])}
      tooBig == {p \in changed : "too large" \in texts(p)}
      binary == {p \in changed \ tooBig : "binary" \in texts(p)}
      shown == {p \in changed \ (tooBig \cup binary) : Cardinality(texts(p)) > 1}
      full(p) == Cardinality({q \in shown : q < p}) > PatchLimit
      late == {p \in changed : full(p)}
  IN [added |-> added, deleted |-> deleted, modified |-> modified,
      binary |-> binary \ late, notDiffed |-> tooBig \cup late,
      patch |-> {p \in shown \ late : Cardinality({q \in shown : q < p}) < PatchLimit},
      truncated |-> Cardinality(shown \ late) > PatchLimit,
      leaving |-> {p \in added \cup modified : LinkEscapes(new, p)}]

ChangedIn(c) == c.added \cup c.modified \cup c.deleted

\* A file of the tree that its worker has made unreadable cannot be compared.
Unreadable(old, new) == \E p \in Tree(old) \cap Tree(new) : new[p] = File("locked") /\ ~IsLink(old, p)

\* All have returned: what may still write is looked for, once (one whole
\* scan; that it is none is in Copies). A single worker's tree is not read.
AllReturned ==
  /\ y.pc = "running" /\ \A i \in BriefIds : BriefIs(i, "returned")
  /\ IF Isolated
     THEN y' = [y EXCEPT !.pc = "reading", !.todo = [i \in BriefIds |-> i],
                         !.busy = \E i \in y.loose : Carries(i)]
     ELSE LET r == y.results[1]
          IN y' = Ended(CASE y.call.tool = "delegate_many" -> ToolResult([ok |-> r.ok, results |-> y.results])
                          [] y.call.tool = "delegate" /\ r = BriefRaised -> Protocol(-32603)
                          [] OTHER -> ToolResult(r))

\* A copy that shows nothing goes, unless something may still write.
ReadCopy ==
  /\ y.pc = "reading" /\ y.todo # <<>>
  /\ LET i == Head(y.todo)
         failed == Unreadable(y.base, y.copy[i])
         changes == IF failed THEN None ELSE DiffTrees(y.base, y.copy[i])
         changed == ~failed /\ ChangedIn(changes) # {}
         r == y.results[i]
         item == [ok |-> r.ok, exit |-> r.exit, model |-> r.model, error |-> r.error,
                  workspace |-> IF changed THEN i ELSE None, changes |-> changes]
     IN y' = [y EXCEPT !.todo = Tail(@), !.results[i] = item,
                       !.there = IF ~changed /\ ~failed /\ ~y.busy THEN @ \ {i} ELSE @]

\* Without a workspace to name everything goes; otherwise the record stays
\* until the reply is written, and as long as something may write.
AllRead ==
  /\ y.pc = "reading" /\ y.todo = <<>>
  /\ LET named == \E i \in BriefIds : y.results[i].workspace # None
         result == [ok |-> \A i \in BriefIds : y.results[i].ok, results |-> y.results,
                    skipped |-> y.skipped, kept |-> y.busy]
     IN y' = [Ended(ToolResult(result)) EXCEPT
                !.record = y.busy \/ named, !.there = IF y.busy \/ named THEN @ ELSE {},
                !.handed = named /\ ~y.busy]

\* The reply is written; only then are the copies the client's.
Serve ==
  /\ y.pc = "reply"
  /\ y' = [y EXCEPT !.pc = "served", !.record = @ /\ ~y.handed]

\* The client is gone: the server ends, a later one sweeps what is recorded.
ReplyLost ==
  /\ y.pc = "reply" /\ y.reply # None
  /\ y' = [y EXCEPT !.pc = "lost"]
----------------------------------------------------------------------------
DelegationStart(call) ==
  [call |-> call, pc |-> "read", tree |-> call.tree, edits |-> 0, seen |-> <<>>, todo |-> <<>>,
   base |-> [p \in TreePaths |-> None], copy |-> <<>>, there |-> {}, skipped |-> {}, record |-> FALSE,
   w |-> [i \in 1..Briefs(call) |-> "queued"], writes |-> 0, made |-> {}, outside |-> {}, loose |-> {},
   results |-> [i \in 1..Briefs(call) |-> None], busy |-> FALSE, handed |-> FALSE, reply |-> None]

DelegationInit == \E call \in ToolCall : y = DelegationStart(call)

DelegationNext ==
  \/ HandleMessage \/ ListEntries \/ CopyEntry \/ CopiesMade \/ AllReturned \/ ReadCopy \/ AllRead
  \/ Serve \/ ReplyLost
  \/ \E change \in y.call.userChanges : OwnerEdits(change)
  \/ \E i \in BriefIds :
       \/ StartBrief(i) \/ LauncherRefuses(i) \/ ClientStarts(i) \/ Detach(i) \/ LooseEnds(i) \/ WorkerReturns(i)
       \/ \E change \in y.call.workerChanges : Replace(i, change)
       \/ \E p \in TreePaths : WriteThrough(i, p)

DelegationSpec == DelegationInit /\ [][DelegationNext]_y
----------------------------------------------------------------------------
(* Properties *)

\* A worker in a copy writes outside of it only by way of a link it, or its
\* leftovers, made there: whatever the tree's owner does during the copying,
\* no link of the tree leads a worker back to it; and what it starts is marked
\* with its copy (_copy, _link_escapes, BASE_ENV_ALLOW).
WorkStaysInCopies ==
  Isolated =>
    /\ \A o \in y.outside : \E p \in TreePaths : <<o[1], p>> \in y.made
    /\ y.copy # <<>> => \A i \in BriefIds :
         \A p \in TreePaths : LinkEscapes(y.copy[i], p) => \E q \in TreePaths : <<i, q>> \in y.made
    /\ \A i \in y.loose : Carries(i)

\* A reply the planner got says of every copy what it now holds: the copies
\* it names are there, as they were read unless it says that something may
\* still write; a copy it does not name has nothing a worker did; every
\* changed path is in the patch or in a list that says why not; every link
\* that leads out is named; and a record protects exactly the copies nobody
\* was given. A copy that could not be read is the exception: it is not named
\* and not protected (run_many, diff_trees, _serve).
ReplyTellsAll ==
  y.pc = "served" /\ y.reply # None /\ y.reply.kind = "result" /\ Isolated /\ y.copy # <<>> =>
    LET r == y.reply.result
        read == {i \in BriefIds : r.results[i].changes # None}
    IN /\ y.record <=> r.kept
       /\ \A i \in read :
            LET item == r.results[i]
                c == item.changes
                shown(p) == p \in c.patch \cup c.binary \/ DiffText(y.copy[i][p]) = DiffText(y.base[p])
            IN /\ item.workspace # None => i \in y.there
               /\ ~r.kept =>
                    /\ {p \in TreePaths : y.copy[i][p] # y.base[p]} = ChangedIn(c)
                    /\ (item.workspace = None) <=> (ChangedIn(c) = {})
                    /\ \A p \in TreePaths : y.copy[i][p] = Link(Out) => p \in c.leaving
                    /\ c.truncated \/ \A p \in ChangedIn(c) : p \in c.notDiffed \/ shown(p)
=============================================================================
