------------------------------- MODULE Copies -------------------------------
(***************************************************************************)
(* The delegate server's scratch directories.  A tool call with several    *)
(* briefs makes one directory, tags it with an owner record, copies the    *)
(* tree into it once per brief, runs the workers in a thread pool, and     *)
(* hands the changed copies over in its reply.  Servers come and go: they  *)
(* are told to stop, killed, and a later one sweeps what they left.        *)
(* Workers may leave detached processes behind, which carry the            *)
(* directory's name in their environment and may write into it.            *)
(*                                                                         *)
(* A "no process may still write here" check is a scan: the process list   *)
(* is read first and each process on it afterwards, while processes go on  *)
(* forking and exiting.                                                    *)
(***************************************************************************)
EXTENDS Naturals, FiniteSets

CONSTANTS
  Server,        \* server processes, each one life
  Dir,           \* scratch directories; mkdtemp never repeats a name
  Brief,         \* the briefs of one tool call, more than one
  Proc,          \* processes a run may start
  Parallel,      \* ThreadPoolExecutor(max_workers)
  Nobody,        \* no server, no directory, no brief
  LateFork,      \* may a process that no running server supervises fork?
  Stoppable      \* may servers be stopped, killed or interrupted?

ASSUME CopiesAssumption ==
  /\ Parallel \in Nat \ {0}
  /\ Nobody \notin Server \cup Dir \cup Brief
  /\ LateFork \in BOOLEAN /\ Stoppable \in BOOLEAN

VARIABLES
  dir,     \* [Dir -> the directory as the file system has it]
  proc,    \* [Proc -> the processes started in the copies]
  brief,   \* [Dir -> [Brief -> the state of its future]]
  sv,      \* [Server -> the local state of its main thread]
  named    \* the directories some delivered reply hands over

vars == <<dir, proc, brief, sv, named>>

File == {"base", "copies"}       \* what is left of the base and of the workers' copies

\* A scratch directory: its owner record and who holds the record's flock.
NoDir == [there |-> FALSE, owner |-> Nobody, record |-> "none", lock |-> Nobody, files |-> {}]

\* `brief` is the worker's; a detached process has none.
NoProc == [st |-> "free", dir |-> Nobody, brief |-> Nobody]

Gone(p) == [proc[p] EXCEPT !.st = "gone", !.brief = Nobody]

\* `to` says what a scan or a removal is for; `told` is _STOPPING, `gaveUp`
\* that STOP_WAIT_S passed with a worker left.
NewServer == [pc |-> "off", dir |-> Nobody, todo |-> {}, list |-> {}, busy |-> FALSE,
              to |-> "sweep", told |-> FALSE, gaveUp |-> FALSE, how |-> "none"]

Live(p) == proc[p].st = "live"
Marked(d) == {p \in Proc : Live(p) /\ proc[p].dir = d}
Workers(d) == {p \in Marked(d) : proc[p].brief # Nobody}
Dead(s) == sv[s].pc = "ended"
Running(s) == ~Dead(s) /\ sv[s].pc # "off"
Owned(s) == {d \in Dir : dir[d].owner = s}

\* A cancelled future is over although no pool thread may ever see it.
Over == {"done", "cancelled"}
Done(d) == \A b \in Brief : brief[d][b] \in Over

\* The server's process ends: its descriptors close, so its locks are free.
Unlocked(s) ==
  [d \in Dir |-> IF dir[d].lock = s THEN [dir[d] EXCEPT !.lock = Nobody] ELSE dir[d]]

\* The main thread is through; the interpreter still joins the pool threads.
Leaving(s, how) ==
  [sv[s] EXCEPT !.pc = IF \A d \in Owned(s) : Done(d) THEN "ended" ELSE "exiting",
                !.how = how, !.list = {}, !.todo = {}]

\* Back in the main loop, waiting for the next call.
Idle(s) ==
  [sv[s] EXCEPT !.pc = "idle", !.dir = Nobody, !.to = "sweep", !.busy = FALSE, !.gaveUp = FALSE]

Init ==
  /\ dir = [d \in Dir |-> NoDir]
  /\ proc = [p \in Proc |-> NoProc]
  /\ brief = [d \in Dir |-> [b \in Brief |-> "done"]]
  /\ sv = [s \in Server |-> NewServer]
  /\ named = {}

----------------------------------------------------------------------------
(* Start and sweep *)

\* The directories are listed once, at the start.
Start(s) ==
  /\ sv[s].pc = "off"
  /\ sv' = [sv EXCEPT ![s].pc = "sweep", ![s].todo = {d \in Dir : dir[d].there}]
  /\ UNCHANGED <<dir, proc, brief, named>>

\* _orphan opens the record; without a readable one the directory is kept.
OpenRecord(s) ==
  /\ sv[s].pc = "sweep"
  /\ \E d \in sv[s].todo :
       sv' = [sv EXCEPT ![s].todo = @ \ {d},
                        ![s].dir = IF dir[d].record = "written" THEN d ELSE Nobody,
                        ![s].pc = IF dir[d].record = "written" THEN "opened" ELSE "sweep"]
  /\ UNCHANGED <<dir, proc, brief, named>>

SweepDone(s) ==
  /\ sv[s].pc = "sweep" /\ sv[s].todo = {}
  /\ sv' = [sv EXCEPT ![s] = Idle(s)]
  /\ UNCHANGED <<dir, proc, brief, named>>

\* Mutant: the record's lock alone shows that the owner is gone.
LockOrphanByLockOnly(s) ==
  /\ sv[s].pc = "opened"
  /\ LET d == sv[s].dir
         free == dir[d].lock = Nobody
     IN  /\ sv' = [sv EXCEPT ![s].pc = IF free THEN "stopMarked" ELSE "sweep"]
         /\ dir' = IF free THEN [dir EXCEPT ![d].lock = s] ELSE dir
  /\ UNCHANGED <<proc, brief, named>>

\* The recorded process is gone and the record's lock is free (of an unlinked
\* record it is, whoever took the path's).
LockOrphan(s) ==
  /\ sv[s].pc = "opened"
  /\ LET d == sv[s].dir
         free == Dead(dir[d].owner) /\ dir[d].lock = Nobody
     IN  /\ sv' = [sv EXCEPT ![s].pc = IF free THEN "stopMarked" ELSE "sweep"]
         /\ dir' = IF free THEN [dir EXCEPT ![d].lock = s] ELSE dir
  /\ UNCHANGED <<proc, brief, named>>

\* stop_marked: some may escape its bounded rounds (they cannot be pinned, or
\* are on no list).
StopMarked(s) ==
  /\ sv[s].pc = "stopMarked"
  /\ \E stopped \in SUBSET Marked(sv[s].dir) :
       proc' = [p \in Proc |-> IF p \in stopped THEN Gone(p) ELSE proc[p]]
  /\ sv' = [sv EXCEPT ![s].pc = "list", ![s].to = "sweep"]
  /\ UNCHANGED <<dir, brief, named>>

----------------------------------------------------------------------------
(* _in_use: the directory is walked, the processes are listed, and each     *)
(* process on the list is looked at                                        *)

ListProcesses(s) ==
  /\ sv[s].pc = "list"
  /\ sv' = [sv EXCEPT ![s].pc = "scan", ![s].list = {p \in Proc : Live(p)},
                      ![s].busy = ~dir[sv[s].dir].there]
  /\ UNCHANGED <<dir, proc, brief, named>>

ReadProcess(s) ==
  /\ sv[s].pc = "scan"
  /\ \E p \in sv[s].list :
       sv' = [sv EXCEPT ![s].list = @ \ {p}, ![s].busy = @ \/ p \in Marked(sv[s].dir)]
  /\ UNCHANGED <<dir, proc, brief, named>>

\* What each caller does with the answer: the sweep and the cleanup keep a
\* busy directory or remove it, a finished run keeps every copy or tidies up.
ScanDone(s) ==
  /\ sv[s].pc = "scan" /\ sv[s].list = {}
  /\ \/ /\ sv[s].to = "sweep"
        /\ sv' = [sv EXCEPT ![s].pc = IF sv[s].busy THEN "sweep" ELSE "remove"]
        /\ dir' = IF sv[s].busy THEN Unlocked(s) ELSE dir
     \/ /\ sv[s].to = "finish"
        /\ sv' = [sv EXCEPT ![s].pc = IF sv[s].busy THEN "return" ELSE "tidy"]
        /\ UNCHANGED dir
     \/ /\ sv[s].to = "cleanup"
        /\ sv' = [sv EXCEPT ![s].pc = IF sv[s].busy THEN "raise" ELSE "remove"]
        /\ UNCHANGED dir
  /\ UNCHANGED <<proc, brief, named>>

----------------------------------------------------------------------------
(* _remove_copies: the copies, the record, the directory *)

\* Mutant: only the workers' copies are removed.
RemoveCopiesOnly(s) ==
  /\ sv[s].pc = "remove"
  /\ \E f \in dir[sv[s].dir].files \ {"base"} : dir' = [dir EXCEPT ![sv[s].dir].files = @ \ {f}]
  /\ UNCHANGED <<proc, brief, sv, named>>

RemoveFile(s) ==
  /\ sv[s].pc = "remove"
  /\ \E f \in dir[sv[s].dir].files : dir' = [dir EXCEPT ![sv[s].dir].files = @ \ {f}]
  /\ UNCHANGED <<proc, brief, sv, named>>

RemoveRecord(s) ==
  /\ sv[s].pc = "remove"
  /\ dir[sv[s].dir].files = {} /\ dir[sv[s].dir].record # "none"
  /\ dir' = [dir EXCEPT ![sv[s].dir].record = "none"]
  /\ UNCHANGED <<proc, brief, sv, named>>

\* A sweep goes on to the next directory, a run returns or re-raises.
RemoveDir(s) ==
  /\ sv[s].pc = "remove"
  /\ dir[sv[s].dir].files = {} /\ dir[sv[s].dir].record = "none"
  /\ IF sv[s].to = "sweep"
     THEN /\ dir' = [Unlocked(s) EXCEPT ![sv[s].dir].there = FALSE]
          /\ sv' = [sv EXCEPT ![s].pc = "sweep"]
     ELSE /\ dir' = [dir EXCEPT ![sv[s].dir].there = FALSE]
          /\ sv' = [sv EXCEPT ![s].pc = IF sv[s].to = "cleanup" THEN "raise" ELSE "return",
                              ![s].dir = IF sv[s].to = "cleanup" THEN @ ELSE Nobody]
  /\ UNCHANGED <<proc, brief, named>>

----------------------------------------------------------------------------
(* run_many *)

\* A tool call arrives: mkdtemp.
MakeDir(s) ==
  /\ sv[s].pc = "idle"
  /\ \E d \in Dir :
       /\ dir[d].owner = Nobody
       /\ dir' = [dir EXCEPT ![d].there = TRUE, ![d].owner = s]
       /\ sv' = [sv EXCEPT ![s].pc = "made", ![s].dir = d]
  /\ UNCHANGED <<proc, brief, named>>

\* _tag creates the record and locks it ...
CreateRecord(s) ==
  /\ sv[s].pc = "made"
  /\ dir' = [dir EXCEPT ![sv[s].dir].record = "empty", ![sv[s].dir].lock = s]
  /\ sv' = [sv EXCEPT ![s].pc = "tagged"]
  /\ UNCHANGED <<proc, brief, named>>

\* ... then writes it.
WriteRecord(s) ==
  /\ sv[s].pc = "tagged"
  /\ dir' = [dir EXCEPT ![sv[s].dir].record = "written"]
  /\ sv' = [sv EXCEPT ![s].pc = "copying"]
  /\ UNCHANGED <<proc, brief, named>>

\* The base first, then the copies of it.
CopyTree(s) ==
  /\ sv[s].pc = "copying" /\ dir[sv[s].dir].files # File
  /\ dir' = [dir EXCEPT ![sv[s].dir].files = IF @ = {} THEN {"base"} ELSE File]
  /\ UNCHANGED <<proc, brief, sv, named>>

\* An OSError while tagging or copying: the tool call ends in an error.
CopyFails(s) ==
  /\ sv[s].pc \in {"made", "tagged", "copying"}
  /\ sv' = [sv EXCEPT ![s].pc = "remove", ![s].to = "finish"]
  /\ UNCHANGED <<dir, proc, brief, named>>

\* Every brief is submitted before a stop signal gets through (stops_held).
Submit(s) ==
  /\ sv[s].pc = "copying" /\ dir[sv[s].dir].files = File
  /\ brief' = [brief EXCEPT ![sv[s].dir] = [b \in Brief |-> "queued"]]
  /\ sv' = [sv EXCEPT ![s].pc = "running"]
  /\ UNCHANGED <<dir, proc, named>>

Working(d) == {b \in Brief : brief[d][b] \in {"starting", "running"}}

\* A pool thread takes a brief, and looks at _STOPPING.
TakeBrief(s) ==
  /\ sv[s].pc \in {"running", "interrupted", "exiting"}
  /\ \E d \in Owned(s), b \in Brief :
       /\ Cardinality(Working(d)) < Parallel
       /\ brief[d][b] = "queued"
       /\ brief' = [brief EXCEPT ![d][b] = IF sv[s].told THEN "done" ELSE "starting"]
  /\ UNCHANGED <<dir, proc, sv, named>>

\* procs.run: the launcher is started and registered, or cannot be started.
StartWorker(s) ==
  /\ Running(s)
  /\ \E d \in Owned(s), b \in Brief :
       /\ brief[d][b] = "starting"
       /\ \/ /\ brief' = [brief EXCEPT ![d][b] = "done"]
             /\ UNCHANGED proc
          \/ \E p \in Proc :
               /\ proc[p].st = "free"
               /\ brief' = [brief EXCEPT ![d][b] = "running"]
               /\ proc' = [proc EXCEPT ![p] = [st |-> "live", dir |-> d, brief |-> b]]
  /\ UNCHANGED <<dir, sv, named>>

\* The job ends, by itself, by its timeout or by terminate_all, and with it
\* what is left in its session.
WorkerEnds(s) ==
  /\ Running(s)
  /\ \E d \in Owned(s) : \E p \in Workers(d) :
       /\ proc' = [proc EXCEPT ![p] = Gone(p)]
       /\ brief' = [brief EXCEPT ![d][proc[p].brief] = "done"]
  /\ UNCHANGED <<dir, sv, named>>

\* as_completed is exhausted; is anything left that may write?
Collect(s) ==
  /\ sv[s].pc = "running" /\ Done(sv[s].dir)
  /\ sv' = [sv EXCEPT ![s].pc = "list", ![s].to = "finish"]
  /\ UNCHANGED <<dir, proc, brief, named>>

\* Nothing is: the unchanged copies and the base go.  With no copy left the
\* whole directory goes, otherwise it is handed over.
Tidy(s) ==
  /\ sv[s].pc = "tidy"
  /\ \E left \in {{}, {"copies"}} :
       /\ dir' = [dir EXCEPT ![sv[s].dir].files = left]
       /\ sv' = [sv EXCEPT ![s].pc = IF left = {} THEN "remove" ELSE "return"]
  /\ UNCHANGED <<proc, brief, named>>

\* run_many returns: the owner record is closed, its lock gone.
Return(s) ==
  /\ sv[s].pc = "return"
  /\ dir' = Unlocked(s)
  /\ sv' = [sv EXCEPT ![s].pc = "reply"]
  /\ UNCHANGED <<proc, brief, named>>

\* The reply is written and flushed: the client has the paths.  Copies kept
\* because something may still write into them are named as such.
WriteReply(s) ==
  /\ sv[s].pc = "reply"
  /\ sv' = [sv EXCEPT ![s].pc = "flushed"]
  /\ named' = IF sv[s].dir # Nobody /\ ~sv[s].busy THEN named \cup {sv[s].dir} ELSE named
  /\ UNCHANGED <<dir, proc, brief>>

\* The client has gone: the write raises and the server ends.
ReplyFails(s) ==
  /\ sv[s].pc = "reply"
  /\ sv' = [sv EXCEPT ![s] = Leaving(s, "pipe")]
  /\ UNCHANGED <<dir, proc, brief, named>>

\* The record of handed-over copies goes last.
UnlinkRecord(s) ==
  /\ sv[s].pc = "flushed"
  /\ dir' = [d \in Dir |-> IF d = sv[s].dir /\ ~sv[s].busy
                           THEN [dir[d] EXCEPT !.record = "none"] ELSE dir[d]]
  /\ sv' = [sv EXCEPT ![s] = Idle(s)]
  /\ UNCHANGED <<proc, brief, named>>

\* End of input.
StdinCloses(s) ==
  /\ sv[s].pc = "idle"
  /\ sv' = [sv EXCEPT ![s] = Leaving(s, "eof")]
  /\ UNCHANGED <<dir, proc, brief, named>>

----------------------------------------------------------------------------
(* Interrupts *)

InRun == {"made", "tagged", "copying", "running", "tidy"}

\* run_many is anywhere between mkdtemp and its return.
Interruptible(s) ==
  sv[s].pc \in InRun \/ (sv[s].pc \in {"list", "scan", "remove"} /\ sv[s].to = "finish")

\* The first SIGTERM, SIGHUP or SIGINT: _STOPPING is set and the handler
\* raises in the main thread.  Inside run_many that starts the cleanup.
StopInRun(s) ==
  /\ Stoppable /\ ~sv[s].told /\ Interruptible(s)
  /\ sv' = [sv EXCEPT ![s].pc = "interrupted", ![s].told = TRUE, ![s].list = {},
                      ![s].to = "finish"]
  /\ UNCHANGED <<dir, proc, brief, named>>

\* Anywhere else, before mkdtemp's result is stored, and in the moment before
\* the cleanup of another exception holds the signals back: the server ends.
StopOutsideRun(s) ==
  /\ Stoppable /\ Running(s) /\ ~sv[s].told /\ sv[s].to # "cleanup"
  /\ sv[s].pc \in {"made", "interrupted"} \/ ~(Interruptible(s) \/ sv[s].pc = "exiting")
  /\ sv' = [sv EXCEPT ![s] = [Leaving(s, "told") EXCEPT !.told = TRUE]]
  /\ dir' = Unlocked(s)
  /\ UNCHANGED <<proc, brief, named>>

\* Mutant: the handler raises in the middle of a cleanup.
StopNotHeld(s) ==
  /\ Stoppable /\ Running(s) /\ ~sv[s].told /\ sv[s].to = "cleanup" /\ sv[s].pc # "exiting"
  /\ sv' = [sv EXCEPT ![s] = [Leaving(s, "told") EXCEPT !.told = TRUE]]
  /\ dir' = Unlocked(s)
  /\ UNCHANGED <<proc, brief, named>>

\* During such a cleanup it is held until the cleanup is done.
StopHeld(s) ==
  /\ Stoppable /\ Running(s) /\ ~sv[s].told /\ sv[s].to = "cleanup" /\ sv[s].pc # "exiting"
  /\ sv' = [sv EXCEPT ![s].told = TRUE]
  /\ UNCHANGED <<dir, proc, brief, named>>

\* Any other exception inside run_many: the same cleanup, without _STOPPING.
RunRaises(s) ==
  /\ Stoppable /\ Interruptible(s)
  /\ sv' = [sv EXCEPT ![s].pc = "interrupted", ![s].list = {}, ![s].to = "finish"]
  /\ UNCHANGED <<dir, proc, brief, named>>

\* pool.shutdown(cancel_futures=True): queued briefs never run.
CancelQueued(s) ==
  /\ sv[s].pc = "interrupted"
  /\ brief' = [brief EXCEPT ![sv[s].dir] =
                  [b \in Brief |-> IF @[b] = "queued" THEN "cancelled" ELSE @[b]]]
  /\ sv' = [sv EXCEPT ![s].pc = "stopping", ![s].to = "cleanup"]
  /\ UNCHANGED <<dir, proc, named>>

\* Mutant: one round of terminate_all, without waiting for the pool.
StoppedOneRound(s) ==
  /\ sv[s].pc = "stopping"
  /\ Workers(sv[s].dir) = {}
  /\ sv' = [sv EXCEPT ![s].pc = "list"]
  /\ UNCHANGED <<dir, proc, brief, named>>

\* Mutant: every future is waited for, a cancelled one too.
StoppedWaitsForCancelled(s) ==
  /\ sv[s].pc = "stopping"
  /\ \A b \in Brief : brief[sv[s].dir][b] = "done"
  /\ sv' = [sv EXCEPT ![s].pc = "list"]
  /\ UNCHANGED <<dir, proc, brief, named>>

\* _stop_workers: rounds of terminate_all (WorkerEnds) until no future is
\* left, a worker started in between included.
Stopped(s) ==
  /\ sv[s].pc = "stopping" /\ Done(sv[s].dir)
  /\ sv' = [sv EXCEPT ![s].pc = "list"]
  /\ UNCHANGED <<dir, proc, brief, named>>

\* ... or until STOP_WAIT_S has passed: the copies stay.
StopGivesUp(s) ==
  /\ sv[s].pc = "stopping" /\ ~Done(sv[s].dir)
  /\ sv' = [sv EXCEPT ![s].pc = "raise", ![s].gaveUp = TRUE]
  /\ UNCHANGED <<dir, proc, brief, named>>

\* The exception goes on: a stop ends the server, any other one is the
\* error reply of this call.
Raise(s) ==
  /\ sv[s].pc = "raise"
  /\ dir' = Unlocked(s)
  /\ sv' = [sv EXCEPT ![s] = IF @.told THEN Leaving(s, "told") ELSE Idle(s)]
  /\ UNCHANGED <<proc, brief, named>>

\* The last pool thread has ended.
Exit(s) ==
  /\ sv[s].pc = "exiting"
  /\ \A d \in Owned(s) : Done(d)
  /\ sv' = [sv EXCEPT ![s].pc = "ended"]
  /\ UNCHANGED <<dir, proc, brief, named>>

\* SIGKILL: the pool threads are gone too, the workers run on.
Killed(s) ==
  /\ Stoppable /\ Running(s)
  /\ sv' = [sv EXCEPT ![s] = [Leaving(s, "killed") EXCEPT !.pc = "ended"]]
  /\ dir' = Unlocked(s)
  /\ brief' = [d \in Dir |-> IF d \in Owned(s) THEN [b \in Brief |-> "done"] ELSE brief[d]]
  /\ UNCHANGED <<proc, named>>

----------------------------------------------------------------------------
(* The processes in the copies *)

\* A worker leaves a detached process behind; one that is itself unsupervised
\* may do so too.
Detach(p) ==
  /\ Live(p)
  /\ LateFork \/ (proc[p].brief # Nobody /\ ~Dead(dir[proc[p].dir].owner))
  /\ \E q \in Proc :
       /\ proc[q].st = "free"
       /\ proc' = [proc EXCEPT ![q] = [st |-> "live", dir |-> proc[p].dir, brief |-> Nobody]]
  /\ UNCHANGED <<dir, brief, sv, named>>

\* A detached process, or a worker nobody supervises any more, ends.
Exits(p) ==
  /\ Live(p) /\ (proc[p].brief = Nobody \/ Dead(dir[proc[p].dir].owner))
  /\ proc' = [proc EXCEPT ![p] = Gone(p)]
  /\ UNCHANGED <<dir, brief, sv, named>>

\* What a server does by itself.
Serve(s) ==
  \/ OpenRecord(s) \/ SweepDone(s) \/ LockOrphan(s) \/ StopMarked(s)
  \/ ListProcesses(s) \/ ReadProcess(s) \/ ScanDone(s)
  \/ RemoveFile(s) \/ RemoveRecord(s) \/ RemoveDir(s)
  \/ CreateRecord(s) \/ WriteRecord(s) \/ CopyTree(s) \/ Submit(s)
  \/ TakeBrief(s) \/ StartWorker(s) \/ WorkerEnds(s) \/ Collect(s) \/ Tidy(s)
  \/ Return(s) \/ WriteReply(s) \/ UnlinkRecord(s)
  \/ CancelQueued(s) \/ Stopped(s) \/ Raise(s) \/ Exit(s)

\* What happens to a server.
Happens(s) ==
  \/ Start(s) \/ MakeDir(s) \/ CopyFails(s) \/ ReplyFails(s) \/ StdinCloses(s)
  \/ StopInRun(s) \/ StopOutsideRun(s) \/ StopHeld(s)
  \/ RunRaises(s) \/ StopGivesUp(s) \/ Killed(s)

Next ==
  \/ \E s \in Server : Serve(s) \/ Happens(s)
  \/ \E p \in Proc : Detach(p) \/ Exits(p)

\* The server's threads run, and a worker ends once it is told to.
Fairness == \A s \in Server : WF_vars(Serve(s))

Spec == Init /\ [][Next]_vars /\ Fairness
----------------------------------------------------------------------------
(* Properties *)

ServerState == [
  pc : {"off", "sweep", "opened", "stopMarked", "list", "scan", "remove", "idle", "made",
        "tagged", "copying", "running", "tidy", "return", "reply", "flushed", "interrupted",
        "stopping", "raise", "exiting", "ended"},
  dir : Dir \cup {Nobody}, todo : SUBSET Dir, list : SUBSET Proc, busy : BOOLEAN,
  to : {"sweep", "finish", "cleanup"}, told : BOOLEAN, gaveUp : BOOLEAN,
  how : {"none", "eof", "pipe", "told", "killed"}]

\* Every variable has its type, and no pool runs more than its threads.
TypeOK ==
  /\ dir \in [Dir -> [there : BOOLEAN, owner : Server \cup {Nobody},
                      record : {"none", "empty", "written"}, lock : Server \cup {Nobody},
                      files : SUBSET File]]
  /\ proc \in [Proc -> [st : {"free", "live", "gone"}, dir : Dir \cup {Nobody},
                        brief : Brief \cup {Nobody}]]
  /\ brief \in [Dir -> [Brief -> {"queued", "starting", "running"} \cup Over]]
  /\ \A d \in Dir : Cardinality(Working(d)) <= Parallel
  /\ sv \in [Server -> ServerState]
  /\ named \in SUBSET Dir

\* Nothing is ever deleted from a directory while a process that may write
\* into it runs: not by the run's own tidying, not by its cleanup after a stop
\* and not by a later server's sweep.
NoDeletionUnderWriter ==
  [][\A d \in Dir : ~(dir[d].files \subseteq dir'[d].files) => Marked(d) = {}]_vars

Using(s, d) ==
  sv[s].dir = d /\ sv[s].pc \notin {"off", "sweep", "opened", "idle", "exiting", "ended"}

\* A directory is worked on by one server at a time, and by another than its
\* owner only when the owner's process is gone, pool threads and all.
OneUser ==
  \A s, t \in Server, d \in Dir :
    Using(s, d) => /\ Using(t, d) => s = t
                   /\ s = dir[d].owner \/ Dead(dir[d].owner)

\* What is left on disk is accounted for: its owner record is there and
\* complete, so that a later server can reclaim it, or a reply that reached
\* the client names it; and a server that was interrupted in a run and cleaned
\* up leaves it only if a worker would not stop or something might still write
\* (_tag, _remove_copies, run_many, stops_held).
LeftAccounted ==
  /\ \A d \in Dir : dir[d].files # {} => dir[d].record = "written" \/ d \in named
  /\ \A s \in Server :
       Dead(s) /\ sv[s].how = "told" /\ sv[s].to = "cleanup" =>
         sv[s].gaveUp \/ sv[s].busy \/ ~dir[sv[s].dir].there

\* A server told to stop ends, whatever its workers and queued briefs are at.
StopEnds == \A s \in Server : sv[s].told ~> Dead(s)

\* What a dead server left is gone once a sweep has met it with nothing left
\* running in it, unless that sweeping server ends or another has taken it on.
Reclaimable(s, d) ==
  /\ sv[s].pc = "sweep" /\ d \in sv[s].todo
  /\ dir[d].record = "written" /\ Dead(dir[d].owner) /\ Marked(d) = {}

LeftoversReclaimed ==
  \A s \in Server, d \in Dir :
    Reclaimable(s, d) ~> \/ ~dir[d].there \/ Dead(s)
                         \/ \E t \in Server \ {s} : Using(t, d)

\* Copies that a delivered reply names are the client's: no server deletes
\* them.
HandedOverStays ==
  [][\A d \in named : dir'[d].files = dir[d].files]_vars
=============================================================================
