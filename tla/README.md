# Verification of auto-model-router

TLA+ models, model-checking runs and machine-checked proofs for the router in
`auto_router/`. Paths below are relative to that directory unless they say
otherwise.

    tlc -config <run>.cfg <module>.tla      model-checks one run
    tlapm <module>Proofs.tla                checks the proofs about one module

## 1. Inventory

The router sits between coding agents and language-model providers. Its parts,
the state each one keeps, and what must hold of it:

| part | files | state | operations | what makes it correct |
|---|---|---|---|---|
| Turn engine | `server.py`, `router.py`, `policies.py`, `verify.py` | per request: `result`, `tried`, three budgets, the kept unfinished answer, `checked`; per conversation: `floor`, `current`, what is warm | route a turn, call, verify, escalate, retry, reply; streamed and not, on two surfaces | a turn calls no route twice, pays within its budgets, never loses an answer it has, replaces one only for a stronger one; a client gets one whole stream; what is booked is what happened |
| Outcome memory | `outcome_memory.py`, `truncation.py` | recent outcomes per route | record, expire, ask | a route that keeps running out of budget is avoided only for one with at least its output |
| Policies, costs, records | `policies.py`, `economics.py`, `catalog.py`, `pricing.py`, `decision.py` | conversations, difficulty memory | choose a route for a turn or a job, say why | the record bears the choice out |
| Quota policy | `quota.py` | readings of a plan's windows, a cached decision | read, decide, forecast | a plan that is closed is not used for a new turn |
| Benchmark client, configuration | `bench.py`, `config.py` | memory cache, disk cache, bundled snapshot | fetch, fall back, load | no old or borrowed number passes for a measurement |
| Classifiers and judges, IRP endpoint | `jev.py`, `s1_router.py`, `route_head.py`, `irp.py` | a lazily loaded model, call slots | classify, judge, rank under a budget | every call ends and gives its slot back; a failure is never taken for a verdict; the ranking is what it says |
| Delegate server | `delegate.py` | scratch directories, owner records and their locks, a thread pool | start and sweep, copy, run briefs, diff, hand over, clean up | nothing is deleted under a writer; one server works on a directory; nothing is left unaccounted for; work stays in its copy and the reply says what is there |
| Launcher | `launcher.py` | `_INTERRUPTED`, signal handlers | decide, build an environment, run one job | a Ctrl-C keeps its grace |
| Child processes | `procs.py` | `_LIVE`, held and pending signals | run, stop, stop marked processes, scan | a stop ends the whole job, no stop signal is lost |
| Switch mode | `switch.py`, `server.switch_to_plan` | one state file, its `.tmp` and `.session` | hook, watcher, wrapper, hand-over | a blocked prompt is resumed, once, in the other mode |
| Subscription passthrough | `shim.py`, `plan_auth.py` | the tail of a forwarded stream | forward, watch for a length stop | what is booked is what the stream said |
| Stream translation | `stream_translate.py`, `translate.py`, `responses_api.py` | open content blocks | translate chunk by chunk | every block that is opened is closed, in order |
| Harness configuration, installer | `harness.py`, `installer.py`, `scripts/install-delegation.py` | agents' settings, backups, a manifest | configure, undo, choose a setup | undo restores what the user had, and never without a copy of it |
| Hardware detection | `hardware.py` | none | probe, recommend | what is recommended fits the memory together |
| Live experiments | `experiments/*.py` | a registration, two ledgers, a budget guard | register, amend, run, grade, report | no observation twice, no spending past a cap, nothing left out of a report |

How they interact. An HTTP request runs `Router.route` in a thread
(`asyncio.to_thread`), makes its upstream calls on the event loop, and runs the
judge and the verified escalation in threads again. So the turns of one
conversation interleave at every `await` and at every thread boundary; what
they share is `Conversation` (floor, current route), the outcome memory and
the quota readings. The delegate server is an MCP server on stdin whose workers
are launcher processes; it ends them through `procs`. Switch mode is three kinds
of process and the gateway around one file.

Processes share more than that: all gateways and launchers of one user
share the benchmark cache and the quota command's budget file, the installers
share the agents' settings with their users, and an experiment's workers share
a ledger and a cap.

The hard behaviours: two turns of one conversation; several retry rules that
share budgets; a stream that is collected, graded and dropped while its client
may leave; stop signals that arrive between any two statements; a scan of
`/proc` while processes fork and end; servers and experiments that die between
two file operations, and others that find what they left; files with several
writers. `PROJECT.json` lists each hazard with its line and the properties that
cover it.

## 2. Modules

| module | models | state and actions |
|---|---|---|
| `TurnService` | what a turn promises its client | calls made, reply given |
| `Gateway` | the turn engine and the outcome memory | one record per turn with the local variables of its handler; one action per step between two awaits or lock operations |
| `MCGateway` | a small catalog for TLC | |
| `GatewayProofs` | theorems about `Gateway` | |
| `Copies` | scratch directories of the delegate server | file system, processes, futures, the main thread of each server |
| `CopiesProofs` | theorems about `Copies` | |
| `Jobs` | `procs.run` under the launcher's signal handlers | the main thread, the handler on top of it, `_HeldSignals`, the job's processes |
| `SwitchMode` | switch mode | wrapper, child, watcher, a hook per prompt, a gateway request, the three files |
| `SwitchProofs` | theorems about `SwitchMode` | |
| `Translation` | `translate_stream` | the generator's local variables, the event it is suspended on, what a client knows |
| `Surfaces` | the other surfaces of the gateway, composed with `Translation` | the handler of one request, its calls, what was booked |
| `SurfacesProofs` | theorems about `Translation` and `Surfaces` | |
| `Values`, `Catalog` | Python's `None`; capabilities, prices, costs and success probabilities | operators on the record of a route |
| `Routing` | policies, quota pacing and its caches, the decision record | the conversation, the plans, three caches, calls under way |
| `RoutingProofs` | theorems about `Routing`, the operators of `Catalog`, `Classify`, `Ranking` and `Evidence` | |
| `Evidence` | benchmark client, its shared cache, configuration loading | files, processes that load |
| `Settings` | `harness.py`, `write_config`, `install-delegation.py` | settings files, backups, the manifest, one program at a time |
| `Machine`, `Installer` | hardware detection; what the installer asks and decides | operators; `Installer` composes them with `Settings` |
| `SettingsProofs` | theorems about `Settings`, `Machine` and `Installer` | |
| `Ranking` | the objective of the IRP ranking and what its docstring claims | operators |
| `Classify` | classifiers, judges, the IRP endpoint under a budget | calls, slots, the loaded model |
| `Delegation` | one message to the delegate server | the tree, its copies, the workers, the reply |
| `DelegationProofs` | theorems about `Delegation` and `Jobs` | |
| `Experiments` | registration, runs, ledgers, reports of the experiments | the directory, the process, what was billed |
| `ExperimentsProofs` | theorems about `Experiments` | |
| `MCParts` | the parts that share no state, one at a time | see section 3 |
| `MC...` | instances for TLC | |

Definitions under a comment that starts with
"Mutant:" are broken forms of the definition after them; they are used to
show that a property can fail, never by a specification.

### 2.1 Gateway

`POST /v1/chat/completions`, unstreamed. A handler's `pc` says where it waits:
`new` (before `Router.route`), `calling` (upstream), `judging`
(`Router.check`), `bumping`/`bumped` (inside `bump_floor`), `steppingUp`
(`escalate_after_verdict`), `raising` (between the read and the write of the
floor in `on_failure`), `done`. The trail holds a decision record for each route
adopted; the last one is `result`. The attempt loop is `AnswerComplete`,
`AnswerCut`, `CallFails`, `Judge`, `Escalated`, `Retry`, `GiveUp`, with
`Adopt` for `result = retry` and `AfterLoop` for what follows the loop.

A plan whose answer is rejected ends its turn: the retry's catalog has no plans, so
that `on_failure` does not find the route that failed and raises `KeyError`
(`RejectedPlanRaises`, a reply of kind `raised`, which is a 500). It takes a
`verify.always` that names a plan, which by default names nothing; `NoPlanGraded` says
that it does not, and is a hypothesis of the theorems that need it (section 6).

`FloorIsEarned` is about the floor of a conversation with several turns at once: a
value that was read, raised and stored around another turn's store may be too low
(`FloorNeverDrops` fails), but it is never one that no call has shown: the level of a
route that was called, the difficulty of a turn, or the judge's bound after a
rejection that is on record. A judge that cannot be reached raises nothing.

Data is abstracted to what the rules tell apart. Costs and success
probabilities are not computed: where the code takes the cheapest of a set, the
model takes any member. A conversation is one object, the outcome memory has one
comparable key, and `OutcomeExpires` stands for the TTL. `LoopFree` says that
the event loop is one thread: on the failure path `on_failure` runs on it, on
the others in a thread of its own.

`TurnService` promises: different routes one after another, at most
`MaxAttempts`; an answer only if a complete one was received, a partial answer
only if a truncated one was, an error only if no truncated answer is in hand.
`Gateway!ServiceKept` instantiates it with the trails and replies, liveness
included.

Fairness: weak fairness of each turn's own steps. Upstream calls and judges have
timeouts, threads are scheduled. Requests, quota changes and expiry have none.

### 2.2 Copies

The life of a scratch directory: `mkdtemp`, owner record (created, then
written and locked), the copies, parallel workers, collection of results,
removal of unchanged copies or hand-over in the reply, removal of the record
once the reply is out; and the other ways out: a failed copy, a stop in any
state, a second stop, a stop held by `stops_held`, SIGKILL, a reply that cannot
be written. A later server sweeps: it lists the directories once, opens each
record, asks whether its owner lives and its lock is free, stops marked
processes in up to four rounds, scans the process list, and removes file by
file. A lock belongs to a file, not to its name: a server that opened a record
before it was unlinked locks the unlinked one.

A server that has ended its main thread still joins its pool threads
(`exiting`), as the interpreter does. Processes that outlive their worker
(`Detach`) carry the directory in their environment, fork and exit while a scan
reads the list first and each process after.

Not in it: a single worker in place (it owns no directory), a nested server
inside a worker's job, which marks itself through `lineage_carries`, removals
that fail (`_remove_copies` ignores their errors and removes the record all the
same), and processes a scan may not inspect (another user's; they count as in use,
which only keeps copies longer). The contents of copies and diffs are in `Delegation`.

Fairness: servers go on, workers that are told to stop do. Nothing else: a
server need not be told to stop, a client need not call.

### 2.3 Jobs

`procs.run` on the main thread of `route-run`: hold the handlers, fork, register,
release, `communicate`, check for leftovers, `_stop`, unregister. Signals arrive
between any two steps; a handler runs on top of the main thread and a second one
on top of the first, and an exception ends them all. `holding` and `pending` are
the fields of the `_HeldSignals` in use, `put` the signals whose handler it is:
handlers are exchanged one at a time. `Reaction` is the launcher's
`_interrupt_once` and `_exit_on_signal`.

`Window` says whether a signal may arrive while handlers are being exchanged,
which includes the moment between the raise of an exception and the first
exchange. With `TRUE` the code fails (run `jobs_window`); with `FALSE` all
properties hold. SIGHUP is treated as SIGTERM, like the code does.

Fairness: the main thread and its handlers go on (`terminate` is bounded by its
deadlines); the job may run for ever and ignore SIGTERM.

### 2.4 SwitchMode

`run` is `Launch`, `ChildEnded`, `Read`, `Unlink`, `Clean`; `_watch` is
`WatcherSees` and `WatcherActs`; `_hook` is `HookStarts` to `HookBlocks`, one
process per submitted prompt (`Again` is the hook of the prompt a restarted child
was given); `switch_to_plan` is `Stuck`, `RequestWrites`, `RequestRenames`.
Claude Code and its user are external: prompts, quitting at any time, hooks
ended by their timeout. Hooks and requests outlive their child and write later.
`write_state` is two steps on one `.tmp` name that all writers share; a write of
that file is one step, because its content fits one `write` call.

`replaced` collects the prompts over which another switch was written, in the file
or in the temporary one, and nothing else: a removal, be it by the wrapper after it
has read the file or at the end of the session, adds none. So `OnlyReplacedLost` says
that no removal loses a prompt whose block message has promised that it resumes.

A prompt is an identity: the digest of `AUTO_ROUTER_SWITCH_RESUMED` compares
the stripped prompt with itself, so that stripping a `~plan` needs no model.

Fairness: the wrapper and its watcher go on; Claude Code ends when it is sent
SIGTERM. Hooks and requests may hang.

### 2.5 Surfaces and Translation

`Translation` is the generator of `stream_translate.py`: one action per event it
yields, suspended until its consumer has taken it. A client is a reader of
Messages events that becomes "confused" when one does not fit what came before.

`Surfaces` is one request: the OpenAI stream (sent on, or collected, graded and
released), Anthropic messages streamed (through `Translation`) and not, the two
passthroughs of plan traffic with their watcher for length stops, the hand-over
of a stuck turn, and every other path. The client may go away at any time, an
upstream fails before, during or after its stream, a collected stream is
dropped for a stronger route's up to `MaxEscalations` times (a stream that is sent
on as it comes is followed by another on request, whatever the budget). `BooksHonest` has
two parts: what is booked for a call is what became of it (`OutcomesHonest`),
and the meter, the memory and the record agree (`BooksAgree`). `AnswersHeldBack`
says that what is graded before it is shown is one call's and not a rejected one.

### 2.6 Catalog and Routing

`Catalog` computes what `Gateway` abstracts: capability of a route for a
category, price of a call with and without a warm prefix, success probability,
expected cost. Numbers are integers (tenths, whole points) and divisions
round down, where the code has floats; so a property here speaks of orders and
comparisons, not of rounding. The logistic function is a constant of which only
its monotony is assumed (`LogisticRises`).

`Routing` is what one conversation is routed to under each of the six policies,
what a launched job is, what the provider still holds warm, and the pacing of
plans behind three caches (the quota command's file, the router's 60 s cache,
the reading itself). A decision is one step, calls end later in any order, time
passes between steps. The record of a decision is computed by operators of its
own, as the code does, and `RecordExplains` compares it with the choice.

### 2.7 Evidence

Processes load a configuration document by document: memory, fresh disk copy,
network, stale disk copy, snapshot. A fetch is in steps, since others write the
same temporary file and rename it over the same cache: a name leads to an inode,
and who opened the temporary file before it was renamed writes into the cache.
There is one inode more than processes, since each may hold one open and the cache
one. A document is its path and the tick at which it was served.

### 2.8 Settings, Installer, Machine

A settings file is the version of the user's own text, whether a program can
rewrite it without loss, and the router's entries with who owns each. Programs
run one at a time, step by step, may die between two steps; users edit and
delete files between the runs. `users`, `theirs` and `others` are bookkeeping for the
properties: the text users last gave each file, what they had under the router's
names, and the files that configure and another installer share with nobody.
`Installer` chooses what to run from flags,
answers, keys, servers that answer and the machine `Machine` describes.

### 2.9 Classify and Ranking

Calls of every backend, several at once: retries, a model loaded under a lock,
a classification that outlives its budget and keeps its slot, answers that do
not parse. The waits between retries and the texts are left out.

### 2.10 Delegation

One message from arrival to reply: the checks of the JSON-RPC envelope and of
the arguments; the copy of a tree whose owner goes on editing it, entry by
entry; the judging of links; the environment each worker is given through
launcher and route; what workers and their leftovers write, through links too;
the diff and the reply. A tree is three paths without directories; texts are
classes (plain, other newlines, binary, too large, locked). The scan for
writers before the reply is one step here; that it is none is in `Copies`.

### 2.11 Experiments

The registration of a directory, edits of what it names (sources,
configuration, product, history), amendments, up to two launches of one of four
programs with up to two workers, crashes between any two steps, the two
ledgers with a torn last line, the budget guards, the reports. One process runs
on a directory at a time, which the programs do not enforce. An attempt is
billed at most `BilledToList` times its list price; an answered call without a
reported cost is billed at list price. A torn append is an unreadable line. A
directory is registered again only while it has no rows.

## 3. Runs

| run | configuration | shows |
|---|---|---|
| `gateway_turn` | 1 turn, 5 routes (2 below the reference, 1 cheap, 1 strong, 1 plan), 5 attempts, 1 truncation retry, 2 escalations | all safety properties of one turn, the floor, `ServiceKept`, every turn replies |
| `gateway_concurrent` | 2 turns of one conversation, 2 plan routes that open and close, one graded, 2 attempts | the floor is one that a call has shown, whichever write is the last; no route at the start, none left for a retry, a rejected plan |
| `gateway_dropped_answer` | violation | section 6 |
| `gateway_floor_race` | violation | section 6 |
| `copies` | 3 servers, 1 directory, 2 briefs, 2 processes | deletion, ownership, records, clean stops (`LeftAccounted`) |
| `copies_liveness` | 2 servers, 1 directory, 2 briefs, 3 processes | stops end, leftovers are reclaimed |
| `copies_late_fork`, `copies_hand_over` | violations | section 6 |
| `jobs` | 3 processes, 4 signals | nothing left, all signals delivered and none swallowed (`StopsArrive`), grace kept, a stop ends |
| `jobs_window` | violation | section 6 |
| `switch_mode` | 2 prompts, 1 stuck turn | switches are kept, do not bounce, and are served |
| `parts` | one part at a time, below | the properties of `Surfaces`, `Routing`, `Evidence`, `Installer`, `Classify`, `Delegation` and `Experiments` |

`parts` checks seven specifications in one run: `MCParts` chooses in its
initial state which part moves, and the others rest in one state. They share no
state in memory, so that nothing is lost by not interleaving them; each could
be a run of its own with the same constants. Its bounds: `surfaces` one request
of each kind, streams of up to 3 lines of 9 shapes, 2 tool calls, 5 routes, 2
escalations;
`routing` two priced routes and two plans, 1 to 3 turns or jobs, time up to 3
with caches that live 1 or 2 ticks; `evidence` two processes, two loads, two
models the API documents, a clock of 3 with a cache that lives 2; `settings` six
user's homes and every installer choice on 22 machines, 3 runs, 1 edit;
`classify` two calls at once, one slot, 3 questions; `delegation` the malformed messages
and four trees, 2 writes, 1 edit by the owner; `experiments` eleven directories,
2 launches, 1 crash, 1 or 2 edits.

Why the bounds are enough. `gateway_turn`: five attempts spend every budget and
leave one over; five routes have a pair at each distance the step-up rules
tell apart. Two turns are what a race needs. `copies`: an owner that dies and two
sweepers of its directory; one worker queued behind another (`Parallel = 1`);
one worker and one detached process, three where forks and listing matter. A
second directory adds nothing to the interactions, since directories share only
the process list; a run with two directories and two servers was made and
passes. `jobs`: a leftover that forks; four signals put one in each phase (start,
wait, stop, delivery). `switch_mode`: two hooks and one request are the three
concurrent writers a single file can meet; launches are bounded by prompts
and hand-overs. `parts`: three lines hold text, an opened tool call and a
fragment after it; a third tick lets a floor rise, decay and count, and every
cache be read fresh, stale and expired; a configure, an undo and one more
with an edit in between is the shortest way to every state of the manifest; two writes
make a link and write through it; a second launch resumes after a crash.

`CHECK_DEADLOCK FALSE` stands where the system really stops: all servers
ended, the job over, the wrapper over, the request answered, the run finished.
The gateway has an explicit idle step instead.

## 4. Proofs

TLC checks small instances; the theorems below hold for every value of the
constants that satisfies the assumptions the modules state (`RoutesAssumption`
and `NumbersAssumption` of `Gateway`, `SwitchAssumption` and `NoneAssumption` of
`SwitchMode`, `CopiesAssumption`, `JobsAssumption`, `SurfaceRoutes`, and of
`Routing` `Models`, `RoutingNumbers` and `SetupsTyped`, of `Classify`
`ClassifyNumbers`, `AnswersTyped` and `BodiesTyped`, which say that there are
finitely many routes and callers and what type each field and number has). For
`Delegation`, `MessagesTyped` says what a message to the delegate server holds; for
`Experiments`, `ExperimentNumbers` and `ExperimentsTyped` say the same of prices,
limits and commands, `PlansOnce` that a command names each arm, task and
label once, which the task files promise and `tests/test_heldout.py:33` and
`tests/test_supplement.py:43` check, and `DirectoriesInOrder` that the earlier run
a report pools has one row per observation, that only heldout may be registered
without a configuration, and that a design run asks for what it registers under
one name. For `Evidence`, `EvidenceNumbers` and `ConfigsAsk` give its bounds and
what a configuration asks for their types; for `Machine`, `ModelSizes` says that a local
model's file is no larger than the memory it asks for, which is so of every entry
of `data/local_models.json`; for `Settings`, `HomesFound` says that a home holds none of
the router's entries in the files users edit before configure first runs there. A
theorem that needs more says so in its statement, and the table says why.
`PROJECT.json` lists the theorems with the property each one states.

| module | theorems | further hypotheses |
|---|---|---|
| `GatewayProofs` | `TypeCorrect`, `RoutesOnce`, `UnfinishedSurvives` | `RoutesOnce`: not under the fixed policy, which retries its own route by design; `UnfinishedSurvives`: `NoPlanGraded` |
| | `BilledTheorem`, `RejectionTheorem`, `StepUpTheorem`, `FloorEarnedTheorem`, `ServiceTheorem`, `FloorTheorem` | `StepUpTheorem`: not under the fixed policy, and `verify.min_capability_gain` above 0 (with 0 an equally capable route may be taken); `ServiceTheorem`: not under the fixed policy, and `NoPlanGraded`; `FloorTheorem`: one turn at a time |
| `SurfacesProofs` | `WellFormedTheorem`, `HandlerTheorem`, `AnswersHeldBackTheorem`, `BooksHonestTheorem`, `ClientUnderstandsTheorem` | none |
| `CopiesProofs` | `OneUserTheorem`, `LeftAccountedTheorem`, `NoDeletionTheorem`, `TypeCorrect` | `NoDeletionTheorem`: `LateFork = FALSE`; `TypeCorrect`: finitely many briefs |
| `SwitchProofs` | `TypeCorrect`, `StoppedResumed`, `OnlyReplaced`, `GivenStays`, `RestartChanges` | none |
| `RoutingProofs` | `RoutingIsSound`, `PlansWereOpen`, `WarmWasHeld`, `RecordsExplain` | none |
| | `CallsStaySettled`, `CallsAreSettled`, `RankingsAreSound`, and `CostFallsWithPreference`, which the docstring of the IRP ranking claims | none |
| | `MeasurementsAreCurrent` | `MaxSlow < TTL`: a load takes less time than a cached document stays fresh, which is a day (`bench.py:55`) |
| `DelegationProofs` | `DelegationHolds`, `WorkIsContained`, `RepliesTellAll` | none |
| | `NoneLeftTheorem`, `StopsArriveTheorem`, `CtrlCKeepsGraceTheorem`, about `Jobs` | the first two: `Window = FALSE` |
| `SettingsProofs` | `UndoIsSafe` | none |
| | `InstallsAreSound` | what the installer is asked is what it makes of some machine, flags, keys, servers and answers |
| `ExperimentsProofs` | `SpendWithin`, `EvidenceOnRecord`, `ReportsAreHonest` | none |

Three hypotheses are not conveniences: without them the property is false, and a
run shows it. Two turns at once lose a proof of difficulty (`gateway_floor_race`),
a late fork defeats the scan (`copies_late_fork`), a signal in the exchange of
the handlers leaves a job running (`jobs_window`).

### 4.1 Turn engine

`Invariance` is `Spec => []IInv`. A step changes the record of one turn, so
`IInv` is a predicate `TurnInv` on that record plus the types of what the turns
share. `NoRouteTwice` alone is not inductive: it needs that `tried` covers all
routes of the trail but the last (`TriedCovers`); the bound on escalations needs
that those on record and those left add up (`Paid`, with one more while a step
up is under way, `Escalating`); the kept answer needs `FirstCut`. There is a
lemma per operator of the attempt loop (`ObserveInv`, `FailInv`, `AfterLoopInv`,
`AdoptInv`, `EscalatedInv`) and one per action.

A second layer, `AInv`, is about the answers: what was billed and what is
left of two budgets never add up to more than they began with (`Spent`), each
pair of neighbours in the trail is a legitimate replacement (`Replaced`), how
the last call stands at each place of the handler (`Standing`), and what the reply
may be after what its calls returned. Every action is shown to leave what the calls
of a trail returned as it was (`SamePast`) or to add one outcome (`OneMore`), and
the refinement is argued from that. `ServiceTheorem` is the refinement of
`TurnService`, step by step: initial states map to initial states, and each step
to a call, a reply or a stutter. The service's fairness is not part of it.
`FloorTheorem` is an action property; `FloorInv` says that a value about to be
stored is no lower than the floor it was computed from, which is what a second
turn would break. `FloorEarnedTheorem` needs no such hypothesis. Its invariant `EInv`
says of every value a turn may be about to store, however old the floor it was
computed from, that what has been tried so far shows it (`Deserved`). What has been
tried only grows (`TriedGrows`); a rejection is on record once its verdict is final
(`Spurned`), which the judge's next verdict does not undo because the answer it
replaced is behind it in the trail (`SpurnedStays`).

### 4.2 Surfaces

One proof in three layers. `Numbering` is the generator's invariant: the two
index spaces never meet, a block is closed after it is opened and none stays open
at the end. `InStep` is what a client knows that took everything yielded so far;
every step of the generator keeps a client in step (`KeepsStep`, one lemma per
yield), which gives `WellFormedTheorem`. `HInv` is the handler's: where it
stands decides which fields may be set (`Placed`), which calls the client has
been shown (`ShownInOrder`), what is booked for the current call and for the
earlier ones (`CallBooks`, `TrailBooks`), when a rejected answer may be kept
(`RejectedKept`), and where nothing is on its way to the client (`Quiet`).
`AnswersHeldBack` and `BooksHonest` follow from it. `ClientUnderstands` needs the
client too: `LinesInv` for the OpenAI stream, and `MessagesInv` for Messages,
where a stream that is being held back is a promise: `Reads(c, s, d)` says that a
client that is `c` reads the events `s` without confusion and is then `d`, and it
is carried from the collector (`ReadsMore`) to the release (`ReadsFirst`).

### 4.3 Copies and Jobs

The invariant of `Copies` has a part per server (where it works and with what
right, `Place`; what it has recorded, `Tagged`; that no future runs where it
scans, `Settled`; what a finished cleanup left, `Cleaned`), one per directory and
one per process. `Effect` is what a step of one server may do to the others',
proved once per action. `OneUser` rests on the lock: a sweeper has it and the
owner is gone, and a dead owner stays dead. `NoDeletionTheorem` adds `ScanInv`:
as long as nothing was found, the processes on the list read first are all there
are.

The invariant of `Jobs` says whose handlers are in place at each step (`Held`),
that every signal was seen or waits (`Counted`), where `run` is with its job
(`Staged`), where nothing of the job can live (`Empty`) and that a raised stop is
on its way to the caller (`OnItsWay`).

### 4.4 Switch mode

The invariant has a named part for each actor. A payload, a hook or a request
may outlive the Claude Code it was made for, so each carries the launch it was
made for, and what it says of a mode is claimed only while that launch is the
latest (`SoundPayload`, `SoundHook`, `SoundRequest`). A launch raises the number,
which makes every older claim void (`LaunchStep`). `OnlyReplacedLost` is not
inductive: a prompt is promised after its switch has been renamed, perhaps long
after, so `Tracked` follows it from the temporary file on, for as long as the Claude
Code its hook serves runs (`Heard`, `LiveStep`), through `KeptStep` and `TmpStep`; a
hook that outlives it promises nothing to anyone, which is why what is removed after
it has ended was promised to no one. `StoppedIsResumed` needs `Running`: a watcher that settles has a file
to read for as long as its child lives.

### 4.5 Routing

The choice of a route is arithmetic on a catalog, so most of the proof is about
the operators. Every amount that is compared is an integer, for every route,
request and state of the conversation (`CallCostIsNumber`, `SuccessIsNumber`,
`ValueIsNumber` and the lemmas before them); a finite set of candidates therefore
has a least one (`LeastExists`, `FirstIsLeast`), and a choice is one of them
(`TargetRange`, `CheapestRange`, `OnFailureRange`, `TierRange`).
`ChoiceJustified` has a case per policy: a choice is a candidate, whose plan is
open in the snapshot the decision was made from, or the route the conversation is
on where the policy may stay; and what policy F chose is least among what
`Evaluate` ranks from the same state. `AvoidJustified` says the same of a choice
the truncation memory replaced.

The costs over several calls and the halving of the difficulty are recursive
functions. That they are defined and yield integers needs an induction, which is
made without the library's induction theorems: `NatLeast`, a set of naturals with
a member has a least one, follows from the well-foundedness of inclusion on
finite sets, and `Climb` from it.

`Sound` is the invariant on the state. `Fresh` says that a plan believed open was
below its hard stop at some time within `max_staleness_s` of the moment it was
read, `Heard` that whatever a command's cache holds was measured at some time so
far; together they bound the age of what a decision uses, through both caches.
`CallsHeld` and `WarmHeld` say that a prefix counts as warm from the start of a
call, before its provider lets go of it; neither depends on the order in which
calls end. `WithoutPlan` says that a policy that may not use plans is on none,
which is needed because `C_ev_switch` may stay where it is.

### 4.6 Classify and Ranking

A step of a call changes its own record and what all calls share: the loaded
model, its lock, the slots. `StepSettles` says once what a step owes the others:
either it leaves lock and session alone, or the lock was free or its own
(`Loading`); and it changes the number of free slots as it changes whether its
call occupies one (`SlotsKept`, the only place where sets are counted). One lemma
per action then looks at one record. Neither half of `CallsSettled` is inductive:
`OneSession` needs that whoever loads holds the lock and found no session under
it, and that a session seen by others has its tokenizer unless the model is the
route head (`OneModel`); `BasisHonest` needs that no backend calls itself "busy"
and that a failed call says so (`Based`).

`RankingSound` is arithmetic. A ranking is computed from a body that was accepted
and a difficulty that is a number whatever the classifier did
(`RankRequestNumbers`); a candidate costs no more than the bound checked before
because more output never costs less (`PriceGrows`); there is a dearest candidate,
so the scale is a number (`ScaleIsNumber`); and two optima at two preferences are
ordered by cost (`TwoOptima`), whatever decides a tie. The code divides floats; so
the theorem, like the run, is about the order of the exact values.

### 4.7 Evidence

Processes share names, not files, so the invariant is about inodes. `Inode`: the
document in an inode was served no earlier than `MaxSlow` before the inode's
modification time, whoever wrote it last and under which name. `Overwritten`: a
process that is about to write or rename finds under the temporary name what was
written since it started, by itself or by another. `StillFresh`: a process that found
the cached file fresh may read another in its place, but none that was served too
long ago. That there is an inode to open is a pigeonhole (`InodeLeft`).
`LoadGrounded` then goes through what a load makes of its documents: a strength taken
from a neighbouring index or another model is never "direct" (`CombinedDirect`,
`ModelDirect`, `SameStrength`), so that a direct one leads back to a document whose
age is known (`Grounded`).

### 4.8 Delegation

`Reach` follows links through three paths at most, which is as many as a tree here
has; `ReachSteps` says it in steps, and everything about links rests on it.
`DelegationInv` has a conjunct for where things are (`Shaped`), for links
(`Contained`: nothing leads out of what copies are compared with, and out of a copy
only where its own worker made a link, which the model records), for a reply being
put together (`Reading`) and for one that went out (`Told`: what is said of a copy is
what it holds unless something still writes, and then its record stays). `VettedHolds`
is why the copies start contained: all links are judged on the finished copy, so
none leads out after those that do are gone. `NoNewEscape` is why they stay so: what is
no link lets no other link lead out. `RepliesTellAll` also needs that a diff names
every way in which two trees can differ (`DiffSaysAll`).

### 4.9 Machine and Installer

`DetectedMachine` says what every probe agrees on: memory is shared with the processor on
Apple cards only, sizes are naturals, one kind of card counts. From it come
`BonsaiFits` (the small and the large local model), `JevPick` and `DeviceFits` (the
classifier), and `ReservedIsEnough`: what is reserved for one is what it takes where
the other looks. `RecommendationFits` puts them together, also where one is on the
card and the other on the processor of the same Apple machine, where both come from one
memory. `RenderedLoads` and `SettledClassifier` go through what is written: every
route names a provider that is rendered, and the classifier is one that was chosen or the
rules. The invariant itself only says that what is pending was asked for.

### 4.10 Settings

Four programs edit seventeen paths, each may die after any step, and users
edit in between, so the invariant is about one path at a time: `PathOk` relates the
file, the copies of it, the user's text and names, and the records of it still to be
undone (`Pending`, which is the manifest, what configure has recorded so far, or what
undo has left and kept). Its parts: `TextKept`, the user's text is in the file or in a
copy; `TheirsKept`, the same of each name, and a record that took one over is not
older than the copy that holds it; `Recorded`, every record that names a copy has one of
its own; `Accounted`, every entry of configure in the file, and in each copy, belongs to
a record or a marked block, those in a copy to an older one; `Grown`, a file that is
there only because configure made it is what its last record left, and each record found
what the one before left; `Younger`, the same reckoning for a text that another installer
began. `RuleTracked` is the form of it for the Cursor rule, which is a whole file.
`UndoRestores` is not inductive without any of them: that a finished undo leaves nothing
rests on what each copy holds when its record is undone.

A lemma per operation then works on one path, for any records: a first edit with its
copy and record (`FirstEdit`), a later one (`LaterEdit`), a record undone where the
file was changed since (`ChangedSince`), where it was created (`CreatedGoes`), where a
copy comes back (`CopyComesBack`), an edit by install-delegation (`OthersEdit`,
`OthersRule`) and by users (`EditedByUser`, `DeletedByUser`). `Renumbered` says that
only the order of a path's records counts, which lets undo drop or keep one anywhere.
`EditKeeps`, `DropKeeps` and `FileMovesKeeps` lift each to the state, where `ProcOk`
says where the running program stands; the lemma of an action only finds the operation
it performs. `InvGivesRestores` reads the property off.

The proof corrected the property. It had asked that after an undo every file that is
there, or was last written by install-delegation, holds that writer's text. The
homes of the run do not refute that; others do, in three or four programs: see section 6.

### 4.11 Experiments

Amounts are totals over finite sets of calls, rows and workers. A total is a fold,
which the prover cannot unfold; `TotalIs` and `SubsetSumsExist` give it the form of a
recursion over subsets, and from the well-foundedness of inclusion follow how it
changes with one summand (`TotalChanges`), its bounds (`TotalCapped`), that it
splits (`TotalSplits`) and that a part of natural amounts is no more than the whole.

`Money` is the invariant for the limits. None of them is inductive alone: what is
spent is bounded by what the client checked plus what each worker may yet have
billed (`OwedBy`, an attempt that is out; `DueBy`, all attempts of its key), and the
reservation of the supplement is the budget plus what its workers hold (`HeldBy`),
which is how the guard's arithmetic becomes a cap. `Observations` is the invariant for
the ledgers: the keys of a plan are there once, apart from those in hand and from the
rows (`Apart`), a run works with a version the registration names, and a design run
asks for what is in no ledger. `Reports` adds what is read back: what a worker
carries was logged before it is graded, so that rows and workers together cost no more
than the calls as long as no line was cut off (`Paid`); a failed call is graded as
one (`Carried`, `RowIs`); and a registration that is not amended supersedes nothing
(`Pinned`), so that the version a row names is the current one. `PairsAccount` is about
the accounting itself, for any rows of registered tasks.

### 4.12 What stays model-checked

Liveness, which the prover cannot state under fairness: `EveryTurnReplies` and
the liveness half of `ServiceKept`, `StopEnds` and `LeftoversReclaimed` of
`Copies`, `StopEndsRun` of `Jobs`, and the switch that is served. Every safety
property a passing run checks is stated by a theorem.

## 5. Not modelled

`PrefixCacheIndex` (only tests use it), `smoke.py` (the doctor), the offline
experiments, their graders and task files (programs that read files and print),
`simulate.py`. Of the modelled parts: request translation and the header rules of the
passthroughs (data shaping without state), `from_codex_rollouts`, pidfds and
the reuse of a process number in `stop_marked`, wording, logging and layout,
command-line parsing, downloads, what upstream providers answer. In `Gateway`,
prices and probabilities are abstracted to "some member of the set the code
minimises over"; `Routing` computes them, in integers.

## 6. Where the code and its documentation differ

With a run:

* `gateway_dropped_answer`: a complete answer that the judge rejected is lost
  when the stronger route fails, or when no attempt is left; the README says
  the turn is re-run and one of the two answers returned.
* `gateway_floor_race`: `EscalatePolicy.on_failure` reads and stores the floor
  without `Router._lock`; with two turns one proof of difficulty is lost.
* `copies_late_fork`: a marked process that forks after the process list is read
  and exits before it is looked at hides its child; the copies are deleted
  although it may write into them. `copies` therefore has `LateFork = FALSE`.
* `copies_hand_over`: a sweep that opened the owner record before the owner
  handed the copies over and ended deletes what the client was given.
* `jobs_window`: a Ctrl-C between the raise of `TimeoutExpired` and the first
  exchanged handler leaves the agent running.

Seen while modelling, without a run:

* Turn engine. With a plan in `verify.always`, a rejected plan answer ends in `KeyError`
  and a 500 (`policies.py:372`, on a catalog without plans, `router.py:912-917`); the
  truncated answer that is kept for the case that no route finishes
  (`server.py:298-301`) is lost, and so is the complete one (`NoPlanGraded` excludes it
  where it matters; TLC finds both once `Cheap` of `GatewayOne.cfg` contains `plan`).
  `chat_completions` offers plan routes to callers who do not carry the plan's login
  (`server.py:291` against `router.py:280-284`); inside a tool
  loop a turn stays on a plan that has closed; a configuration with plans only names
  a list-price model that is not in it, so that the plan counts as free.
* Switch mode. A blocked prompt is lost when a second switch is written before
  the first is read, although its message said that it would resume
  (`switch.py:253`; by `OnlyReplacedLost` no other step loses one, no removal and
  no end of the session).
* `terminate` returns after SIGTERM when the group is empty, so that a linked
  descendant outside the group gets no SIGKILL (`procs.py:341` against
  `procs.py:16-20`).
* Delegation. A copy whose diff fails is meant to be kept (`delegate.py:877`), but is
  deleted when no other copy is named, and stays unnamed and unprotected when one
  is; a brief longer than a command-line argument raises `OSError` although the
  schema allows it; a change of newlines only is listed as modified with an
  empty patch; a link that leads out only over another link the worker changed
  is not in `links_leaving_copy`.
* Settings. The manifest is written once, at the end of `configure`: an unknown
  harness name, an `OSError` or a crash before that leaves edits no undo knows of
  ("Every change is recorded"); undo removes a skill directory the user has
  edited, leaves JSONC entries it says it removed, and after a crash deletes a
  forced-over entry it had just restored; it takes an entry for its own by its name, so
  that one `install-delegation --force` has put in place of it since goes too, and the
  file with it when that leaves what configure created, and it deletes a Cursor rule
  `install-delegation` has written since, because the text is the same; a file
  configure created stays, empty, when `install-delegation` emptied it (which is why
  `UndoRestores` excepts the files in `others`); a rerun keeps an edited configuration
  only if its first line was changed (`installer.py:105-106`);
  `install-delegation --force` removes command-line entries without a copy and
  loses them when the following `mcp add` fails. On Apple hardware no memory is
  reserved when the small model falls back to the processor.
* Classifiers. The hosted `classify` and `judge` "never raise", but
  `AttributeError` and `OverflowError` are not caught; a judge
  `same-as-classifier` with a local letter model raises at startup.
* Experiments. A changed configuration file can never be amended, although the error
  says to; the budget guard reserves a whole run's budget and never
  releases it, so that a budget equal to the headroom allows no call; "the most a
  single call could possibly cost" ignores the billing ratio and the attempts;
  spending is undercounted after a torn ledger line, and counted for the directory,
  not the run; "never re-ask" holds only if the call was logged
  before the crash; an unreadable row stops every later launch and report;
  registering again overwrites a registration.

## 7. Plan

Done: everything in section 2, and the proofs of section 4. What is left is outside the
reach of the prover (liveness) or of this model (section 5).
