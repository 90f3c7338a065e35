----------------------------- MODULE Experiments -----------------------------
(***************************************************************************)
(* The live experiments: a directory that is registered before any model   *)
(* is asked, four programs that ask and grade over one client, the two     *)
(* ledgers they append to, and what the reports read back from them        *)
(* (experiments/llm.py, heldout*.py, supplement.py, design_supplement*.py, *)
(* pairing.py, evidence_verify.py).                                        *)
(*                                                                         *)
(* Money is counted in list prices of one metered call. `billed` by calls   *)
(* that were logged and the calls `lost` at a crash are what the providers  *)
(* know; no program reads them.                                            *)
(***************************************************************************)
EXTENDS Values, SequencesExt, FiniteSetsExt

CONSTANTS
  Experiment,        \* the experiments a directory may be registered for
  Retries,           \* further attempts of one call of the live programs
  BilledToList,      \* BILLED_TO_LIST_RATIO
  DesignMultiplier,  \* BILLING_MULTIPLIER
  MaxLaunches, MaxCrashes   \* bounds; an experiment bounds the edits and the grades

VARIABLE x   \* the directory, the process that runs, what the providers billed

RouterArm == "router"
Tag(key) == key                                   \* heldout:<arm>:<task>
Label(c, arm) == IF arm = "control" THEN c.label ELSE arm
Recorded(c, key) == <<key[1], Label(c, key[2])>>

IsDesign(exp) == exp.runner \in {"design", "design2"}
Changed(a, b, of) == {p \in of \cap DOMAIN a : a[p] # b[p]}
----------------------------------------------------------------------------
(* The registration *)

\* What each program compares before it asks anything. The configuration file
\* itself is registered by all and compared by all but heldout; the identity
\* of policy and catalog may move without any file, when the numbers behind
\* the routes do.
HeldoutCompares == {"tasks", "plan", "code"}
SupplementCompares == {"tasks", "plan", "code", "product", "config", "identity"}
DesignCompares == SupplementCompares \cup {"history"}
Compares(exp) ==
  CASE exp.runner = "heldout" -> HeldoutCompares \cup {"identity"}
    [] exp.runner = "supplement" -> SupplementCompares
    [] OTHER -> DesignCompares

Registration(now) == [first |-> now, current |-> now, superseded |-> {}, amended |-> FALSE]

\* The design supplements are registered once, and only while the earlier
\* runs are as they were; the others may be registered over again.
\* (As an operator would: not over rows that are there.)
Register ==
  /\ x.run = None
  /\ IF IsDesign(x.exp) THEN x.reg = None /\ Changed(x.now, x.base, {"history", "identity"}) = {}
                        ELSE x.rows = <<>> /\ (x.reg # None => x.reg.current # x.now)
  /\ x' = [x EXCEPT !.reg = Registration(x.now)]

\* A deliberate change goes on record; the digest of the configuration stays
\* as registered, and the tasks cannot be amended.
Amended(parts) ==
  x' = [x EXCEPT !.reg =
          [first |-> x.reg.first, superseded |-> x.reg.superseded \cup {x.reg.current}, amended |-> TRUE,
           current |-> [p \in DOMAIN x.reg.current |-> IF p \in parts THEN x.now[p] ELSE x.reg.current[p]]]]

AmendHeldout == Amended({"code", "plan"})
AmendSupplement(withConfig) ==
  Amended({"code", "product", "plan"} \cup (IF withConfig THEN {"identity"} ELSE {}))

Amend ==
  /\ x.reg # None /\ ~IsDesign(x.exp) /\ Changed(x.now, x.reg.current, Compares(x.exp)) # {}
  /\ IF x.exp.runner = "heldout" THEN AmendHeldout
     ELSE \E withConfig \in BOOLEAN : AmendSupplement(withConfig)

HeldoutDrift == Changed(x.now, x.reg.current, HeldoutCompares)
\* A registration without a configuration pins no routing arm.
PolicyMoved == x.exp.pinned /\ Changed(x.now, x.reg.current, {"identity"}) # {}
SupplementDrift == Changed(x.now, x.reg.current, SupplementCompares)
DesignFailed == Changed(x.now, x.reg.current, DesignCompares) # {} \/ x.reg.amended
Design2Failed == \/ DesignFailed
                 \/ Changed(x.now, x.base, {"identity", "history"}) # {}

\* The sources, the configuration or the numbers behind it change, or are
\* put back, whatever runs.
Alter(p) ==
  /\ x.edits < x.exp.edits
  /\ x' = [x EXCEPT !.edits = @ + 1, !.now[p] = 1 - @]
----------------------------------------------------------------------------
(* What a call costs *)

PricedAt(exp, arm) == IF arm \in exp.free THEN 0 ELSE 1

\* None on a free route; else the worst list price, at the worst ratio.
Reservation(exp, arm) == IF arm \in exp.free THEN None ELSE BilledToList

\* What the gateway says it billed; nothing, a zero or no number is no figure.
ReportedCost(a) == IF a.reports /\ a.billed > 0 THEN a.billed ELSE None

BilledCost(exp, arm, a) == IF ReportedCost(a) # None THEN a.billed ELSE PricedAt(exp, arm)

\* Mutant: what cannot be accounted for costs nothing.
AtLeastReported(exp, arm, cost) == cost

\* At least the worst case for what cannot be accounted for.
AtLeastReserved(exp, arm, cost) ==
  IF Reservation(exp, arm) = None THEN cost ELSE Max({cost, Reservation(exp, arm)})

\* The ledger's figure for an attempt, the higher of billed and list.
LedgerCost(exp, arm, a) ==
  IF a.kind = "answered" /\ a.priced THEN Max({BilledCost(exp, arm, a), PricedAt(exp, arm)})
  ELSE AtLeastReserved(exp, arm, IF ReportedCost(a) = None THEN 0 ELSE a.billed)

\* What may come of one request: an answer that is priced or says nothing of
\* its tokens, a refusal (of the credential, where that matters), a service
\* that is busy or answers what nobody can read. Without a figure a priced answer was
\* billed at list, all else at the most there is.
Attempts(exp, arm) ==
  LET metered == arm \notin exp.free
      most == {IF metered THEN BilledToList ELSE 0}
      of(kinds, priced, reports, amounts) ==
        [kind : kinds, priced : {priced}, reports : {reports}, billed : amounts]
  IN of({"answered"}, TRUE, TRUE, most)
     \cup of({"answered"}, TRUE, FALSE, {PricedAt(exp, arm)})
     \cup of({"answered"}, FALSE, FALSE, most)
     \cup of({"broken"}, FALSE, TRUE, most)
     \cup of({IF exp.runner = "design2" THEN "denied" ELSE "refused"}, FALSE, FALSE, {0})

Total(amounts) == FoldFunction(LAMBDA a, b : a + b, 0, amounts)
Spent == Total([t \in DOMAIN x.calls |-> x.calls[t].usd])

\* Two worst cases: the supplement's at list price, the design runs' at more
\* than any provider has billed.
WorstCase == 1
DesignWorstCase == DesignMultiplier

GuardTotal == x.exp.prior + Spent + x.run.reserved
Headroom(projected) == x.callsTail = "whole" /\ projected <= x.exp.cap - GuardTotal
----------------------------------------------------------------------------
(* Launching *)

Waiting == [at |-> "idle"]

\* heldout: task by task; the supplement: arm by arm, first the tasks its
\* workers share, then the repeats in order; the design runs: as registered.
Phases(exp, c) ==
  LET pairs(tasks, arm) == [i \in DOMAIN tasks |-> <<tasks[i], arm>>]
      those(repeated, arm) == pairs(SelectSeq(exp.tasks, LAMBDA t : (t \in exp.repeats) = repeated), arm)
      all == CASE exp.runner = "heldout" ->
                    << [keys |-> FlattenSeq([i \in DOMAIN exp.tasks |-> [j \in DOMAIN c.arms |-> <<exp.tasks[i], c.arms[j]>>]]),
                        workers |-> 1] >>
               [] exp.runner = "supplement" ->
                    FlattenSeq([j \in DOMAIN c.arms |->
                      << [keys |-> those(FALSE, c.arms[j]), workers |-> c.workers],
                         [keys |-> those(TRUE, c.arms[j]), workers |-> 1] >>])
               [] OTHER -> << [keys |-> exp.order, workers |-> 1] >>
  IN SelectSeq(all, LAMBDA p : p.keys # <<>>)

Process(c, isolated, reserved) ==
  [of |-> c, version |-> x.now, done |-> DOMAIN x.rows, isolated |-> isolated,
   phases |-> Phases(x.exp, c), reserved |-> reserved, stopped |-> FALSE,
   w |-> [i \in 1..c.workers |-> Waiting]]

Started(c, isolated, reserved) ==
  /\ x.run = None /\ x.reg # None /\ Len(x.metas) < MaxLaunches
  /\ x' = [x EXCEPT !.run = Process(c, isolated, reserved), !.metas = Append(@, [arms |-> c.arms, label |-> c.label])]

\* Each program reads its own ledgers whole, so an unreadable row stops all.
LaunchHeldout(c, isolated) ==
  /\ x.exp.runner = "heldout" /\ x.rowsTail = "whole"
  /\ Started(c, isolated, 0) /\ HeldoutDrift = {} /\ ~PolicyMoved

\* The budget of the run is authorised first, and stays so.
LaunchSupplement(c) ==
  /\ x.exp.runner = "supplement" /\ x.rowsTail = "whole" /\ x.callsTail = "whole"
  /\ x.exp.prior + Spent + x.exp.budget <= x.exp.cap
  /\ Started(c, TRUE, x.exp.budget) /\ SupplementDrift = {}

LaunchDesign(c, isolated) ==
  /\ x.exp.runner = "design" /\ x.rowsTail = "whole" /\ x.callsTail = "whole"
  /\ Started(c, isolated, 0) /\ ~DesignFailed

CredentialsPresent == x.exp.credentials

\* One launch only: not once anything is in its ledgers.
LaunchDesign2(c, isolated) ==
  /\ x.exp.runner = "design2" /\ x.rowsTail = "whole" /\ x.callsTail = "whole"
  /\ CredentialsPresent /\ x.rows = <<>> /\ (\A t \in DOMAIN x.calls : x.calls[t].n = 0)
  /\ Started(c, isolated, 0) /\ ~Design2Failed

Launch ==
  \E c \in x.exp.launches :
    \/ LaunchSupplement(c)
    \/ \E isolated \in BOOLEAN : LaunchHeldout(c, isolated)
    \/ LaunchDesign(c, TRUE) \/ LaunchDesign2(c, TRUE)
----------------------------------------------------------------------------
(* The process *)

\* A worker's state changes; a phase is over when its keys are taken and its
\* workers done, the run when no phase is left.
Then(run) ==
  LET idle == \A i \in DOMAIN run.w : run.w[i] = Waiting
      over == run.phases # <<>> /\ Head(run.phases).keys = <<>> /\ idle
      left == IF run.stopped THEN <<>> ELSE IF over THEN Tail(run.phases) ELSE run.phases
  IN IF idle /\ left = <<>> THEN None ELSE [run EXCEPT !.phases = left]

Stage(i, where) == x.run # None /\ i \in DOMAIN x.run.w /\ x.run.w[i].at = where

\* The first idle worker takes the next key.
CanTake(i) ==
  /\ Stage(i, "idle") /\ (\A j \in 1..(i - 1) : ~Stage(j, "idle")) /\ x.run.phases # <<>> /\ Head(x.run.phases).keys # <<>>
  /\ i <= Head(x.run.phases).workers

NextKey == Head(Head(x.run.phases).keys)

\* It is skipped, asked for, with a reservation or without, or ends the run.
Taken(i, does) ==
  LET took == [x.run EXCEPT !.phases[1].keys = Tail(@)]
      ready == [at |-> "ready", key |-> NextKey, attempt |-> 0]
  IN CASE does = "skip" -> took
       [] does = "stop" -> [took EXCEPT !.stopped = TRUE]
       [] does = "reserve" -> [took EXCEPT !.w[i] = ready, !.reserved = @ + WorstCase]
       [] OTHER -> [took EXCEPT !.w[i] = ready]

Take(i, Decide(_)) ==
  CanTake(i) /\ x' = [x EXCEPT !.run = Then(Taken(i, Decide(NextKey)))]

TakeHeldout(i) ==
  /\ x.exp.runner = "heldout"
  /\ Take(i, LAMBDA key : IF Recorded(x.run.of, key) \in x.run.done THEN "skip" ELSE "ask")

TakeSupplement(i) ==
  /\ x.exp.runner = "supplement"
  /\ Take(i, LAMBDA key : IF Recorded(x.run.of, key) \in x.run.done THEN "skip"
                          ELSE IF Headroom(WorstCase) THEN "reserve" ELSE "stop")

\* Mutant: what has no row is asked again.
TakeDesignAgain(i) ==
  /\ x.exp.runner = "design"
  /\ Take(i, LAMBDA key :
       IF Recorded(x.run.of, key) \in DOMAIN x.rows THEN "skip"
       ELSE IF Spent + DesignWorstCase > x.exp.cap THEN "stop" ELSE "ask")

\* A call in the ledger without a row is never asked again.
TakeDesign(i) ==
  /\ x.exp.runner = "design"
  /\ Take(i, LAMBDA key :
       IF Recorded(x.run.of, key) \in DOMAIN x.rows \/ x.calls[Tag(key)].n > 0 THEN "skip"
       ELSE IF Spent + DesignWorstCase > x.exp.cap THEN "stop" ELSE "ask")

TakeDesign2(i) ==
  /\ x.exp.runner = "design2"
  /\ Take(i, LAMBDA key : IF Spent + DesignWorstCase > x.exp.cap THEN "stop" ELSE "ask")

Released(run) ==
  [run EXCEPT !.reserved = IF x.exp.runner = "supplement" THEN Max({0, @ - WorstCase}) ELSE @]

\* Before every attempt: the client's own limit, over all the ledger says.
\* Without it left the key has no row, and nothing more is asked.
Submit(i) ==
  /\ Stage(i, "ready")
  /\ LET key == x.run.w[i].key
     IN IF Spent >= x.exp.budget
        THEN x' = [x EXCEPT !.run = Then([Released(@) EXCEPT !.stopped = TRUE, !.w[i] = Waiting])]
        ELSE x' = [x EXCEPT !.run.w[i].at = "sent"]

TriesAgain(a, attempt) ==
  a.kind = "broken" /\ attempt < (IF IsDesign(x.exp) THEN 0 ELSE Retries)

\* One line per attempt. After a line that was cut off, it continues that one.
Appended(tag, usd, denied) ==
  IF x.callsTail = "cut" THEN [x EXCEPT !.callsTail = "spoilt", !.merged = TRUE]
  ELSE [x EXCEPT !.calls[tag] = [n |-> @.n + 1, usd |-> @.usd + usd, denied |-> denied]]

Received(i, a) ==
  /\ Stage(i, "sent")
  /\ LET w == x.run.w[i]
         logged == Appended(Tag(w.key), LedgerCost(x.exp, w.key[2], a), a.kind = "denied")
     IN x' = [logged EXCEPT !.billed = @ + a.billed,
                !.run.w[i] = IF TriesAgain(a, w.attempt) THEN [w EXCEPT !.at = "ready", !.attempt = @ + 1]
                             ELSE [at |-> "answered", key |-> w.key, kind |-> a.kind,
                                   usd |-> IF a.priced THEN BilledCost(x.exp, w.key[2], a) ELSE 0]]

\* Mutant: a call the route failed is left out.
GradedLeniently(exp, isolated, task, kind) ==
  IF kind # "answered" THEN {"truncated"}
  ELSE exp.grades \cap ({"truncated"} \cup (IF task \in exp.coding /\ ~isolated THEN {"sandbox"} ELSE {"pass", "fail"}))

\* A call the route failed is a failure of the route; an answer cut at its
\* budget, or one that cannot be run in isolation, says nothing.
Graded(exp, isolated, task, kind) ==
  IF kind # "answered" THEN {"fail"}
  ELSE exp.grades \cap ({"truncated"} \cup (IF task \in exp.coding /\ ~isolated THEN {"sandbox"} ELSE {"pass", "fail"}))

GradeAnswer(i) ==
  /\ Stage(i, "answered")
  /\ LET w == x.run.w[i]
         harness == x.exp.runner = "design2" /\ w.kind = "denied"
     IN \E outcome \in IF harness THEN {"harness"} ELSE Graded(x.exp, x.run.isolated, w.key[1], w.kind) :
          x' = [x EXCEPT !.run = [Released(@) EXCEPT
                  !.w[i] = [at |-> "graded", key |-> w.key, outcome |-> outcome, failed |-> w.kind # "answered", usd |-> w.usd]]]

\* The row goes into the ledger; a credential that was turned down ends the
\* second design run.
WriteRow(i) ==
  /\ Stage(i, "graded")
  /\ LET w == x.run.w[i]
         key == Recorded(x.run.of, w.key)
         row == [outcome |-> w.outcome, failed |-> w.failed, usd |-> w.usd, version |-> x.run.version,
                 n |-> IF key \in DOMAIN x.rows THEN x.rows[key].n + 1 ELSE 1]
     IN x' = [x EXCEPT !.rows = [k \in DOMAIN @ \cup {key} |-> IF k = key THEN row ELSE @[k]],
                       !.run = Then([@ EXCEPT !.w[i] = Waiting, !.stopped = x.run.stopped \/ w.outcome = "harness"])]

\* The process dies. What was sent may be billed and is in no ledger; a line
\* that was being written is cut off.
Crash ==
  /\ x.run # None /\ x.crashes < MaxCrashes
  /\ LET sent == {i \in DOMAIN x.run.w : x.run.w[i].at = "sent"}
         rowing == {i \in DOMAIN x.run.w : x.run.w[i].at = "graded"}
     IN \E cut \in SUBSET {"call", "row"} :
          /\ ("call" \in cut => sent # {} /\ x.callsTail = "whole") /\ ("row" \in cut => rowing # {})
          /\ x' = [x EXCEPT !.run = None, !.crashes = @ + 1,
                     !.lost = [t \in DOMAIN @ |-> @[t] + Cardinality({i \in sent : Tag(x.run.w[i].key) = t})],
                     !.callsTail = IF "call" \in cut THEN "cut" ELSE @,
                     !.rowsTail = IF "row" \in cut THEN "cut" ELSE @]
----------------------------------------------------------------------------
(* What is read back *)

Rows(label) == {key \in DOMAIN x.rows : key[2] = label}

\* Only what the harness could not grade is left out of a comparison.
Exclusion(rows, key) ==
  IF key \notin DOMAIN rows THEN "incomplete"
  ELSE CASE rows[key].outcome \in {"pass", "fail"} -> None
         [] rows[key].outcome \in {"truncated", "sandbox"} -> rows[key].outcome
         [] OTHER -> "ungraded"

Passed(rows, key) == rows[key].outcome = "pass"

\* Rows of tasks that are not registered are named and not analysed; a
\* registered task counts whether it has rows or not. One reason for a pair.
PairAccounting(rows, comparator, manifest) ==
  LET router(t) == <<t, RouterArm>>
      other(t) == <<t, comparator>>
      reasons(t) == {Exclusion(rows, router(t)), Exclusion(rows, other(t))} \ {None}
      reason(t) == CHOOSE r \in reasons(t) :
                     \A s \in reasons(t) : r = s \/ r = "truncated" \/ (r = "sandbox" /\ s # "truncated")
                                           \/ (r = "incomplete" /\ s = "ungraded")
      valid == {t \in manifest : reasons(t) = {}}
      strict == {t \in manifest : reasons(t) \subseteq {"truncated"}}
      only(t, a, b) == Passed(rows, a) /\ ~Passed(rows, b)
  IN [attempted |-> manifest, valid |-> valid,
      invalid |-> [t \in manifest \ valid |-> reason(t)],
      routerPassed |-> {t \in valid : Passed(rows, router(t))},
      otherPassed |-> {t \in valid : Passed(rows, other(t))},
      routerOnly |-> {t \in valid : only(t, router(t), other(t))},
      otherOnly |-> {t \in valid : only(t, other(t), router(t))},
      strict |-> strict,
      strictRouter |-> {t \in strict : Passed(rows, router(t))},
      collapsed |-> {key \in DOMAIN rows : key[2] \in {RouterArm, comparator} /\ rows[key].n > 1},
      unregistered |-> {key[1] : key \in {r \in DOMAIN rows : r[2] \in {RouterArm, comparator}}} \ manifest]

Labels(rows) == {key[2] : key \in DOMAIN rows}
Metered(exp, key) == (IF key[2] = RouterArm THEN RouterArm ELSE "control") \notin exp.free
RetainedUsd(rows) == Total([key \in {r \in DOMAIN rows : Metered(x.exp, r)} |-> rows[key].usd])

\* heldout's own report: per arm and category what was graded, and the spend
\* of every attempted row. An arm without graded rows is left out.
HeldoutReport ==
  LET excluded == {key \in DOMAIN x.rows : Exclusion(x.rows, key) # None}
      graded == DOMAIN x.rows \ excluded
      cell(arm, category) == {key \in graded : key[2] = arm /\ x.exp.category[key[1]] = category}
      cells(category) == {arm \in Labels(x.rows) : cell(arm, category) # {}}
      categories == {x.exp.category[key[1]] : key \in graded}
  IN [excluded |-> excluded, graded |-> graded,
      tooSmall |-> {c \in categories : \E arm \in cells(c) : Cardinality(cell(arm, c)) < x.exp.floor},
      usd |-> RetainedUsd(x.rows), drift |-> HeldoutDrift, amended |-> x.reg.amended]

CallsByArm == [arm \in {t[2] : t \in DOMAIN x.calls} |->
                 Total([t \in {c \in DOMAIN x.calls : c[2] = arm} |-> x.calls[t].usd])]

\* Arms that were first launched after the first invocation.
ProtocolDeviations ==
  LET of(meta) == {Label(meta, meta.arms[j]) : j \in DOMAIN meta.arms}
  IN UNION {of(x.metas[i]) : i \in DOMAIN x.metas} \ (IF x.metas = <<>> THEN {} ELSE of(x.metas[1]))

\* The earlier run's rows and the supplement's, as one.
Pooled(earlier, rows) ==
  [key \in DOMAIN earlier \cup DOMAIN rows |-> IF key \in DOMAIN earlier THEN earlier[key] ELSE rows[key]]

\* Both as one, and the supplement's alone.
CombinedReport ==
  LET rows == Pooled(x.exp.earlier, x.rows)
      tasks == Range(x.exp.tasks)
      manifest == tasks \cup x.exp.earlierTasks
      of(comparator) == [pooled |-> PairAccounting(rows, comparator, manifest),
                         alone |-> PairAccounting(x.rows, comparator, tasks)]
      comparators == Labels(rows) \ {RouterArm}
  IN [against |-> [c \in comparators |-> of(c)],
      floorMet |-> {c \in comparators : Cardinality(of(c).pooled.valid) >= x.exp.floor},
      retained |-> RetainedUsd(x.rows), all |-> Spent, byArm |-> CallsByArm,
      excluded |-> {key \in DOMAIN rows : Exclusion(rows, key) # None},
      deviations |-> ProtocolDeviations]

\* The rows as the second design registration reads them: what was asked with
\* a credential that was turned down says nothing of the route.
HarnessCorrected(rows, denied) ==
  [key \in DOMAIN rows |-> IF key \in denied THEN [rows[key] EXCEPT !.outcome = "harness"] ELSE rows[key]]

DeniedRows(label) ==
  {key \in DOMAIN x.rows : x.calls[<<key[1], IF key[2] = label THEN "control" ELSE key[2]>>].denied}

DesignLabel == (CHOOSE c \in x.exp.launches : TRUE).label

CombinedDesignReport ==
  LET mine == IF x.exp.runner = "design2" THEN HarnessCorrected(x.rows, DeniedRows(DesignLabel)) ELSE x.rows
      before == IF x.exp.runner = "design2" THEN HarnessCorrected(x.exp.earlier, x.exp.earlierDenied) ELSE x.exp.earlier
      pooled == PairAccounting(Pooled(before, mine), DesignLabel, x.exp.earlierTasks \cup Range(x.exp.tasks))
  IN [pooled |-> pooled, floorMet |-> Cardinality(pooled.valid) >= x.exp.floor,
      alone |-> PairAccounting(mine, DesignLabel, Range(x.exp.tasks)),
      unchanged |-> Changed(x.now, x.base, {"history"}) = {}]

Readback ==
  LET label(key) == <<key[1], IF key[2] = "control" THEN DesignLabel ELSE key[2]>>
      registered == {label(key) : key \in Range(x.exp.order)}
  IN [missing |-> registered \ DOMAIN x.rows, unregistered |-> DOMAIN x.rows \ registered,
      duplicates |-> {t \in DOMAIN x.calls : x.calls[t].n > 1},
      withoutRow |-> {t \in DOMAIN x.calls : x.calls[t].n > 0 /\ label(t) \notin DOMAIN x.rows},
      usd |-> Spent]

\* What anyone can check from the checkout: everything registered but the
\* configuration file, and that the plan as first written is still named.
VerifyOffline ==
  /\ Changed(x.now, x.reg.current, {"tasks", "plan", "code"}) = {}
  /\ x.exp.pinned => Changed(x.now, x.reg.current, {"product"}) = {}
  /\ \E v \in x.reg.superseded \cup {x.reg.current} : Changed(v, x.reg.first, {"plan"}) = {}
----------------------------------------------------------------------------
\* What may be asked for: a task of the experiment, on one of the two arms.
Tags(exp) == Range(exp.tasks) \X {RouterArm, "control"}

\* Two list prices are the most a call is billed, and less than what the
\* design runs reckon with. The design runs have one worker.
ASSUME ExperimentNumbers ==
  /\ {Retries, DesignMultiplier, MaxLaunches, MaxCrashes} \subseteq Nat
  /\ BilledToList \in 1..DesignMultiplier /\ None \notin Int
ASSUME ExperimentsTyped ==
  \A exp \in Experiment :
    /\ {exp.budget, exp.cap, exp.prior} \subseteq Nat /\ IsFiniteSet(Tags(exp))
    /\ exp.runner \in {"heldout", "supplement", "design", "design2"}
    /\ \E c \in exp.launches : \A d \in exp.launches : d.workers <= c.workers
    /\ \A c \in exp.launches :
         /\ c.workers \in Nat \ {0} /\ (IsDesign(exp) => c.workers = 1)
         /\ Phases(exp, c) \in Seq([keys : Seq(Tags(exp)), workers : Nat])


\* A key is asked for at one place of a plan only.
Once(phases) ==
  \A p, q \in DOMAIN phases : \A i \in DOMAIN phases[p].keys, j \in DOMAIN phases[q].keys :
    phases[p].keys[i] = phases[q].keys[j] => p = q /\ i = j

\* A command names each arm once, and does not call the control arm router.
ASSUME PlansOnce ==
  \A exp \in Experiment : \A c \in exp.launches : c.label # RouterArm /\ Once(Phases(exp, c))

\* The earlier run's ledger is in order. Only heldout may be registered
\* without a configuration, and the arms of a design run have the same names
\* whoever starts it, on the keys it registers.
ASSUME DirectoriesInOrder ==
  \A exp \in Experiment :
    /\ \A key \in DOMAIN exp.earlier : key[1] \in exp.earlierTasks /\ exp.earlier[key].n = 1
    /\ exp.runner # "heldout" => exp.pinned
    /\ IsDesign(exp) => \A c, d \in exp.launches :
         c.label = d.label /\ \A p \in DOMAIN Phases(exp, c) : Range(Phases(exp, c)[p].keys) \subseteq Range(exp.order)

ExperimentStart(exp) ==
  LET tags == Tags(exp)
      zero == [p \in exp.editable |-> 0]
  IN [exp |-> exp, base |-> zero, now |-> zero, reg |-> None, edits |-> 0,
      run |-> None, metas |-> <<>>, crashes |-> 0,
      calls |-> [t \in tags |-> [n |-> 0, usd |-> 0, denied |-> FALSE]], callsTail |-> "whole", merged |-> FALSE,
      rows |-> <<>>, rowsTail |-> "whole",
      billed |-> 0, lost |-> [t \in tags |-> 0]]

ExperimentsInit == \E exp \in Experiment : x = ExperimentStart(exp)

Workers == 1..Max({c.workers : c \in x.exp.launches})

ExperimentsNext ==
  \/ Register \/ Amend \/ Launch \/ Crash
  \/ \E p \in x.exp.editable : Alter(p)
  \/ \E i \in Workers :
       \/ TakeHeldout(i) \/ TakeSupplement(i) \/ TakeDesign(i) \/ TakeDesign2(i)
       \/ Submit(i) \/ GradeAnswer(i) \/ WriteRow(i)
       \/ Stage(i, "sent") /\ \E a \in Attempts(x.exp, x.run.w[i].key[2]) : Received(i, a)

ExperimentsSpec == ExperimentsInit /\ [][ExperimentsNext]_x
----------------------------------------------------------------------------
(* Properties *)

TimesAsked(tag) ==
  x.calls[tag].n + x.lost[tag]
  + (IF x.run = None THEN 0 ELSE Cardinality({i \in DOMAIN x.run.w : Stage(i, "sent") /\ x.run.w[i].key = tag}))

\* What was billed is in the ledger, or was in flight when the process died
\* (unless heldout has written on after a line that was cut off); and the
\* limits hold: no attempt starts with the client's budget spent, the
\* supplement stays within its cap but for what one task may cost beyond one
\* list price, and the design runs never cross theirs (llm.Client.chat,
\* BudgetGuard, design_supplement.run).
SpendHeld ==
  /\ ~x.merged => x.billed <= Spent
  /\ x.merged => x.exp.runner = "heldout"
  /\ Spent <= x.exp.budget - 1 + Cardinality(Workers) * BilledToList
  /\ x.exp.runner = "supplement" /\ Spent > 0 =>
       x.exp.prior + Spent + x.exp.budget <= x.exp.cap + Cardinality(Workers) * ((Retries + 1) * BilledToList - WorstCase)
  /\ IsDesign(x.exp) => Spent <= x.exp.cap

\* No observation twice in a ledger, across crashes and launches; the design
\* runs ask a second time only for what a crash kept out of the ledger; and
\* every row was made by a version that the registration or its amendments
\* name (preregister, amend, load_preregistration, verify, run_live, run).
EvidenceSound ==
  /\ \A key \in DOMAIN x.rows : x.rows[key].n = 1
  /\ IsDesign(x.exp) => \A t \in DOMAIN x.calls : TimesAsked(t) <= 1 + x.lost[t]
  /\ \A key \in DOMAIN x.rows :
       \E v \in x.reg.superseded \cup {x.reg.current} :
         Changed(x.rows[key].version, v, Compares(x.exp) \ (IF x.exp.pinned THEN {} ELSE {"identity"})) = {}

\* A comparison leaves out no registered task and no failure of a route: a
\* pair is compared when both sides were graded and has one reason otherwise,
\* a call that failed counts as one, the harsher reading keeps every pair the
\* registered one keeps, the rows cost no more than the calls, and a reader
\* who finds the registration in order has the sources it names (pairing.py,
\* the reports, verify_offline).
ReportsHonest ==
  x.rows # <<>> =>
  LET pairs == IF IsDesign(x.exp) THEN {CombinedDesignReport.alone}
               ELSE LET all == CombinedReport.against IN {all[c].pooled : c \in DOMAIN all}
      harness(key) == x.exp.runner = "design2" /\ x.rows[key].outcome = "harness"
  IN /\ \A p \in pairs :
          /\ Range(x.exp.tasks) \subseteq p.attempted
          /\ p.valid \cup DOMAIN p.invalid = p.attempted /\ p.valid \subseteq p.strict
          /\ p.routerPassed \subseteq p.strictRouter /\ p.collapsed = {} /\ p.unregistered = {}
          /\ p.routerPassed \ p.otherPassed = p.routerOnly /\ p.otherPassed \ p.routerPassed = p.otherOnly
     /\ \A key \in DOMAIN x.rows : x.rows[key].failed => harness(key) \/ key \in HeldoutReport.graded
     /\ x.callsTail = "whole" => RetainedUsd(x.rows) <= Spent
     /\ Spent = CallsByArm[RouterArm] + CallsByArm["control"]
     /\ IsDesign(x.exp) => Readback.unregistered = {} /\ (x.callsTail = "whole" => Readback.duplicates = {})
     /\ (x.reg # None /\ VerifyOffline /\ ~x.reg.amended) =>
          \A key \in DOMAIN x.rows :
            Changed(x.rows[key].version, x.now,
                    {"code", "plan", "tasks"} \cup (IF x.exp.runner = "heldout" THEN {} ELSE {"product"})) = {}
=============================================================================
