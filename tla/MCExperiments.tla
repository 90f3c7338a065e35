---------------------------- MODULE MCExperiments ----------------------------
(* A directory for each program. The routing arm is free or metered; the   *)
(* numbers and files that may change differ from one to the other.         *)
EXTENDS Experiments, TLC
Command(arms, label, workers) == [arms |-> arms, label |-> label, workers |-> workers]
Both == <<"router", "control">>
Row(outcome) == [outcome |-> outcome, failed |-> FALSE, usd |-> 1, version |-> <<>>, n |-> 1]
Earlier == (<<"t0", "router">> :> Row("pass")) @@ (<<"t0", "metered">> :> Row("truncated"))
PlainDirectory == [runner |-> "heldout", tasks |-> <<"t1", "t2">>, repeats |-> {}, coding |-> {"t2"},
          category |-> [t \in {"t1", "t2", "t3"} |-> "math"], order |-> <<>>, launches |-> {Command(Both, "control", 1)},
          free |-> {}, editable |-> {}, pinned |-> TRUE, credentials |-> TRUE, edits |-> 1,
          grades |-> {"pass", "truncated", "sandbox"},
          budget |-> 5, cap |-> 20, prior |-> 0, floor |-> 2,
          earlier |-> <<>>, earlierTasks |-> {}, earlierDenied |-> {}]
Ordered == << <<"t1", "router">>, <<"t1", "control">>, <<"t2", "router">>, <<"t2", "control">> >>
Brief == SubSeq(Ordered, 1, 2)
Design == [PlainDirectory EXCEPT !.runner = "design", !.order = Ordered, !.launches = {Command(Both, "metered", 1)},
             !.cap = 7, !.budget = 7, !.earlier = Earlier, !.earlierTasks = {"t0"}, !.grades = {"pass", "truncated"},
             !.free = {"router"}]
Supplement == [PlainDirectory EXCEPT !.runner = "supplement", !.cap = 12, !.prior = 1,
                 !.earlier = Earlier, !.earlierTasks = {"t0"}, !.grades = {"pass"}]
Directories ==
  <<[PlainDirectory EXCEPT !.launches = {Command(<<"control">>, "metered", 1)}, !.grades = {"truncated", "sandbox", "pass"}],
   [PlainDirectory EXCEPT !.editable = {"code", "product", "identity"}, !.tasks = <<"t1">>, !.free = {"router"}, !.grades = {"pass"}],
   [PlainDirectory EXCEPT !.editable = {"plan", "identity"}, !.pinned = FALSE, !.tasks = <<"t1">>, !.budget = 3, !.launches = {Command(<<"control">>, "control", 1)}, !.grades = {"pass", "fail"}],
   [Supplement EXCEPT !.tasks = <<"t1", "t2", "t3">>, !.repeats = {"t3"}, !.launches = {Command(<<"control">>, "metered", 2)}],
   [Supplement EXCEPT !.tasks = <<"t1">>, !.launches = {Command(<<"router">>, "control", 1), Command(Both, "metered", 1)},
      !.editable = {"config", "tasks"}, !.free = {"router"}],
   [Supplement EXCEPT !.tasks = <<"t1">>, !.edits = 2, !.editable = {"identity", "product"}, !.launches = {Command(<<"control">>, "control", 1)}, !.free = {"router"}],
   Design,
   [Design EXCEPT !.tasks = <<"t1">>, !.order = Brief, !.editable = {"code", "history"}, !.free = {}],
   [Design EXCEPT !.runner = "design2", !.earlierDenied = {<<"t0", "router">>}],
   [Design EXCEPT !.runner = "design2", !.tasks = <<"t1">>, !.order = Brief, !.editable = {"identity"}, !.cap = 4],
   [Design EXCEPT !.runner = "design2", !.credentials = FALSE]>>
MCExperiment == Range(Directories)
=============================================================================
