------------------------------ MODULE Ranking -------------------------------
(* What the IRP endpoint ranks by (irp.py, rank): quality against cost, at a *)
(* preference between 0 (quality only) and 10 (cost only).                   *)
EXTENDS Integers

\* The two terms of the objective, multiplied by 100 times the scale, which
\* is the dearest candidate's cost; an entry is [id, quality in tenths, cost].
Quality(e, t, scale) == (10 - t) * (e.quality * scale)
Cost(e, t) == 10 * (t * e.cost)

\* Mutant: the preference counts the wrong way round.
ObjectiveSwapped(e, t, scale) == Cost(e, 10 - t) - Quality(e, 10 - t, scale)

Objective(e, t, scale) == Cost(e, t) - Quality(e, t, scale)

\* a comes before b: on a tie the cheaper, then the better; equal in both, the
\* id decides, which nothing here depends on.
Before(a, b, t, scale) ==
  \/ Objective(a, t, scale) < Objective(b, t, scale)
  \/ Objective(a, t, scale) = Objective(b, t, scale)
       /\ (a.cost < b.cost \/ (a.cost = b.cost /\ a.quality >= b.quality))

\* The candidates that may be ranked first.
Leading(entries, t, scale) == {a \in entries : \A b \in entries : Before(a, b, t, scale)}

\* The more a caller prefers cheap answers, the less its winner costs.
PreferenceLowersCost(entries, scale) ==
  LET first == [t \in 0..10 |-> Leading(entries, t, scale)]
  IN \A t1, t2 \in 0..10 : t1 < t2 => \A a \in first[t1], b \in first[t2] : b.cost <= a.cost
=============================================================================
