-------------------------- MODULE DelegationProofs --------------------------
(* The delegate server. A message: what it does to the trees and what the    *)
(* reply says of it, for any number of briefs, trees, changes and links. A   *)
(* job: that its run leaves no process behind, that no stop signal is lost   *)
(* and that Ctrl-C keeps its grace period, for any number of processes and   *)
(* of signals.                                                               *)
EXTENDS Delegation, Jobs, FiniteSetTheorems, WellFoundedInduction, TLAPS

----------------------------------------------------------------------------
(* Links *)

\* One link followed.
Follow(tree, p) == IF p # Out /\ IsLink(tree, p) THEN tree[p].to ELSE p

LEMMA PathsCounted == Cardinality(TreePaths) = 3 /\ IsFiniteSet(TreePaths)
<1>1. \A a, b \in Int : IsFiniteSet(a..b) /\ Cardinality(a..b) = IF a > b THEN 0 ELSE b - a + 1
  BY FS_Interval
<1>2. 1 \in Int /\ 3 \in Int
  OBVIOUS
<1>3. IsFiniteSet(1..3) /\ Cardinality(1..3) = IF 1 > 3 THEN 0 ELSE 3 - 1 + 1
  BY <1>1, <1>2, Zenon
<1> QED
  BY <1>3 DEF TreePaths

LEMMA ReachSteps ==
  ASSUME NEW tree, NEW p
  PROVE  Reach(tree, p) = Follow(tree, Follow(tree, Follow(tree, p)))
<1> DEFINE one == Follow(tree, p)
           two == Follow(tree, one)
           three == Follow(tree, two)
           at == CHOOSE f : f = [n \in 0..3 |->
                   IF n = 0 THEN p
                   ELSE IF f[n - 1] # Out /\ IsLink(tree, f[n - 1]) THEN tree[f[n - 1]].to ELSE f[n - 1]]
           found == [n \in 0..3 |-> IF n = 0 THEN p ELSE IF n = 1 THEN one ELSE IF n = 2 THEN two ELSE three]
<1>1. Reach(tree, p) = at[3]
  BY PathsCounted DEF Reach
<1>2. \A n \in 0..3 : found[n] = IF n = 0 THEN p ELSE Follow(tree, found[n - 1])
  <2>1. found[0] = p /\ found[1] = one /\ found[2] = two /\ found[3] = three
    OBVIOUS
  <2> HIDE DEF found
  <2> QED
    BY <2>1
<1>3. found = [n \in 0..3 |->
                   IF n = 0 THEN p
                   ELSE IF found[n - 1] # Out /\ IsLink(tree, found[n - 1]) THEN tree[found[n - 1]].to ELSE found[n - 1]]
  <2> DEFINE other == [n \in 0..3 |-> IF n = 0 THEN p ELSE Follow(tree, found[n - 1])]
  <2>1. found = other
    BY <1>2
  <2> HIDE DEF found
  <2> QED
    BY <2>1 DEF Follow
<1>4. at = [n \in 0..3 |->
                   IF n = 0 THEN p
                   ELSE IF at[n - 1] # Out /\ IsLink(tree, at[n - 1]) THEN tree[at[n - 1]].to ELSE at[n - 1]]
  <2> HIDE DEF found
  <2> QED
    BY <1>3
<1> HIDE DEF at
<1>5. at[0] = p /\ at[1] = Follow(tree, at[0]) /\ at[2] = Follow(tree, at[1]) /\ at[3] = Follow(tree, at[2])
  BY <1>4 DEF Follow
<1> QED
  BY <1>1, <1>5

\* Whatever takes the place of a link, or of nothing: unless it is a link, no
\* link leads out that did not before.
LEMMA NoNewEscape ==
  ASSUME NEW tree, NEW new, NEW q \in TreePaths, NEW p \in TreePaths,
         \A r \in TreePaths : r # q => new[r] = tree[r],
         ~IsLink(new, q), LinkEscapes(new, p), IsTree(tree)
  PROVE  LinkEscapes(tree, p)
<1>1. \A r \in TreePaths \cup {Out} : r # q => Follow(new, r) = Follow(tree, r) /\ Follow(new, r) \in TreePaths \cup {Out}
  BY DEF Follow, IsLink, IsTree, IsEntry, TreePaths, Out
<1>2. Follow(new, q) = q /\ q # Out
  BY DEF Follow, TreePaths, Out
<1>3. p # q /\ Follow(new, Follow(new, Follow(new, p))) = Out
  BY ReachSteps DEF LinkEscapes
<1>4. Follow(tree, Follow(tree, Follow(tree, p))) = Out
  BY <1>1, <1>2, <1>3
<1> QED
  BY <1>3, <1>4, ReachSteps DEF LinkEscapes, IsLink

\* Nothing leads out of a tree whose links that did are gone.
LEMMA VettedHolds ==
  ASSUME NEW tree, IsTree(tree), NEW p \in TreePaths,
         NEW new, new = [r \in TreePaths |-> IF r \in Vetted(tree) THEN None ELSE tree[r]]
  PROVE  ~LinkEscapes(new, p) /\ IsTree(new)
<1>1. IsTree(new)
  BY DEF IsTree, IsEntry
<1>2. ASSUME LinkEscapes(new, p) PROVE FALSE
  <2>1. \A r \in TreePaths \cup {Out} : /\ Follow(new, r) # r => Follow(new, r) = Follow(tree, r)
                                       /\ Follow(new, r) \in TreePaths \cup {Out}
    BY <1>1 DEF Follow, IsLink, IsTree, IsEntry, TreePaths, Out
  <2>2. Follow(new, Follow(new, Follow(new, p))) = Out /\ IsLink(new, p)
    BY <1>2, ReachSteps DEF LinkEscapes
  <2>3. Follow(tree, Out) = Out /\ Follow(new, Out) = Out
    BY DEF Follow
  <2>4. Follow(tree, Follow(tree, Follow(tree, p))) = Out
    BY <2>1, <2>2, <2>3 DEF Out, TreePaths
  <2>5. p \notin Vetted(tree) /\ IsLink(tree, p)
    BY <2>2 DEF IsLink
  <2> QED
    BY <2>4, <2>5, ReachSteps DEF Vetted, LinkEscapes
<1> QED
  BY <1>1, <1>2
----------------------------------------------------------------------------
(* The invariant *)

Fields == {"call", "pc", "tree", "edits", "seen", "todo", "base", "copy", "there", "skipped", "record", "w",
           "writes", "made", "outside", "loose", "results", "busy", "handed", "reply"}

Ends == {"reply", "served", "lost"}

Shaped ==
  /\ DOMAIN y = Fields /\ y.call \in ToolCall /\ DOMAIN y.results = BriefIds
  /\ IsTree(y.tree) /\ IsTree(y.base)
  /\ y.copy # <<>> => Isolated /\ DOMAIN y.copy = BriefIds /\ \A i \in BriefIds : IsTree(y.copy[i])
  /\ y.pc \in {"running", "reading"} /\ Isolated => y.copy # <<>>
  /\ y.pc \in {"read", "listing", "copying"} => y.copy = <<>>
  /\ y.pc \in {"listing", "copying", "reading"} => Isolated
  /\ y.pc = "running" /\ Isolated => y.there = BriefIds

\* A link that leads out of a copy, and what was written by way of one: its
\* worker made a link there. What a copy is compared with has none.
Vouched(i) == \E q \in TreePaths : <<i, q>> \in y.made

Contained ==
  /\ Isolated => \A o \in y.outside : Vouched(o[1])
  /\ y.copy # <<>> => \A p \in TreePaths :
       ~LinkEscapes(y.base, p) /\ \A i \in BriefIds : LinkEscapes(y.copy[i], p) => Vouched(i)

\* What is said of a copy that was read.
Item(i) ==
  LET item == y.results[i]
  IN /\ item.workspace # None => i \in y.there
     /\ y.busy \/ item.changes = None
        \/ /\ item.changes = DiffTrees(y.base, y.copy[i])
           /\ item.workspace = IF ChangedIn(item.changes) # {} THEN i ELSE None

ReadSoFar == Briefs(y.call) - Len(y.todo)

\* The copies are read in order; unless the reply says so nothing writes.
Reading ==
  y.pc = "reading" =>
    /\ y.busy \/ y.loose = {}
    /\ y.todo \in Seq(Nat) /\ Len(y.todo) <= Briefs(y.call)
    /\ \A j \in 1..Len(y.todo) : y.todo[j] = ReadSoFar + j
    /\ \A i \in BriefIds : IF i <= ReadSoFar THEN Item(i) ELSE i \in y.there

\* A record that is not given up with the reply stays, as long as something
\* may still write.
Told ==
  y.copy # <<>> /\ y.pc \in Ends =>
    /\ y.reply.result.results = y.results /\ (y.reply.result.kept <=> y.busy)
    /\ \A i \in BriefIds : Item(i)
    /\ y.pc = "reply" => ((y.record /\ ~y.handed) <=> y.busy)
    /\ y.pc = "served" => (y.record <=> y.busy)

DelegationInv == Shaped /\ Contained /\ Reading /\ Told

\* What a step leaves alone.
Same(fields) == DOMAIN y' = Fields /\ \A f \in fields : y'[f] = y[f]

LEMMA SameCall ==
  ASSUME y'.call = y.call
  PROVE  /\ BriefIds' = BriefIds /\ (Isolated' <=> Isolated) /\ Briefs(y'.call) = Briefs(y.call)
         /\ (WorkerEnv' = WorkerEnv)
BY DEF BriefIds, Isolated, WorkerEnv, LauncherEnv

LEMMA CountedPaths ==
  ASSUME Shaped
  PROVE  Briefs(y.call) \in Nat /\ BriefIds = 1..Briefs(y.call) /\ None \notin BriefIds /\ (Isolated <=> Briefs(y.call) > 1)
BY MessagesTyped DEF Shaped, BriefIds, Isolated

\* Before there are copies only the links of the base and the place matter.
LEMMA NoCopiesYet ==
  ASSUME DelegationInv, y.copy = <<>>, Same({"call", "copy", "outside", "made", "results", "there"}),
         IsTree(y'.tree), IsTree(y'.base),
         (y'.pc = "running" /\ ~Isolated) \/ y'.pc \in Ends \/ (y'.pc \in {"listing", "copying"} /\ Isolated)
  PROVE  DelegationInv'
<1>1. /\ y'.call = y.call /\ y'.copy = <<>> /\ y'.outside = y.outside /\ y'.made = y.made
      /\ y'.results = y.results /\ DOMAIN y' = Fields
  BY DEF Same
<1>2. BriefIds' = BriefIds /\ (Isolated' <=> Isolated)
  BY <1>1, SameCall
<1>3. Shaped'
  BY <1>1, <1>2 DEF DelegationInv, Shaped, Ends
<1>4. Contained'
  BY <1>1, <1>2 DEF DelegationInv, Contained, Vouched
<1>5. Reading' /\ Told'
  BY <1>1 DEF Reading, Told, Ends
<1> QED
  BY <1>3, <1>4, <1>5 DEF DelegationInv

LEMMA StartInv ==
  ASSUME DelegationInit
  PROVE  DelegationInv
<1>1. PICK call \in ToolCall : y = DelegationStart(call)
  BY DEF DelegationInit
<1>2. /\ DOMAIN y = Fields /\ y.call = call /\ y.pc = "read" /\ y.tree = call.tree /\ y.copy = <<>>
      /\ y.base = [p \in TreePaths |-> None] /\ y.outside = {}
      /\ y.results = [i \in 1..Briefs(call) |-> None]
  BY <1>1 DEF DelegationStart, Fields
<1>3. IsTree(y.tree) /\ IsTree(y.base)
  BY <1>2, MessagesTyped DEF IsTree, IsEntry
<1>4. Shaped
  BY <1>2, <1>3 DEF Shaped, BriefIds
<1>5. Contained /\ Reading /\ Told
  BY <1>2 DEF Contained, Reading, Told, Ends
<1> QED
  BY <1>4, <1>5 DEF DelegationInv

LEMMA HandleKeeps ==
  ASSUME DelegationInv, HandleMessage
  PROVE  DelegationInv'
<1>1. DOMAIN y = Fields /\ y.pc = "read" /\ y.copy = <<>>
  <2>1. y.pc = "read"
    BY DEF HandleMessage
  <2> QED
    BY <2>1 DEF DelegationInv, Shaped
<1> DEFINE Moved(z) == /\ DOMAIN z = Fields /\ \A f \in Fields \ {"pc", "reply"} : z[f] = y[f]
                       /\ (z.pc = "running" /\ ~Isolated) \/ z.pc \in Ends \/ (z.pc = "listing" /\ Isolated)
<1>2. \A reply : Moved(Ended(reply))
  BY <1>1 DEF Ended, Fields, Ends
<1>3. ~Isolated => Moved([y EXCEPT !.pc = "running"])
  BY <1>1 DEF Fields
<1>4. Isolated => Moved([y EXCEPT !.pc = "listing"])
  BY <1>1 DEF Fields
<1> HIDE DEF Moved
<1>5. Moved(y')
  <2> DEFINE Allowed(z) == \/ \E reply : z = Ended(reply)
                           \/ ~Isolated /\ z = [y EXCEPT !.pc = "running"]
                           \/ Isolated /\ z = [y EXCEPT !.pc = "listing"]
  <2>1. Allowed(y')
    BY DEF HandleMessage
  <2> QED
    BY <1>2, <1>3, <1>4, <2>1, Zenon
<1>6. /\ Same({"call", "copy", "outside", "made", "results", "there", "tree", "base"})
      /\ (y'.pc = "running" /\ ~Isolated) \/ y'.pc \in Ends \/ (y'.pc \in {"listing", "copying"} /\ Isolated)
  BY <1>5 DEF Moved, Same, Fields
<1>7. IsTree(y'.tree) /\ IsTree(y'.base)
  BY <1>6 DEF Same, DelegationInv, Shaped
<1>8. Same({"call", "copy", "outside", "made", "results", "there"})
  BY <1>6 DEF Same
<1> QED
  BY <1>1, <1>6, <1>7, <1>8, NoCopiesYet

LEMMA ListKeeps ==
  ASSUME DelegationInv, ListEntries
  PROVE  DelegationInv'
<1>1. DOMAIN y = Fields /\ y.pc = "listing" /\ y.copy = <<>> /\ Isolated /\ IsTree(y.tree) /\ IsTree(y.base)
  BY DEF DelegationInv, Shaped, ListEntries
<1>2. Same({"call", "copy", "outside", "made", "results", "there"}) /\ y'.tree = y.tree /\ y'.base = y.base /\ y'.pc = "copying"
  BY <1>1 DEF ListEntries, Same, Fields
<1> QED
  BY <1>1, <1>2, NoCopiesYet

LEMMA OwnerKeeps ==
  ASSUME DelegationInv, NEW change \in y.call.userChanges, OwnerEdits(change)
  PROVE  DelegationInv'
<1>1. DOMAIN y = Fields /\ y.pc \in {"listing", "copying"} /\ y.copy = <<>> /\ Isolated /\ IsTree(y.tree) /\ IsTree(y.base)
      /\ y.call \in ToolCall
  BY DEF DelegationInv, Shaped, OwnerEdits
<1>2. /\ Same({"call", "copy", "outside", "made", "results", "there"}) /\ y'.base = y.base /\ y'.pc = y.pc
      /\ y'.tree = [y.tree EXCEPT ![change.path] = change.entry]
  BY <1>1 DEF OwnerEdits, Same, Fields
<1>3. change.path \in TreePaths /\ IsEntry(change.entry)
  BY <1>1, MessagesTyped
<1>4. IsTree(y'.tree)
  BY <1>1, <1>2, <1>3 DEF IsTree
<1> QED
  BY <1>1, <1>2, <1>4, NoCopiesYet

LEMMA CopyKeeps ==
  ASSUME DelegationInv, CopyEntry
  PROVE  DelegationInv'
<1>1. DOMAIN y = Fields /\ y.pc = "copying" /\ y.copy = <<>> /\ Isolated /\ IsTree(y.tree) /\ IsTree(y.base)
  BY DEF DelegationInv, Shaped, CopyEntry
<1> DEFINE p == Head(y.todo)
           now == y.tree[p]
           next == [y EXCEPT !.todo = Tail(@)]
           skips == [next EXCEPT !.skipped = @ \cup {p}]
           takes == [next EXCEPT !.base[p] = now]
           fails == [Ended(ToolResult(Failure("could not copy"))) EXCEPT !.record = FALSE]
           Kept(z) == /\ DOMAIN z = Fields /\ z.call = y.call /\ z.copy = y.copy /\ z.outside = y.outside /\ z.made = y.made
                      /\ z.results = y.results /\ z.there = y.there /\ z.tree = y.tree
                      /\ z.base = y.base \/ z.base = [y.base EXCEPT ![p] = now]
                      /\ z.pc \in {"copying", "reply"}
<1>2. y' = skips \/ y' = takes \/ y' = fails
  BY DEF CopyEntry
<1>3. DOMAIN next = Fields /\ \A f \in Fields \ {"todo"} : next[f] = y[f]
  BY <1>1 DEF Fields
<1> HIDE DEF next
<1>4. Kept(skips) /\ Kept(takes)
  BY <1>1, <1>3 DEF Fields
<1>5. Kept(fails)
  BY <1>1 DEF Fields, Ended
<1> HIDE DEF skips, takes, fails
<1>6. Kept(y')
  BY <1>2, <1>4, <1>5
<1> HIDE DEF p
<1>7. IsTree(y'.base)
  <2>1. p \in TreePaths => IsEntry(now)
    BY <1>1 DEF IsTree
  <2> HIDE DEF now
  <2> QED
    BY <1>1, <1>6, <2>1 DEF IsTree
<1>8. Same({"call", "copy", "outside", "made", "results", "there"}) /\ y'.tree = y.tree
  BY <1>6 DEF Same
<1>9. y'.pc \in Ends \/ (y'.pc \in {"listing", "copying"} /\ Isolated)
  BY <1>1, <1>6 DEF Ends
<1> QED
  BY <1>1, <1>7, <1>8, <1>9, NoCopiesYet

LEMMA CopiesMadeKeeps ==
  ASSUME DelegationInv, CopiesMade
  PROVE  DelegationInv'
<1>1. /\ DOMAIN y = Fields /\ y.pc = "copying" /\ y.copy = <<>> /\ Isolated /\ IsTree(y.tree) /\ IsTree(y.base)
      /\ y.call \in ToolCall /\ DOMAIN y.results = BriefIds
  BY DEF DelegationInv, Shaped, CopiesMade
<1> DEFINE base == [p \in TreePaths |-> IF p \in Vetted(y.base) THEN None ELSE y.base[p]]
           copy == [i \in BriefIds |-> base]
<1>2. /\ DOMAIN y' = Fields /\ y'.call = y.call /\ y'.results = y.results /\ y'.tree = y.tree
      /\ y'.outside = y.outside /\ y'.base = base /\ y'.copy = copy /\ y'.there = BriefIds /\ y'.pc = "running"
  BY <1>1 DEF CopiesMade, Fields
<1>3. IsTree(base) /\ \A p \in TreePaths : ~LinkEscapes(base, p)
  <2>1. base = [r \in TreePaths |-> IF r \in Vetted(y.base) THEN None ELSE y.base[r]] /\ 1 \in TreePaths
    BY DEF TreePaths
  <2> HIDE DEF base
  <2>2. \A p \in TreePaths : ~LinkEscapes(base, p) /\ IsTree(base)
    BY <1>1, <2>1, VettedHolds
  <2> QED
    BY <2>1, <2>2
<1> HIDE DEF base
<1>4. BriefIds' = BriefIds /\ (Isolated' <=> Isolated)
  BY <1>2, SameCall
<1>5. \A i \in BriefIds : y'.copy[i] = base
  BY <1>2
<1>6. Shaped'
  <2>1. copy # <<>>
    <3>1. 1 \in BriefIds
      BY <1>1, CountedPaths DEF DelegationInv
    <3>2. 1 \in DOMAIN copy
      BY <3>1
    <3> QED
      BY <3>2
  <2> QED
    BY <1>1, <1>2, <1>3, <1>4, <1>5, <2>1 DEF Shaped
<1>7. y'.made = y.made
  BY <1>1 DEF CopiesMade, Fields
<1>8. Contained'
  BY <1>2, <1>3, <1>4, <1>5, <1>7 DEF DelegationInv, Contained, Vouched
<1>9. Reading' /\ Told'
  BY <1>2 DEF Reading, Told, Ends
<1> QED
  BY <1>6, <1>8, <1>9 DEF DelegationInv

\* While the workers run, what they return and who is under way is free.
LEMMA RunningKeeps ==
  ASSUME DelegationInv, y.pc = "running", y'.pc = "running",
         Same({"call", "copy", "base", "outside", "made", "tree", "there"}), DOMAIN y'.results = DOMAIN y.results
  PROVE  DelegationInv'
<1>1. /\ DOMAIN y' = Fields /\ y'.call = y.call /\ y'.copy = y.copy /\ y'.base = y.base /\ y'.tree = y.tree
      /\ y'.outside = y.outside /\ y'.made = y.made /\ y'.there = y.there
  BY DEF Same
<1>2. BriefIds' = BriefIds /\ (Isolated' <=> Isolated)
  BY <1>1, SameCall
<1>3. Shaped'
  BY <1>1, <1>2 DEF DelegationInv, Shaped
<1>4. Contained'
  BY <1>1, <1>2 DEF DelegationInv, Contained, Vouched
<1>5. Reading' /\ Told'
  BY DEF Reading, Told, Ends
<1> QED
  BY <1>3, <1>4, <1>5 DEF DelegationInv

LEMMA BriefsKeep ==
  ASSUME DelegationInv, NEW i \in BriefIds,
         StartBrief(i) \/ LauncherRefuses(i) \/ ClientStarts(i) \/ WorkerReturns(i) \/ Detach(i)
  PROVE  DelegationInv'
<1>1. DOMAIN y = Fields
  BY DEF DelegationInv, Shaped
<1>2. y.pc = "running"
  BY DEF BriefIs, StartBrief, LauncherRefuses, ClientStarts, WorkerReturns, Detach
<1> DEFINE Moved(z) == /\ DOMAIN z = Fields /\ z.pc = y.pc /\ z.call = y.call /\ z.copy = y.copy /\ z.base = y.base /\ z.tree = y.tree
                       /\ z.outside = y.outside /\ z.made = y.made /\ z.there = y.there /\ DOMAIN z.results = DOMAIN y.results
<1>3. \A where : Moved([y EXCEPT !.w[i] = where])
  BY <1>1 DEF Fields
<1>4. \A r : Moved(Returned(i, r))
  BY <1>1 DEF Fields, Returned
<1>5. Moved([y EXCEPT !.loose = {i}])
  BY <1>1 DEF Fields
<1> HIDE DEF Moved
<1>6. Moved(y')
  <2>1. CASE StartBrief(i)
    BY <1>3, <2>1 DEF StartBrief
  <2>2. CASE LauncherRefuses(i)
    BY <1>4, <2>2 DEF LauncherRefuses
  <2>3. CASE ClientStarts(i)
    BY <1>3, <2>3 DEF ClientStarts
  <2>4. CASE WorkerReturns(i)
    BY <1>4, <2>4 DEF WorkerReturns
  <2>5. CASE Detach(i)
    BY <1>5, <2>5 DEF Detach
  <2> QED
    BY <2>1, <2>2, <2>3, <2>4, <2>5
<1>7. Same({"call", "copy", "base", "outside", "made", "tree", "there"}) /\ y'.pc = "running" /\ DOMAIN y'.results = DOMAIN y.results
  BY <1>2, <1>6 DEF Moved, Same
<1> QED
  BY <1>2, <1>7, RunningKeeps

\* What is left behind by a worker ends.
LEMMA LooseEndsKeep ==
  ASSUME DelegationInv, NEW i \in BriefIds, LooseEnds(i)
  PROVE  DelegationInv'
<1>1. DOMAIN y = Fields
  BY DEF DelegationInv, Shaped
<1>2. /\ DOMAIN y' = Fields /\ y'.call = y.call /\ y'.copy = y.copy /\ y'.base = y.base /\ y'.tree = y.tree
      /\ y'.outside = y.outside /\ y'.made = y.made /\ y'.there = y.there /\ y'.results = y.results /\ y'.pc = y.pc
      /\ y'.busy = y.busy /\ y'.todo = y.todo /\ y'.reply = y.reply /\ y'.record = y.record /\ y'.handed = y.handed
      /\ y'.loose = y.loose \ {i}
  BY <1>1 DEF LooseEnds, Fields
<1>3. BriefIds' = BriefIds /\ (Isolated' <=> Isolated)
  BY <1>2, SameCall
<1>4. \A j \in BriefIds : Item(j) <=> Item(j)'
  BY <1>2 DEF Item
<1>5. Shaped'
  BY <1>2, <1>3 DEF DelegationInv, Shaped
<1>6. Contained'
  BY <1>2, <1>3 DEF DelegationInv, Contained, Vouched
<1>7. Reading'
  BY <1>2, <1>3, <1>4 DEF DelegationInv, Reading, ReadSoFar
<1>8. Told'
  BY <1>2, <1>3, <1>4 DEF DelegationInv, Told, Ends
<1> QED
  BY <1>5, <1>6, <1>7, <1>8 DEF DelegationInv
----------------------------------------------------------------------------
(* What the workers write *)

\* One entry of a worker's tree is replaced: if by a link, the worker made it.
LEMMA WriteKeeps ==
  ASSUME DelegationInv, NEW i \in BriefIds, Writer(i), NEW q \in TreePaths, NEW entry, IsEntry(entry),
         Same({"call", "base", "outside", "there", "results", "pc", "busy", "todo", "loose"}),
         y.made \subseteq y'.made,
         entry # None /\ entry.kind = "link" => <<i, q>> \in y'.made,
         Isolated => y'.tree = y.tree /\ y'.copy = [y.copy EXCEPT ![i] = [y.copy[i] EXCEPT ![q] = entry]],
         ~Isolated => y'.copy = y.copy /\ y'.tree = [y.tree EXCEPT ![q] = entry]
  PROVE  DelegationInv'
<1>1. /\ DOMAIN y' = Fields /\ y'.call = y.call /\ y'.base = y.base /\ y'.outside = y.outside /\ y'.there = y.there
      /\ y'.results = y.results /\ y'.pc = y.pc /\ y'.busy = y.busy /\ y'.todo = y.todo /\ y'.loose = y.loose
  BY DEF Same
<1>2. BriefIds' = BriefIds /\ (Isolated' <=> Isolated)
  BY <1>1, SameCall
<1>3. y.pc \in {"running", "reading"} /\ (y.pc = "reading" => y.busy)
  BY DEF Writer, BriefIs, DelegationInv, Reading
<1>4. \A j \in BriefIds : Vouched(j) => Vouched(j)'
  BY DEF Vouched
<1>5. CASE ~Isolated
  <2>1. IsTree(y'.tree)
    BY <1>5 DEF IsTree, DelegationInv, Shaped
  <2>2. Shaped'
    BY <1>1, <1>2, <1>3, <1>5, <2>1 DEF DelegationInv, Shaped
  <2>3. y'.copy = <<>> /\ y'.pc = "running"
    BY <1>1, <1>3, <1>5 DEF DelegationInv, Shaped
  <2>4. Contained' /\ Reading' /\ Told'
    BY <1>2, <1>5, <2>3 DEF Contained, Reading, Told, Ends
  <2> QED
    BY <2>2, <2>4 DEF DelegationInv
<1>6. CASE Isolated
  <2> DEFINE old == y.copy[i]
             new == [old EXCEPT ![q] = entry]
  <2>1. y.copy # <<>> /\ DOMAIN y.copy = BriefIds /\ IsTree(old)
    BY <1>3, <1>6 DEF DelegationInv, Shaped
  <2>2. /\ DOMAIN y'.copy = BriefIds /\ y'.copy[i] = new
        /\ \A j \in BriefIds : j # i => y'.copy[j] = y.copy[j]
    BY <1>6, <2>1
  <2>3. IsTree(new) /\ new[q] = entry /\ \A r \in TreePaths : r # q => new[r] = old[r]
    BY <2>1 DEF IsTree
  <2>4. y'.copy # <<>>
    BY <2>2
  <2>5. Shaped'
    <3>1. IsTree(y'.tree) /\ \A j \in BriefIds : IsTree(y'.copy[j])
      BY <1>6, <2>1, <2>2, <2>3 DEF DelegationInv, Shaped
    <3> QED
      BY <1>1, <1>2, <1>3, <1>6, <2>2, <2>4, <3>1 DEF DelegationInv, Shaped
  <2>6. ASSUME NEW p \in TreePaths, LinkEscapes(new, p) PROVE Vouched(i)'
    <3>1. CASE IsLink(new, q)
      BY <2>3, <3>1 DEF IsLink, Vouched
    <3>2. CASE ~IsLink(new, q)
      <4>1. LinkEscapes(old, p)
        BY <2>1, <2>3, <2>6, <3>2, NoNewEscape
      <4> QED
        BY <1>4, <2>1, <4>1 DEF DelegationInv, Contained
    <3> QED
      BY <3>1, <3>2
  <2>7. Contained'
    <3>1. \A j \in BriefIds, p \in TreePaths : LinkEscapes(y'.copy[j], p) => Vouched(j)'
      BY <1>4, <2>1, <2>2, <2>6 DEF DelegationInv, Contained
    <3>2. \A o \in y'.outside : Vouched(o[1])'
      BY <1>1, <1>6 DEF DelegationInv, Contained, Vouched
    <3>3. \A p \in TreePaths : ~LinkEscapes(y'.base, p)
      BY <1>1, <2>1 DEF DelegationInv, Contained
    <3> QED
      BY <1>2, <3>1, <3>2, <3>3 DEF Contained
  <2>8. \A j \in BriefIds : y.pc = "reading" /\ Item(j) => Item(j)'
    BY <1>1, <1>3 DEF Item
  <2>9. Reading'
    BY <1>1, <1>2, <1>3, <2>8 DEF DelegationInv, Reading, ReadSoFar
  <2>10. Told'
    BY <1>1, <1>3 DEF Told, Ends
  <2> QED
    BY <2>5, <2>7, <2>9, <2>10 DEF DelegationInv
<1> QED
  BY <1>5, <1>6

LEMMA ReplaceKeeps ==
  ASSUME DelegationInv, NEW i \in BriefIds, NEW change \in y.call.workerChanges, Replace(i, change)
  PROVE  DelegationInv'
<1>1. DOMAIN y = Fields /\ y.call \in ToolCall /\ Writer(i)
  BY DEF DelegationInv, Shaped, Replace
<1>2. change.path \in TreePaths /\ IsEntry(change.entry)
  BY <1>1, MessagesTyped
<1> DEFINE wrote == Put(i, change.path, change.entry)
<1>3. y' = [wrote EXCEPT !.writes = @ + 1,
             !.made = IF change.entry # None /\ change.entry.kind = "link" THEN @ \cup {<<i, change.path>>} ELSE @]
  BY DEF Replace
<1>4. /\ DOMAIN wrote = Fields /\ \A f \in Fields \ {"copy", "tree"} : wrote[f] = y[f]
      /\ Isolated => wrote.tree = y.tree /\ wrote.copy = [y.copy EXCEPT ![i] = [y.copy[i] EXCEPT ![change.path] = change.entry]]
      /\ ~Isolated => wrote.copy = y.copy /\ wrote.tree = [y.tree EXCEPT ![change.path] = change.entry]
  BY <1>1 DEF Put, Fields
<1> HIDE DEF wrote
<1>5. /\ DOMAIN y' = Fields /\ y'.copy = wrote.copy /\ y'.tree = wrote.tree
      /\ \A f \in Fields \ {"copy", "tree", "writes", "made"} : y'[f] = wrote[f]
      /\ y'.made = IF change.entry # None /\ change.entry.kind = "link" THEN wrote.made \cup {<<i, change.path>>} ELSE wrote.made
  BY <1>3, <1>4 DEF Fields
<1>6. Same({"call", "base", "outside", "there", "results", "pc", "busy", "todo", "loose"})
  BY <1>4, <1>5 DEF Same, Fields
<1>7. wrote.made = y.made
  BY <1>4 DEF Fields
<1> DEFINE q == change.path
           entry == change.entry
<1>8. y.made \subseteq y'.made /\ (entry # None /\ entry.kind = "link" => <<i, q>> \in y'.made)
  BY <1>5, <1>7
<1>9. /\ Isolated => y'.tree = y.tree /\ y'.copy = [y.copy EXCEPT ![i] = [y.copy[i] EXCEPT ![q] = entry]]
      /\ ~Isolated => y'.copy = y.copy /\ y'.tree = [y.tree EXCEPT ![q] = entry]
      /\ q \in TreePaths /\ IsEntry(entry)
  BY <1>2, <1>4, <1>5
<1> HIDE DEF q, entry
<1> QED
  BY <1>1, <1>6, <1>8, <1>9, WriteKeeps

\* A write through a link that leads out needs a link that leads out.
LEMMA WriteThroughKeeps ==
  ASSUME DelegationInv, NEW i \in BriefIds, NEW p \in TreePaths, WriteThrough(i, p)
  PROVE  DelegationInv'
<1>1. DOMAIN y = Fields /\ Writer(i) /\ IsLink(Of(i), p)
  BY DEF DelegationInv, Shaped, WriteThrough
<1>2. y.pc \in {"running", "reading"} /\ (y.pc = "reading" => y.busy)
  BY <1>1 DEF Writer, BriefIs, DelegationInv, Reading
<1> DEFINE to == Reach(Of(i), p)
           wrote == Put(i, to, File("worker's"))
<1>3. \/ to = Out /\ y' = [y EXCEPT !.writes = @ + 1, !.outside = @ \cup {<<i, p>>}]
      \/ to # Out /\ y' = y
      \/ to # Out /\ y' = [wrote EXCEPT !.writes = @ + 1]
  BY DEF WriteThrough
<1>4. CASE y' = y
  <2>1. /\ y'.call = y.call /\ (Shaped' <=> Shaped) /\ (Contained' <=> Contained) /\ (Reading' <=> Reading) /\ (Told' <=> Told)
    BY <1>4 DEF Shaped, Contained, Reading, Told, Isolated, BriefIds, Vouched, Item, ReadSoFar
  <2> QED
    BY <2>1 DEF DelegationInv
<1>5. CASE to = Out /\ y' = [y EXCEPT !.writes = @ + 1, !.outside = @ \cup {<<i, p>>}]
  <2>1. /\ DOMAIN y' = Fields /\ y'.call = y.call /\ y'.copy = y.copy /\ y'.base = y.base /\ y'.tree = y.tree
        /\ y'.made = y.made /\ y'.there = y.there /\ y'.results = y.results /\ y'.pc = y.pc
        /\ y'.busy = y.busy /\ y'.todo = y.todo /\ y'.loose = y.loose /\ y'.outside = y.outside \cup {<<i, p>>}
    BY <1>1, <1>5 DEF Fields
  <2>2. BriefIds' = BriefIds /\ (Isolated' <=> Isolated)
    BY <2>1, SameCall
  <2>3. Shaped'
    BY <2>1, <2>2 DEF DelegationInv, Shaped
  <2>4. Isolated => Vouched(i)
    <3>1. ASSUME Isolated PROVE Vouched(i)
      <4>1. y.copy # <<>> /\ LinkEscapes(y.copy[i], p)
        BY <1>1, <1>2, <1>5, <3>1 DEF DelegationInv, Shaped, Of, LinkEscapes
      <4> QED
        BY <4>1 DEF DelegationInv, Contained
    <3> QED
      BY <3>1
  <2>5. Contained'
    <3>1. \A j : Vouched(j)' <=> Vouched(j)
      BY <2>1 DEF Vouched
    <3>2. Isolated => \A o \in y'.outside : Vouched(o[1])'
      BY <2>1, <2>4, <3>1 DEF DelegationInv, Contained
    <3> QED
      BY <2>1, <2>2, <3>1, <3>2 DEF DelegationInv, Contained
  <2>6. \A j \in BriefIds : Item(j) <=> Item(j)'
    BY <2>1 DEF Item
  <2>7. Reading'
    BY <2>1, <2>2, <2>6 DEF DelegationInv, Reading, ReadSoFar
  <2>8. Told'
    BY <1>2, <2>1 DEF Told, Ends
  <2> QED
    BY <2>3, <2>5, <2>7, <2>8 DEF DelegationInv
<1>6. CASE to # Out /\ y' = [wrote EXCEPT !.writes = @ + 1]
  <2>1. to \in TreePaths
    <3>1. IsTree(Of(i))
      BY <1>2 DEF DelegationInv, Shaped, Of
    <3>2. \A r \in TreePaths \cup {Out} : Follow(Of(i), r) \in TreePaths \cup {Out}
      BY <3>1 DEF Follow, IsLink, IsTree, IsEntry
    <3>3. to = Follow(Of(i), Follow(Of(i), Follow(Of(i), p)))
      BY ReachSteps
    <3> HIDE DEF to
    <3> QED
      BY <1>6, <3>2, <3>3
  <2> HIDE DEF to
  <2>2. /\ DOMAIN wrote = Fields /\ \A f \in Fields \ {"copy", "tree"} : wrote[f] = y[f]
        /\ Isolated => wrote.tree = y.tree /\ wrote.copy = [y.copy EXCEPT ![i] = [y.copy[i] EXCEPT ![to] = File("worker's")]]
        /\ ~Isolated => wrote.copy = y.copy /\ wrote.tree = [y.tree EXCEPT ![to] = File("worker's")]
    BY <1>1 DEF Put, Fields
  <2> HIDE DEF wrote
  <2>3. /\ DOMAIN y' = Fields /\ y'.copy = wrote.copy /\ y'.tree = wrote.tree
        /\ \A f \in Fields \ {"copy", "tree", "writes"} : y'[f] = wrote[f]
    BY <1>6, <2>2 DEF Fields
  <2>4. Same({"call", "base", "outside", "there", "results", "pc", "busy", "todo", "loose"}) /\ y'.made = y.made
    BY <2>2, <2>3 DEF Same, Fields
  <2> DEFINE entry == File("worker's")
  <2>5. IsEntry(entry) /\ entry.kind # "link"
    BY DEF IsEntry, File
  <2>6. /\ Isolated => y'.tree = y.tree /\ y'.copy = [y.copy EXCEPT ![i] = [y.copy[i] EXCEPT ![to] = entry]]
        /\ ~Isolated => y'.copy = y.copy /\ y'.tree = [y.tree EXCEPT ![to] = entry]
    BY <2>2, <2>3
  <2> HIDE DEF entry
  <2> QED
    BY <1>1, <2>1, <2>4, <2>5, <2>6, WriteKeeps
<1> QED
  BY <1>3, <1>4, <1>5, <1>6
----------------------------------------------------------------------------
(* What is read back *)

\* Every process of a worker in a copy carries the mark, whatever the
\* launcher lets through.
LEMMA MarkCarried ==
  ASSUME Shaped, Isolated, NEW i
  PROVE  Carries(i)
<1>1. CopyEnv \in LauncherEnv /\ CopyEnv \in BaseAllow /\ CopyEnv \notin y.call.launcher.runner.clear
  BY MessagesTyped DEF LauncherEnv, BaseAllow, Shaped
<1> QED
  BY <1>1 DEF Carries, WorkerEnv, BuildEnv, EnvPolicy

LEMMA ReturnedKeeps ==
  ASSUME DelegationInv, AllReturned
  PROVE  DelegationInv'
<1>1. DOMAIN y = Fields /\ y.pc = "running"
  BY DEF DelegationInv, Shaped, AllReturned
<1>2. CASE ~Isolated
  <2>1. PICK reply : y' = Ended(reply)
    <3> DEFINE r == y.results[1]
               Reply == CASE y.call.tool = "delegate_many" -> ToolResult([ok |-> r.ok, results |-> y.results])
                          [] y.call.tool = "delegate" /\ r = BriefRaised -> Protocol(-32603)
                          [] OTHER -> ToolResult(r)
    <3>1. y' = Ended(Reply)
      BY <1>2 DEF AllReturned
    <3> HIDE DEF Reply
    <3> QED
      BY <3>1
  <2>2. y.copy = <<>> /\ IsTree(y.tree) /\ IsTree(y.base)
    BY <1>2 DEF DelegationInv, Shaped
  <2>3. /\ Same({"call", "copy", "outside", "made", "results", "there"}) /\ y'.tree = y.tree /\ y'.base = y.base
        /\ y'.pc = "reply"
    BY <1>1, <2>1 DEF Ended, Same, Fields
  <2>4. y'.pc \in Ends
    BY <2>3 DEF Ends
  <2> QED
    BY <2>2, <2>3, <2>4, NoCopiesYet
<1>3. CASE Isolated
  <2> DEFINE n == Briefs(y.call)
             todo == [i \in BriefIds |-> i]
  <2>1. /\ DOMAIN y' = Fields /\ y'.call = y.call /\ y'.copy = y.copy /\ y'.base = y.base /\ y'.tree = y.tree
        /\ y'.outside = y.outside /\ y'.made = y.made /\ y'.there = y.there /\ y'.results = y.results
        /\ y'.pc = "reading" /\ y'.loose = y.loose /\ y'.todo = todo
        /\ (y'.busy <=> \E i \in y.loose : Carries(i))
    <3> DEFINE busy == \E i \in y.loose : Carries(i)
    <3>1. y' = [y EXCEPT !.pc = "reading", !.todo = todo, !.busy = busy]
      BY <1>3 DEF AllReturned
    <3>2. busy \in BOOLEAN
      OBVIOUS
    <3> HIDE DEF busy, todo
    <3>3. y'.busy = busy
      BY <1>1, <3>1 DEF Fields
    <3>4. y'.busy <=> busy
      BY <3>2, <3>3
    <3> QED
      BY <1>1, <3>1, <3>4 DEF Fields, busy
  <2>2. BriefIds' = BriefIds /\ (Isolated' <=> Isolated)
    BY <2>1, SameCall
  <2>3. n \in Nat /\ BriefIds = 1..n
    BY CountedPaths DEF DelegationInv
  <2>4. Shaped'
    BY <1>1, <1>3, <2>1, <2>2 DEF DelegationInv, Shaped
  <2>5. Contained'
    BY <2>1, <2>2 DEF DelegationInv, Contained, Vouched
  <2>6. Told'
    BY <2>1 DEF Told, Ends
  <2>7. y'.busy \/ y'.loose = {}
    BY <1>3, <2>1, MarkCarried DEF DelegationInv
  <2>8. todo \in Seq(Nat) /\ Len(todo) = n /\ \A j \in 1..n : todo[j] = j
    BY <2>3
  <2>9. \A i \in BriefIds : i \in y.there
    BY <1>1, <1>3 DEF DelegationInv, Shaped
  <2> HIDE DEF todo, n
  <2>10. Briefs(y'.call) = n
    BY <2>1 DEF n
  <2>11. Reading'
    BY <2>1, <2>2, <2>3, <2>7, <2>8, <2>9, <2>10 DEF Reading, ReadSoFar
  <2> QED
    BY <2>4, <2>5, <2>6, <2>11 DEF DelegationInv
<1> QED
  BY <1>2, <1>3

LEMMA ReadingKeeps ==
  ASSUME DelegationInv, ReadCopy, NEW i, i = Head(y.todo), NEW n, n = Briefs(y.call), NEW l, l = Len(y.todo)
  PROVE  DelegationInv'
<1> DEFINE failed == Unreadable(y.base, y.copy[i])
           changes == IF failed THEN None ELSE DiffTrees(y.base, y.copy[i])
           changed == ~failed /\ ChangedIn(changes) # {}
           r == y.results[i]
           item == [ok |-> r.ok, exit |-> r.exit, model |-> r.model, error |-> r.error,
                    workspace |-> IF changed THEN i ELSE None, changes |-> changes]
           there == IF ~changed /\ ~failed /\ ~y.busy THEN y.there \ {i} ELSE y.there
<1>1. DOMAIN y = Fields /\ y.pc = "reading" /\ y.todo # <<>> /\ Isolated /\ y.copy # <<>> /\ DOMAIN y.results = BriefIds
  BY DEF DelegationInv, Shaped, ReadCopy
<1>2. y' = [y EXCEPT !.todo = Tail(@), !.results[i] = item, !.there = there]
  BY DEF ReadCopy
<1>3. /\ n \in Nat /\ BriefIds = 1..n /\ y.todo \in Seq(Nat) /\ l <= n /\ (y.busy \/ y.loose = {})
      /\ \A j \in 1..l : y.todo[j] = n - l + j
      /\ \A j \in BriefIds : IF j <= n - l THEN Item(j) ELSE j \in y.there
  BY <1>1, CountedPaths DEF DelegationInv, Reading, ReadSoFar
<1>4. i = n - l + 1 /\ i \in BriefIds /\ i # None
  <2>1. i = n - l + 1 /\ i \in BriefIds
    BY <1>1, <1>3
  <2> QED
    BY <2>1, CountedPaths DEF DelegationInv
<1>5. Tail(y.todo) \in Seq(Nat) /\ Len(Tail(y.todo)) = l - 1 /\ l \in Nat
      /\ \A j \in 1..Len(Tail(y.todo)) : Tail(y.todo)[j] = y.todo[j + 1]
  BY <1>1, <1>3
<1>8. /\ DOMAIN y' = Fields /\ y'.call = y.call /\ y'.copy = y.copy /\ y'.base = y.base /\ y'.tree = y.tree
      /\ y'.outside = y.outside /\ y'.made = y.made /\ y'.pc = y.pc /\ y'.busy = y.busy /\ y'.loose = y.loose
      /\ y'.todo = Tail(y.todo) /\ y'.there = there
      /\ y'.results = [y.results EXCEPT ![i] = item]
  <2> HIDE DEF item, there
  <2> QED
    BY <1>1, <1>2 DEF Fields
<1>9. item.workspace = (IF changed THEN i ELSE None) /\ item.changes = changes
  OBVIOUS
<1> HIDE DEF item
<1>10. /\ DOMAIN y'.results = BriefIds /\ y'.results[i] = item
       /\ \A j \in BriefIds : j # i => y'.results[j] = y.results[j]
  <2> QED
    BY <1>1, <1>4, <1>8
<1>11. i \in y.there
  <2>1. ~(i <= n - l)
    BY <1>3, <1>4
  <2> QED
    BY <1>3, <1>4, <2>1
<1>12. Item(i)'
  <2>1. changed => i \in there
    BY <1>11
  <2>2. failed => changes = None
    OBVIOUS
  <2>3. ~failed => changes = DiffTrees(y.base, y.copy[i]) /\ (changed <=> ChangedIn(changes) # {})
    OBVIOUS
  <2> HIDE DEF failed, changes, changed, there
  <2>4. /\ y'.results[i].workspace = (IF changed THEN i ELSE None) /\ y'.results[i].changes = changes
        /\ y'.there = there /\ y'.base = y.base /\ y'.copy = y.copy
    BY <1>8, <1>9, <1>10
  <2>5. y'.results[i].workspace # None => i \in y'.there
    BY <2>1, <2>4
  <2>6. CASE failed
    BY <2>2, <2>4, <2>5, <2>6 DEF Item
  <2>7. CASE ~failed
    BY <2>3, <2>4, <2>5, <2>7 DEF Item
  <2> QED
    BY <2>6, <2>7
<1>13. \A j \in BriefIds : j # i => (Item(j) => Item(j)') /\ (j \in y.there => j \in y'.there)
  <2>1. \A j \in BriefIds : j # i => (j \in y.there => j \in y'.there)
    BY <1>8
  <2> HIDE DEF failed, changes, changed, there
  <2> QED
    BY <1>8, <1>10, <2>1 DEF Item
<1> HIDE DEF failed, changes, changed, there
<1>14. BriefIds' = BriefIds /\ (Isolated' <=> Isolated) /\ Briefs(y'.call) = n
  BY <1>8, SameCall
<1>15. Shaped'
  BY <1>1, <1>8, <1>10, <1>14 DEF DelegationInv, Shaped
<1>16. Contained'
  BY <1>8, <1>14 DEF DelegationInv, Contained, Vouched
<1>17. Told'
  BY <1>1, <1>8 DEF Told, Ends
<1>18. Reading'
  <2>1. y'.todo \in Seq(Nat) /\ Len(y'.todo) <= n /\ Len(y'.todo) = l - 1
        /\ \A j \in 1..Len(y'.todo) : y'.todo[j] = n - Len(y'.todo) + j
    <3> DEFINE rest == Tail(y.todo)
    <3>1. l \in Nat /\ n \in Nat /\ l <= n /\ Len(rest) = l - 1 /\ rest \in Seq(Nat) /\ y'.todo = rest
          /\ \A j \in 1..(l - 1) : rest[j] = y.todo[j + 1]
      BY <1>3, <1>5, <1>8
    <3>2. ASSUME NEW j \in 1..(l - 1) PROVE rest[j] = n - (l - 1) + j
      <4>1. j + 1 \in 1..l
        BY <3>1
      <4>2. y.todo[j + 1] = n - l + (j + 1)
        BY <1>3, <4>1
      <4>3. rest[j] = y.todo[j + 1]
        BY <3>1
      <4>4. n - l + (j + 1) = n - (l - 1) + j
        <5>1. l \in Nat /\ n \in Nat /\ j \in Nat
          BY <3>1, <4>1
        <5> QED
          BY ONLY <5>1
      <4> QED
        BY <4>2, <4>3, <4>4
    <3>3. y'.todo \in Seq(Nat) /\ Len(y'.todo) = l - 1 /\ l - 1 <= n
      BY <3>1
    <3>4. \A j \in 1..(l - 1) : y'.todo[j] = n - (l - 1) + j
      BY <3>1, <3>2
    <3> QED
      BY <3>3, <3>4
  <2>2. ASSUME NEW j \in BriefIds PROVE IF j <= n - Len(y'.todo) THEN Item(j)' ELSE j \in y'.there
    <3>a. /\ l \in Nat /\ j \in 1..n /\ Len(y'.todo) = l - 1 /\ i = n - l + 1
          /\ IF j <= n - l THEN Item(j) ELSE j \in y.there
      BY <1>3, <1>4, <1>5, <2>1
    <3>1. CASE j = i
      <4>1. j <= n - (l - 1)
        BY <1>3, <3>a, <3>1
      <4> QED
        BY <1>12, <3>a, <3>1, <4>1
    <3>2. CASE j # i /\ j <= n - l
      <4>1. j <= n - (l - 1)
        BY <1>3, <3>a, <3>2
      <4> QED
        BY <1>13, <3>a, <3>2, <4>1
    <3>3. CASE j # i /\ ~(j <= n - l)
      <4>1. ~(j <= n - (l - 1))
        BY <1>3, <3>a, <3>3
      <4> QED
        BY <1>13, <3>a, <3>3, <4>1
    <3> QED
      BY <3>1, <3>2, <3>3
  <2> QED
    BY <1>3, <1>8, <1>14, <2>1, <2>2 DEF Reading, ReadSoFar
<1> QED
  BY <1>15, <1>16, <1>17, <1>18 DEF DelegationInv

LEMMA ReadCopyKeeps ==
  ASSUME DelegationInv, ReadCopy
  PROVE  DelegationInv'
BY ReadingKeeps

LEMMA AllReadKeeps ==
  ASSUME DelegationInv, AllRead
  PROVE  DelegationInv'
<1> DEFINE named == \E i \in BriefIds : y.results[i].workspace # None
           result == [ok |-> \A i \in BriefIds : y.results[i].ok, results |-> y.results,
                      skipped |-> y.skipped, kept |-> y.busy]
           record == y.busy \/ named
           there == IF y.busy \/ named THEN y.there ELSE {}
           handed == named /\ ~y.busy
<1>1. DOMAIN y = Fields /\ y.pc = "reading" /\ y.todo = <<>> /\ Isolated /\ y.copy # <<>> /\ DOMAIN y.results = BriefIds
  BY DEF DelegationInv, Shaped, AllRead
<1>2. y' = [Ended(ToolResult(result)) EXCEPT !.record = record, !.there = there, !.handed = handed]
  BY DEF AllRead, Ended
<1>3. record \in BOOLEAN /\ handed \in BOOLEAN /\ result.results = y.results /\ result.kept = y.busy
  OBVIOUS
<1>4. \A i \in BriefIds : Item(i)
  <2>1. Briefs(y.call) \in Nat /\ BriefIds = 1..Briefs(y.call) /\ Len(y.todo) = 0
    BY <1>1, CountedPaths DEF DelegationInv
  <2> QED
    BY <1>1, <2>1 DEF DelegationInv, Reading, ReadSoFar
<1>5. \A i \in BriefIds : y.results[i].workspace # None => there = y.there
  OBVIOUS
<1>6. (record <=> (y.busy \/ named)) /\ (handed <=> (named /\ ~y.busy))
  OBVIOUS
<1> HIDE DEF result, record, there, handed
<1>7. /\ DOMAIN y' = Fields /\ y'.call = y.call /\ y'.copy = y.copy /\ y'.base = y.base /\ y'.tree = y.tree
      /\ y'.outside = y.outside /\ y'.made = y.made /\ y'.pc = "reply" /\ y'.busy = y.busy /\ y'.results = y.results
      /\ y'.there = there /\ y'.record = record /\ y'.handed = handed /\ y'.reply.result = result
  BY <1>1, <1>2 DEF Fields, Ended, ToolResult
<1>8. BriefIds' = BriefIds /\ (Isolated' <=> Isolated)
  BY <1>7, SameCall
<1>9. Shaped'
  BY <1>1, <1>7, <1>8 DEF DelegationInv, Shaped
<1>10. Contained'
  BY <1>7, <1>8 DEF DelegationInv, Contained, Vouched
<1>11. \A i \in BriefIds : Item(i)'
  BY <1>4, <1>5, <1>7 DEF Item
<1>12. (y'.record /\ ~y'.handed) <=> y'.busy
  <2>1. (y'.record <=> record) /\ (y'.handed <=> handed)
    BY <1>7
  <2> QED
    BY <1>6, <1>7, <2>1
<1>13. Reading' /\ Told'
  BY <1>3, <1>7, <1>8, <1>11, <1>12 DEF Reading, Told
<1> QED
  BY <1>9, <1>10, <1>13 DEF DelegationInv

LEMMA ServeKeeps ==
  ASSUME DelegationInv, Serve \/ ReplyLost
  PROVE  DelegationInv'
<1>1. DOMAIN y = Fields /\ y.pc = "reply"
  BY DEF DelegationInv, Shaped, Serve, ReplyLost
<1>2. /\ DOMAIN y' = Fields /\ y'.call = y.call /\ y'.copy = y.copy /\ y'.base = y.base /\ y'.tree = y.tree
      /\ y'.outside = y.outside /\ y'.made = y.made /\ y'.busy = y.busy /\ y'.results = y.results
      /\ y'.there = y.there /\ y'.reply = y.reply
      /\ (y'.pc = "served" /\ (y'.record <=> (y.record /\ ~y.handed))) \/ y'.pc = "lost"
  <2>1. CASE Serve
    <3> DEFINE record == y.record /\ ~y.handed
    <3>1. y' = [y EXCEPT !.pc = "served", !.record = record]
      BY <2>1 DEF Serve
    <3> HIDE DEF record
    <3>2. y'.record = record
      BY <1>1, <3>1 DEF Fields
    <3>3. y'.record <=> record
      BY <3>2
    <3> QED
      BY <1>1, <3>1, <3>3 DEF Fields, record
  <2>2. CASE ReplyLost
    BY <1>1, <2>2 DEF ReplyLost, Fields
  <2> QED
    BY <2>1, <2>2
<1>3. BriefIds' = BriefIds /\ (Isolated' <=> Isolated)
  BY <1>2, SameCall
<1>4. \A j \in BriefIds : Item(j) <=> Item(j)'
  BY <1>2 DEF Item
<1>5. Shaped'
  BY <1>2, <1>3 DEF DelegationInv, Shaped
<1>6. Contained'
  BY <1>2, <1>3 DEF DelegationInv, Contained, Vouched
<1>7. Reading' /\ Told'
  BY <1>1, <1>2, <1>3, <1>4 DEF DelegationInv, Reading, Told, Ends
<1> QED
  BY <1>5, <1>6, <1>7 DEF DelegationInv

LEMMA StepKeeps ==
  ASSUME DelegationInv, [DelegationNext]_y
  PROVE  DelegationInv'
<1>1. CASE UNCHANGED y
  BY <1>1 DEF DelegationInv, Shaped, Contained, Reading, Told, Isolated, BriefIds, Vouched, Item, ReadSoFar
<1>2. CASE DelegationNext
  BY <1>2, HandleKeeps, ListKeeps, CopyKeeps, CopiesMadeKeeps, ReturnedKeeps, ReadCopyKeeps, AllReadKeeps,
     ServeKeeps, OwnerKeeps, BriefsKeep, LooseEndsKeep, ReplaceKeeps, WriteThroughKeeps DEF DelegationNext
<1> QED
  BY <1>1, <1>2
----------------------------------------------------------------------------
(* What the patch and the lists say *)

LEMMA TwoCounted ==
  ASSUME NEW a, NEW b, a # b
  PROVE  Cardinality({a, b}) > 1
<1>1. Cardinality({a}) = 1 /\ IsFiniteSet({a})
  BY FS_Singleton
<1>2. {a, b} = {a} \cup {b} /\ b \notin {a}
  OBVIOUS
<1>3. Cardinality({a} \cup {b}) = Cardinality({a}) + 1
  BY <1>1, <1>2, FS_AddElement
<1> QED
  BY <1>1, <1>2, <1>3

\* A difference is shown, or listed as not shown, unless the patch says that
\* it was cut off.
LEMMA DiffSaysAll ==
  ASSUME NEW old, NEW new, NEW c, c = DiffTrees(old, new), ~c.truncated, NEW p \in ChangedIn(c),
         p \notin c.notDiffed, p \notin c.patch, p \notin c.binary
  PROVE  DiffText(old[p]) = DiffText(new[p])
<1> DEFINE added == Tree(new) \ Tree(old)
           deleted == Tree(old) \ Tree(new)
           modified == {q \in Tree(old) \cap Tree(new) : ~SameEntry(old, new, q)}
           changed == added \cup deleted \cup modified
           texts(q) == {DiffText(old[q]), DiffText(new[q])}
           tooBig == {q \in changed : "too large" \in texts(q)}
           binary == {q \in changed \ tooBig : "binary" \in texts(q)}
           shown == {q \in changed \ (tooBig \cup binary) : Cardinality(texts(q)) > 1}
           before(q) == {r \in shown : r < q}
           late == {q \in changed : Cardinality(before(q)) > PatchLimit}
           patch == {q \in shown \ late : Cardinality(before(q)) < PatchLimit}
           leaving == {q \in added \cup modified : LinkEscapes(new, q)}
<1>1. c = [added |-> added, deleted |-> deleted, modified |-> modified,
           binary |-> binary \ late, notDiffed |-> tooBig \cup late,
           patch |-> patch, truncated |-> Cardinality(shown \ late) > PatchLimit, leaving |-> leaving]
  BY DEF DiffTrees
<1>2. changed \subseteq TreePaths
  BY DEF Tree
<1>3. shown \subseteq TreePaths /\ shown \subseteq changed
  BY <1>2
<1>4. /\ p \in changed /\ p \notin tooBig /\ p \notin late /\ p \notin binary /\ p \notin patch
      /\ ~(Cardinality(shown \ late) > PatchLimit)
  <2> HIDE DEF added, deleted, modified, tooBig, binary, shown, late, patch, leaving
  <2>1. /\ c.notDiffed = tooBig \cup late /\ c.binary = binary \ late /\ c.patch = patch
        /\ ChangedIn(c) = changed
    BY <1>1 DEF ChangedIn
  <2>2. c.truncated <=> (Cardinality(shown \ late) > PatchLimit)
    <3> DEFINE truncated == Cardinality(shown \ late) > PatchLimit
    <3>1. truncated \in BOOLEAN
      OBVIOUS
    <3> HIDE DEF truncated
    <3>2. c.truncated = truncated
      BY <1>1 DEF truncated
    <3> QED
      BY <3>1, <3>2 DEF truncated
  <2> QED
    BY <2>1, <2>2
<1>5. SUFFICES ASSUME p \in shown PROVE FALSE
  <2>1. ASSUME DiffText(old[p]) # DiffText(new[p]) PROVE Cardinality(texts(p)) > 1
    BY <2>1, TwoCounted, Zenon
  <2> HIDE DEF changed, tooBig, binary, texts
  <2> QED
    BY <1>4, <2>1 DEF texts
<1> HIDE DEF changed, tooBig, binary, texts, shown
<1>6. IsFiniteSet(shown) /\ \A T \in SUBSET shown : IsFiniteSet(T) /\ Cardinality(T) \in Nat
  <2>1. IsFiniteSet(shown)
    BY <1>3, PathsCounted, FS_Subset
  <2> QED
    BY <2>1, FS_Subset, FS_CardinalityType
<1> DEFINE b == before(p)
           most == shown \ late
<1>7. b \in SUBSET shown /\ most \in SUBSET shown /\ p \notin b /\ p \in most
  <2>1. p \in TreePaths
    BY <1>2, <1>4
  <2> HIDE DEF late
  <2> QED
    BY <1>4, <1>5, <2>1 DEF TreePaths
<1>8. ASSUME NEW q \in b PROVE q \in most
  <2>1. q \in shown /\ q < p /\ q \in TreePaths /\ p \in TreePaths
    BY <1>2, <1>3, <1>4
  <2>2. before(q) \subseteq b
    <3>1. \A r \in TreePaths : r < q => r < p
      BY <2>1 DEF TreePaths
    <3> QED
      BY <1>3, <3>1
  <2>3. Cardinality(before(q)) <= Cardinality(b) /\ Cardinality(before(q)) \in Nat /\ Cardinality(b) \in Nat
    <3>1. before(q) \in SUBSET shown
      OBVIOUS
    <3> HIDE DEF before, b
    <3> QED
      BY <1>6, <1>7, <2>2, <3>1, FS_Subset
  <2>4. ~(Cardinality(b) > PatchLimit)
    BY <1>4
  <2> HIDE DEF before, b
  <2>5. ~(Cardinality(before(q)) > PatchLimit)
    BY <2>3, <2>4, MessagesTyped
  <2> QED
    BY <2>1, <2>5
<1>9. ~(Cardinality(b) < PatchLimit)
  BY <1>4, <1>5
<1>10. ~(Cardinality(most) > PatchLimit)
  BY <1>4
<1> HIDE DEF b, most
<1>11. IsFiniteSet(b) /\ Cardinality(b) \in Nat /\ IsFiniteSet(most) /\ Cardinality(most) \in Nat
  BY <1>6, <1>7
<1>12. Cardinality(b \cup {p}) = Cardinality(b) + 1
  BY <1>7, <1>11, FS_AddElement
<1>13. Cardinality(b \cup {p}) <= Cardinality(most)
  <2>1. b \cup {p} \subseteq most
    BY <1>7, <1>8
  <2> QED
    BY <1>11, <2>1, FS_Subset
<1> QED
  BY <1>9, <1>10, <1>11, <1>12, <1>13, MessagesTyped

\* What is said of a copy that was compared.
LEMMA ItemTellsAll ==
  ASSUME DelegationInv, y.copy # <<>>, NEW i \in BriefIds, NEW c, c = DiffTrees(y.base, y.copy[i])
  PROVE  /\ {p \in TreePaths : y.copy[i][p] # y.base[p]} = ChangedIn(c)
         /\ \A p \in TreePaths : y.copy[i][p] = Link(Out) => p \in c.leaving
         /\ c.truncated \/ \A p \in ChangedIn(c) :
              p \in c.notDiffed \/ p \in c.patch \cup c.binary \/ DiffText(y.copy[i][p]) = DiffText(y.base[p])
<1> DEFINE old == y.base
           new == y.copy[i]
<1>1. {p \in TreePaths : new[p] # old[p]} = ChangedIn(c)
  <2>1. /\ c.added = Tree(new) \ Tree(old) /\ c.deleted = Tree(old) \ Tree(new)
        /\ c.modified = {p \in Tree(old) \cap Tree(new) : ~SameEntry(old, new, p)}
    BY DEF DiffTrees
  <2> HIDE DEF old, new
  <2> QED
    BY <2>1 DEF ChangedIn, Tree, SameEntry
<1>2. ASSUME NEW p \in TreePaths, new[p] = Link(Out) PROVE p \in c.leaving
  <2>1. IsTree(old) /\ ~LinkEscapes(old, p)
    BY DEF DelegationInv, Shaped, Contained
  <2>2. \A tree : tree[p] = Link(Out) => LinkEscapes(tree, p)
    <3> TAKE tree
    <3> HAVE tree[p] = Link(Out)
    <3>1. p # Out /\ IsLink(tree, p) /\ tree[p].to = Out
      BY MessagesTyped DEF Link, IsLink, Out, TreePaths
    <3>2. Reach(tree, p) = Out
      BY <3>1, ReachSteps DEF Follow
    <3> QED
      BY <3>1, <3>2 DEF LinkEscapes
  <2>3. c.added = Tree(new) \ Tree(old) /\ c.modified = {q \in Tree(old) \cap Tree(new) : ~SameEntry(old, new, q)}
        /\ c.leaving = {q \in c.added \cup c.modified : LinkEscapes(new, q)}
    BY DEF DiffTrees
  <2> HIDE DEF old, new
  <2>4. old[p] # new[p] /\ new[p] # None /\ LinkEscapes(new, p)
    BY <1>2, <2>1, <2>2, MessagesTyped
  <2> QED
    BY <2>3, <2>4 DEF Tree, SameEntry
<1>3. ~c.truncated => \A p \in ChangedIn(c) :
              p \in c.notDiffed \/ p \in c.patch \cup c.binary \/ DiffText(y.copy[i][p]) = DiffText(y.base[p])
  BY DiffSaysAll
<1> QED
  BY <1>1, <1>2, <1>3
----------------------------------------------------------------------------
(* The theorems *)

\* What the copies hold, who reads and writes them and what the reply has
\* been told at every point of a message.
THEOREM DelegationHolds == DelegationSpec => []DelegationInv
<1>1. DelegationInit => DelegationInv
  BY StartInv
<1>2. DelegationInv /\ [DelegationNext]_y => DelegationInv'
  BY StepKeeps
<1> QED
  BY <1>1, <1>2, PTL DEF DelegationSpec

\* A worker in a copy writes outside of it only by way of a link it, or its
\* leftovers, made there, whatever the tree's owner does during the copying,
\* and all it leaves behind carries the copy's mark.
THEOREM WorkIsContained == DelegationSpec => []WorkStaysInCopies
<1>1. DelegationInv => WorkStaysInCopies
  BY MarkCarried DEF DelegationInv, Contained, Vouched, WorkStaysInCopies
<1> QED
  BY <1>1, DelegationHolds, PTL

\* A reply the planner got says of every copy what it now holds: nothing a
\* worker did is left out, and a record protects what nobody was given.
THEOREM RepliesTellAll == DelegationSpec => []ReplyTellsAll
<1>1. DelegationInv => ReplyTellsAll
  <2> SUFFICES ASSUME DelegationInv, y.pc = "served", Isolated, y.copy # <<>>
               PROVE  ReplyTellsAll
    BY DEF ReplyTellsAll
  <2> DEFINE r == y.reply.result
             read == {i \in BriefIds : r.results[i].changes # None}
  <2>1. /\ r.results = y.results /\ (r.kept <=> y.busy) /\ (y.record <=> y.busy)
        /\ \A i \in BriefIds : Item(i)
    BY DEF DelegationInv, Told, Ends
  <2>2. None \notin BriefIds
    BY CountedPaths DEF DelegationInv
  <2>3. ASSUME NEW i \in read
        PROVE  LET item == r.results[i]
                   c == item.changes
                   shown(p) == p \in c.patch \cup c.binary \/ DiffText(y.copy[i][p]) = DiffText(y.base[p])
               IN /\ item.workspace # None => i \in y.there
                  /\ ~r.kept =>
                       /\ {p \in TreePaths : y.copy[i][p] # y.base[p]} = ChangedIn(c)
                       /\ (item.workspace = None) <=> (ChangedIn(c) = {})
                       /\ \A p \in TreePaths : y.copy[i][p] = Link(Out) => p \in c.leaving
                       /\ c.truncated \/ \A p \in ChangedIn(c) : p \in c.notDiffed \/ shown(p)
    <3> DEFINE item == r.results[i]
               c == item.changes
    <3>1. i \in BriefIds /\ c # None /\ item = y.results[i]
      BY <2>1
    <3>2. item.workspace # None => i \in y.there
      BY <2>1, <3>1 DEF Item
    <3>3. CASE r.kept
      BY <3>2, <3>3
    <3>4. CASE ~r.kept
      <4>1. c = DiffTrees(y.base, y.copy[i]) /\ item.workspace = IF ChangedIn(c) # {} THEN i ELSE None
        BY <2>1, <3>1, <3>4 DEF Item
      <4>2. (item.workspace = None) <=> (ChangedIn(c) = {})
        BY <2>2, <3>1, <4>1
      <4> HIDE DEF c
      <4>3. /\ {p \in TreePaths : y.copy[i][p] # y.base[p]} = ChangedIn(c)
            /\ \A p \in TreePaths : y.copy[i][p] = Link(Out) => p \in c.leaving
            /\ c.truncated \/ \A p \in ChangedIn(c) :
                 p \in c.notDiffed \/ p \in c.patch \cup c.binary \/ DiffText(y.copy[i][p]) = DiffText(y.base[p])
        BY <3>1, <4>1, ItemTellsAll
      <4> QED
        BY <3>2, <4>2, <4>3 DEF c
    <3> QED
      BY <3>3, <3>4
  <2> QED
    BY <2>1, <2>3 DEF ReplyTellsAll
<1> QED
  BY <1>1, DelegationHolds, PTL

----------------------------------------------------------------------------
(* The processes of a job                                                    *)

(***************************************************************************)
(* The inductive invariant, for signals that do not arrive while handlers  *)
(* are being exchanged                                                     *)
(***************************************************************************)
MainState == [pc : {"hold", "fork", "register", "release", "restore", "deliver", "communicate",
                    "check", "grace", "pop", "over"},
              hold : {"start", "stop"}, inTry : BOOLEAN, raised : BOOLEAN, caught : BOOLEAN]

Types ==
  /\ proc \in [Proc -> {"none", "live", "gone"}]
  /\ main \in MainState
  /\ handler \in {"none", "grace"}
  /\ put \subseteq Sig
  /\ holding \in BOOLEAN
  /\ pending \in Seq(Sig)
  /\ registered \in BOOLEAN /\ interrupted \in BOOLEAN
  /\ count \in [arrived : 0..MaxSignals, seen : Nat, raised : Nat]

\* While the _HeldSignals object is in force the signals are its own; a handler
\* runs only where they are not, and none after a Ctrl-C.
Held ==
  /\ main.pc \in {"hold", "fork", "register", "grace", "release"} <=> holding
  /\ main.pc \in {"fork", "register", "grace", "release"} => put = Sig
  /\ main.pc \in {"deliver", "communicate", "check", "pop", "over"} => put = {}
  /\ handler = "grace" => main.pc \in {"deliver", "communicate", "check", "pop"}
  /\ interrupted => handler = "none"

\* Every signal that arrived has been seen or waits.
Counted ==
  /\ count.arrived = count.seen + Len(pending)
  /\ count.raised <= count.seen
  /\ main.pc \in {"communicate", "check", "pop", "over"} => pending = <<>>

\* Where run is with the job: not started, registered, stopped.
Staged ==
  /\ main.pc \in {"fork", "register"} => main.hold = "start" /\ ~registered
  /\ main.pc = "grace" => main.hold = "stop"
  /\ main.pc \in {"communicate", "check"} => main.hold = "start" /\ registered
  /\ main.hold = "start" /\ main.pc \in {"hold", "fork", "register"} => ~registered /\ ~main.raised
  /\ main.hold = "start" /\ main.pc \in {"release", "restore", "deliver"} => registered = ~main.raised
  /\ main.pc # "over" /\ main.hold = "stop" => registered
  /\ main.hold = "stop" /\ ~main.inTry => main.raised
  /\ main.pc = "pop" => registered

\* Nothing of the job lives before it is started and after it was stopped.
Empty ==
  /\ main.hold = "start" /\ main.pc # "register" /\ ~registered => Live = {}
  /\ main.hold = "stop" /\ main.pc \in {"release", "restore", "deliver"} => Live = {}
  /\ main.pc \in {"pop", "over"} => Live = {}

\* A stop that was raised is on its way: in a handler, in release, or in run.
OnItsWay ==
  /\ count.raised > 0 => main.raised \/ main.caught \/ handler = "grace"
  /\ main.caught /\ main.pc # "deliver" => main.raised

IInv == Types /\ Held /\ Counted /\ Staged /\ Empty /\ OnItsWay

(***************************************************************************)
(* One lemma per step                                                      *)
(***************************************************************************)
LEMMA HoldNextKeeps == ASSUME IInv, HoldNext PROVE IInv'
<1> USE DEF IInv, MainState, Sig, At
<1>1. Types'
  BY DEF Types, HoldNext
<1>2. Held'
  BY DEF Types, Held, HoldNext
<1>3. Counted'
  BY DEF Types, Held, Counted, HoldNext
<1>4. Staged'
  BY DEF Types, Held, Staged, HoldNext
<1>5. Empty'
  BY DEF Types, Held, Staged, Empty, Live, HoldNext
<1>6. OnItsWay'
  BY DEF Types, Held, Staged, OnItsWay, HoldNext
<1> QED
  BY <1>1, <1>2, <1>3, <1>4, <1>5, <1>6

LEMMA HoldDoneKeeps == ASSUME IInv, HoldDone PROVE IInv'
<1> USE DEF IInv, MainState, Sig, At
<1>1. Types'
  BY DEF Types, HoldDone
<1>2. Held'
  BY DEF Types, Held, HoldDone
<1>3. Counted'
  BY DEF Types, Held, Counted, HoldDone
<1>4. Staged'
  BY DEF Types, Held, Staged, HoldDone
<1>5. Empty'
  BY DEF Types, Held, Staged, Empty, Live, HoldDone
<1>6. OnItsWay'
  BY DEF Types, Held, Staged, OnItsWay, HoldDone
<1> QED
  BY <1>1, <1>2, <1>3, <1>4, <1>5, <1>6

LEMMA ReleaseKeeps == ASSUME IInv, Release PROVE IInv'
<1> USE DEF IInv, MainState, Sig, At
<1>1. Types'
  BY DEF Types, Release
<1>2. Held'
  BY DEF Types, Held, Release
<1>3. Counted'
  BY DEF Types, Held, Counted, Release
<1>4. Staged'
  BY DEF Types, Held, Staged, Release
<1>5. Empty'
  BY DEF Types, Held, Staged, Empty, Live, Release
<1>6. OnItsWay'
  BY DEF Types, Held, Staged, OnItsWay, Release
<1> QED
  BY <1>1, <1>2, <1>3, <1>4, <1>5, <1>6

LEMMA RestoreNextKeeps == ASSUME IInv, RestoreNext PROVE IInv'
<1> USE DEF IInv, MainState, Sig, At
<1>1. Types'
  BY DEF Types, RestoreNext
<1>2. Held'
  BY DEF Types, Held, RestoreNext
<1>3. Counted'
  BY DEF Types, Held, Counted, RestoreNext
<1>4. Staged'
  BY DEF Types, Held, Staged, RestoreNext
<1>5. Empty'
  BY DEF Types, Held, Staged, Empty, Live, RestoreNext
<1>6. OnItsWay'
  BY DEF Types, Held, Staged, OnItsWay, RestoreNext
<1> QED
  BY <1>1, <1>2, <1>3, <1>4, <1>5, <1>6

LEMMA RestoredKeeps == ASSUME IInv, Restored PROVE IInv'
<1> USE DEF IInv, MainState, Sig, At
<1>1. Types'
  BY DEF Types, Restored
<1>2. Held'
  BY DEF Types, Held, Restored
<1>3. Counted'
  BY DEF Types, Held, Counted, Restored
<1>4. Staged'
  BY DEF Types, Held, Staged, Restored
<1>5. Empty'
  BY DEF Types, Held, Staged, Empty, Live, Restored
<1>6. OnItsWay'
  BY DEF Types, Held, Staged, OnItsWay, Restored
<1> QED
  BY <1>1, <1>2, <1>3, <1>4, <1>5, <1>6

LEMMA ForkKeeps == ASSUME IInv, Fork PROVE IInv'
<1> USE DEF IInv, MainState, Sig, At
<1>1. Types'
  BY DEF Types, Fork
<1>2. Held'
  BY DEF Types, Held, Fork
<1>3. Counted'
  BY DEF Types, Held, Counted, Fork
<1>4. Staged'
  BY DEF Types, Held, Staged, Fork
<1>5. Empty'
  BY DEF Types, Held, Staged, Empty, Live, Fork
<1>6. OnItsWay'
  BY DEF Types, Held, Staged, OnItsWay, Fork
<1> QED
  BY <1>1, <1>2, <1>3, <1>4, <1>5, <1>6

LEMMA ForkFailsKeeps == ASSUME IInv, ForkFails PROVE IInv'
<1> USE DEF IInv, MainState, Sig, At
<1>1. Types'
  BY DEF Types, ForkFails, Thrown
<1>2. Held'
  BY DEF Types, Held, ForkFails, Thrown
<1>3. Counted'
  BY DEF Types, Held, Counted, ForkFails, Thrown
<1>4. Staged'
  BY DEF Types, Held, Staged, ForkFails, Thrown
<1>5. Empty'
  BY DEF Types, Held, Staged, Empty, Live, ForkFails, Thrown
<1>6. OnItsWay'
  BY DEF Types, Held, Staged, OnItsWay, ForkFails, Thrown
<1> QED
  BY <1>1, <1>2, <1>3, <1>4, <1>5, <1>6

LEMMA RegisterKeeps == ASSUME IInv, Register PROVE IInv'
<1> USE DEF IInv, MainState, Sig, At
<1>1. Types'
  BY DEF Types, Register
<1>2. Held'
  BY DEF Types, Held, Register
<1>3. Counted'
  BY DEF Types, Held, Counted, Register
<1>4. Staged'
  BY DEF Types, Held, Staged, Register
<1>5. Empty'
  BY DEF Types, Held, Staged, Empty, Live, Register
<1>6. OnItsWay'
  BY DEF Types, Held, Staged, OnItsWay, Register
<1> QED
  BY <1>1, <1>2, <1>3, <1>4, <1>5, <1>6

LEMMA ChildEndedKeeps == ASSUME IInv, ChildEnded PROVE IInv'
<1> USE DEF IInv, MainState, Sig, At
<1>1. Types'
  BY DEF Types, ChildEnded
<1>2. Held'
  BY DEF Types, Held, ChildEnded
<1>3. Counted'
  BY DEF Types, Held, Counted, ChildEnded
<1>4. Staged'
  BY DEF Types, Held, Staged, ChildEnded
<1>5. Empty'
  BY DEF Types, Held, Staged, Empty, Live, ChildEnded
<1>6. OnItsWay'
  BY DEF Types, Held, Staged, OnItsWay, ChildEnded
<1> QED
  BY <1>1, <1>2, <1>3, <1>4, <1>5, <1>6

LEMMA TimedOutKeeps == ASSUME IInv, TimedOut PROVE IInv'
<1> USE DEF IInv, MainState, Sig, At
<1>1. Types'
  <2>1. main' \in MainState /\ holding' \in BOOLEAN
    BY DEF Types, TimedOut, BeginStop, Goto
  <2> QED
    BY <2>1 DEF Types, TimedOut
<1>2. Held'
  BY DEF Types, Held, TimedOut, BeginStop, Goto
<1>3. Counted'
  BY DEF Types, Held, Counted, TimedOut, BeginStop, Goto
<1>4. Staged'
  BY DEF Types, Held, Staged, TimedOut, BeginStop, Goto
<1>5. Empty'
  BY DEF Types, Held, Staged, Empty, Live, TimedOut, BeginStop, Goto
<1>6. OnItsWay'
  BY DEF Types, Held, Staged, OnItsWay, TimedOut, BeginStop, Goto
<1> QED
  BY <1>1, <1>2, <1>3, <1>4, <1>5, <1>6

LEMMA CheckKeeps == ASSUME IInv, Check PROVE IInv'
<1> USE DEF IInv, MainState, Sig, At
<1>1. Types'
  BY DEF Types, Check, BeginStop, Goto
<1>2. Held'
  BY DEF Types, Held, Check, BeginStop, Goto
<1>3. Counted'
  BY DEF Types, Held, Counted, Check, BeginStop, Goto
<1>4. Staged'
  BY DEF Types, Held, Staged, Check, BeginStop, Goto
<1>5. Empty'
  BY DEF Types, Held, Staged, Empty, Live, Check, BeginStop, Goto
<1>6. OnItsWay'
  BY DEF Types, Held, Staged, OnItsWay, Check, BeginStop, Goto
<1> QED
  BY <1>1, <1>2, <1>3, <1>4, <1>5, <1>6

LEMMA TerminateKeeps == ASSUME IInv, Terminate PROVE IInv'
<1> USE DEF IInv, MainState, Sig, At
<1>1. Types'
  BY DEF Types, Terminate, Killed
<1>2. Held'
  BY DEF Types, Held, Terminate, Killed
<1>3. Counted'
  BY DEF Types, Held, Counted, Terminate, Killed
<1>4. Staged'
  BY DEF Types, Held, Staged, Terminate, Killed
<1>5. Empty'
  BY DEF Types, Held, Staged, Empty, Live, Terminate, Killed
<1>6. OnItsWay'
  BY DEF Types, Held, Staged, OnItsWay, Terminate, Killed
<1> QED
  BY <1>1, <1>2, <1>3, <1>4, <1>5, <1>6

LEMMA PopKeeps == ASSUME IInv, Pop PROVE IInv'
<1> USE DEF IInv, MainState, Sig, At
<1>1. Types'
  BY DEF Types, Pop
<1>2. Held'
  BY DEF Types, Held, Pop
<1>3. Counted'
  BY DEF Types, Held, Counted, Pop
<1>4. Staged'
  BY DEF Types, Held, Staged, Pop
<1>5. Empty'
  BY DEF Types, Held, Staged, Empty, Live, Pop
<1>6. OnItsWay'
  BY DEF Types, Held, Staged, OnItsWay, Pop
<1> QED
  BY <1>1, <1>2, <1>3, <1>4, <1>5, <1>6

LEMMA JobForksKeeps == ASSUME IInv, JobForks PROVE IInv'
<1> USE DEF IInv, MainState, Sig, At
<1>1. Types'
  BY DEF Types, JobForks
<1>2. Held'
  BY DEF Types, Held, JobForks
<1>3. Counted'
  BY DEF Types, Held, Counted, JobForks
<1>4. Staged'
  BY DEF Types, Held, Staged, JobForks
<1>5. Empty'
  BY DEF Types, Held, Staged, Empty, Live, JobForks
<1>6. OnItsWay'
  BY DEF Types, Held, Staged, OnItsWay, JobForks
<1> QED
  BY <1>1, <1>2, <1>3, <1>4, <1>5, <1>6

LEMMA JobEndsKeeps == ASSUME IInv, JobEnds PROVE IInv'
<1> USE DEF IInv, MainState, Sig, At
<1>1. Types'
  BY ZenonT(30) DEF Types, JobEnds
<1>2. Held'
  BY DEF Types, Held, JobEnds
<1>3. Counted'
  BY DEF Types, Held, Counted, JobEnds
<1>4. Staged'
  BY DEF Types, Held, Staged, JobEnds
<1>5. Empty'
  BY DEF Types, Held, Staged, Empty, Live, JobEnds
<1>6. OnItsWay'
  BY DEF Types, Held, Staged, OnItsWay, JobEnds
<1> QED
  BY <1>1, <1>2, <1>3, <1>4, <1>5, <1>6

LEMMA SignalHeldKeeps == ASSUME IInv, Window = FALSE, SignalHeld PROVE IInv'
<1> USE DEF IInv, MainState, Sig
<1>1. /\ main.pc \in {"fork", "register", "grace", "release"} /\ count.arrived < MaxSignals
      /\ proc' = proc /\ main' = main /\ handler' = handler /\ put' = put /\ holding' = holding
      /\ registered' = registered /\ interrupted' = interrupted
  BY DEF Types, Held, SignalHeld, MayArrive, Exchanging
<1>2. PICK sig \in Sig : pending' = Append(pending, sig)
  BY DEF Types, SignalHeld
<1>3. pending' \in Seq(Sig) /\ Len(pending') = Len(pending) + 1
  BY <1>2 DEF Types
<1>4. /\ count' \in [arrived : 0..MaxSignals, seen : Nat, raised : Nat] /\ count'.seen = count.seen
      /\ count'.raised = count.raised /\ count'.arrived = count.arrived + 1
  BY <1>1, JobsAssumption DEF Types, SignalHeld
<1>5. Types'
  BY <1>1, <1>3, <1>4 DEF Types
<1>6. Held' /\ Staged' /\ Empty' /\ OnItsWay'
  BY <1>1, <1>4 DEF Held, Staged, Empty, OnItsWay, Live
<1>7. Counted'
  <2>1. count.arrived = count.seen + Len(pending) /\ count.raised <= count.seen
    BY DEF Counted
  <2>2. count.seen \in Nat /\ count.arrived \in Nat /\ Len(pending) \in Nat
    BY JobsAssumption DEF Types
  <2>3. count'.arrived = count'.seen + Len(pending')
    BY <1>3, <1>4, <2>1, <2>2
  <2> QED
    BY <1>1, <1>4, <2>1, <2>3 DEF Counted
<1> QED
  BY <1>5, <1>6, <1>7

(***************************************************************************)
(* Handlers                                                                *)
(***************************************************************************)
\* Away from the exchange a handler runs on top of the main thread in run
\* itself or in release's delivery.
InHandler == \/ main.pc \in {"communicate", "check", "pop"}
             \/ main.pc = "deliver"

\* What becomes of the main thread when a handler raises.
RaisedTo(m) ==
  /\ m \in MainState
  /\ (m.raised \/ m.caught)
  /\ \/ /\ main.pc = "deliver" /\ m = [main EXCEPT !.caught = TRUE]
     \/ main.pc \in {"communicate", "check"} /\ m = BeginStop(main, FALSE)
     \/ main.pc = "pop" /\ m = [main EXCEPT !.pc = "over", !.raised = TRUE]

LEMMA RaisingGoes ==
  ASSUME IInv, InHandler
  PROVE  RaisedTo(Raising(main.pc = "deliver"))
<1> USE DEF IInv, Types, MainState
<1>1. CASE main.pc = "deliver"
  BY <1>1 DEF RaisedTo, Raising
<1>2. CASE main.pc \in {"communicate", "check"}
  BY <1>2 DEF RaisedTo, Raising, Thrown, BeginStop
<1>3. CASE main.pc = "pop"
  BY <1>3 DEF RaisedTo, Raising, Thrown
<1> QED
  BY <1>1, <1>2, <1>3 DEF InHandler

\* A handler that ends, or raises, keeps the invariant, whatever it was for.
LEMMA RaiseKeeps ==
  ASSUME IInv, InHandler, RaisedTo(main'), holding' = (holding \/ main'.pc = "hold"), handler' = "none",
         put' = put, registered' = registered, Live' \subseteq Live,
         proc' \in [Proc -> {"none", "live", "gone"}], interrupted' \in BOOLEAN,
         count' \in [arrived : 0..MaxSignals, seen : Nat, raised : Nat],
         count'.arrived = count'.seen + Len(pending'), count'.raised <= count'.seen, pending' \in Seq(Sig),
         main.pc # "deliver" => pending' = <<>>
  PROVE  IInv'
<1>0. main' \in MainState
  BY DEF RaisedTo
<1>1. Types'
  <2>1. holding' \in BOOLEAN
    OBVIOUS
  <2>2. put' \subseteq Sig /\ registered' \in BOOLEAN /\ handler' \in {"none", "grace"}
    BY DEF IInv, Types
  <2>3. /\ proc' \in [Proc -> {"none", "live", "gone"}] /\ interrupted' \in BOOLEAN /\ pending' \in Seq(Sig)
        /\ count' \in [arrived : 0..MaxSignals, seen : Nat, raised : Nat]
    OBVIOUS
  <2> QED
    BY <1>0, <2>1, <2>2, <2>3 DEF Types, Sig, MainState
<1> USE DEF IInv, MainState, Sig, RaisedTo
<1>2. CASE main.pc = "deliver"
  <2>1. /\ main'.pc = "deliver" /\ main'.hold = main.hold /\ main'.inTry = main.inTry
        /\ main'.raised = main.raised /\ main'.caught = TRUE
    BY <1>2 DEF Types
  <2>2. Held'
    BY <1>2, <2>1 DEF Types, Held
  <2>3. Counted' /\ Staged' /\ OnItsWay'
    BY <1>2, <2>1 DEF Types, Counted, Staged, OnItsWay
  <2>4. Empty'
    BY <1>2, <2>1 DEF Types, Empty
  <2> QED
    BY <1>1, <2>2, <2>3, <2>4
<1>3. CASE main.pc \in {"communicate", "check"}
  <2>1. main'.pc = "hold" /\ main'.hold = "stop" /\ main'.inTry = FALSE /\ main'.raised = TRUE /\ main'.caught = FALSE
    <3>1. main' = [main EXCEPT !.pc = "hold", !.hold = "stop", !.inTry = FALSE,
                               !.raised = main.raised \/ ~FALSE, !.caught = FALSE]
      BY ONLY <1>3, RaisedTo(main') DEF RaisedTo, BeginStop
    <3>2. main \in MainState
      BY DEF IInv, Types
    <3> QED
      BY ONLY <3>1, <3>2 DEF MainState
  <2>2. Held'
    BY <1>3, <2>1 DEF Types, Held
  <2>3. Counted' /\ Staged' /\ OnItsWay'
    BY <1>3, <2>1 DEF Types, Counted, Staged, OnItsWay
  <2>4. Empty'
    BY <1>3, <2>1 DEF Types, Empty
  <2> QED
    BY <1>1, <2>2, <2>3, <2>4
<1>4. CASE main.pc = "pop"
  <2>1. /\ main'.pc = "over" /\ main'.hold = main.hold /\ main'.inTry = main.inTry
        /\ main'.raised = TRUE /\ main'.caught = main.caught
    BY <1>4 DEF Types
  <2>2. Held'
    BY <1>4, <2>1 DEF Types, Held
  <2>3. Counted' /\ Staged' /\ OnItsWay'
    BY <1>4, <2>1 DEF Types, Counted, Staged, OnItsWay
  <2>4. Empty'
    BY <1>4, <2>1 DEF Types, Empty
  <2> QED
    BY <1>1, <2>2, <2>3, <2>4
<1> QED
  BY <1>2, <1>3, <1>4 DEF InHandler

\* A signal that a handler takes, whether it has just come (new = 1) or waited.
LEMMA HandledKeeps ==
  ASSUME IInv, InHandler, NEW sig \in Sig, NEW new \in {0, 1}, Handle(sig, main.pc = "deliver", new),
         new = 1 => count.arrived < MaxSignals, pending' \in Seq(Sig), Len(pending') = Len(pending) - 1 + new,
         main.pc # "deliver" => pending' = <<>>, proc' = proc, put' = put, registered' = registered
  PROVE  IInv'
<1> DEFINE r == Reaction(sig)
<1>1. r \in {"ignored", "raises", "ends"} /\ (r = "ignored" => interrupted) /\ (r = "ends" => ~interrupted /\ sig # "INT")
  BY DEF Reaction
<1>2. /\ handler' = CASE r = "ignored" -> handler [] r = "raises" -> "none" [] r = "ends" -> "grace"
      /\ main' = (IF r = "raises" THEN Raising(main.pc = "deliver") ELSE main)
      /\ holding' = (holding \/ main'.pc = "hold") /\ interrupted' = (interrupted \/ sig = "INT")
      /\ count' = [count EXCEPT !.arrived = @ + new, !.seen = @ + 1,
                                !.raised = IF r = "ignored" THEN @ ELSE @ + 1]
  BY DEF Handle, Goto
<1> HIDE DEF r
<1>3. /\ count' \in [arrived : 0..MaxSignals, seen : Nat, raised : Nat]
      /\ count'.arrived = count'.seen + Len(pending') /\ count'.raised <= count'.seen
      /\ r = "ignored" => count'.raised = count.raised
  <2>1. /\ count \in [arrived : 0..MaxSignals, seen : Nat, raised : Nat]
        /\ count.arrived = count.seen + Len(pending) /\ count.raised <= count.seen
    BY DEF IInv, Types, Counted
  <2>2. /\ count'.arrived = count.arrived + new /\ count'.seen = count.seen + 1
        /\ count'.raised = IF r = "ignored" THEN count.raised ELSE count.raised + 1
    BY <1>2, <2>1
  <2>3. count.arrived \in 0..MaxSignals /\ count.seen \in Nat /\ count.raised \in Nat /\ MaxSignals \in Nat
    BY <2>1, JobsAssumption
  <2>4. Len(pending) \in Nat /\ Len(pending') \in Nat
    BY DEF IInv, Types
  <2>5. count'.arrived \in 0..MaxSignals /\ count'.seen \in Nat /\ count'.raised \in Nat
    BY <2>2, <2>3
  <2>6. count' = [arrived |-> count'.arrived, seen |-> count'.seen, raised |-> count'.raised]
    BY <1>2, <2>1
  <2>7. count'.arrived = count'.seen + Len(pending') /\ count'.raised <= count'.seen
    BY <2>1, <2>2, <2>3, <2>4
  <2> QED
    BY <2>2, <2>5, <2>6, <2>7
<1>4. interrupted' \in BOOLEAN /\ (r # "raises" => interrupted' = interrupted)
  BY <1>1, <1>2 DEF IInv, Types
<1>5. CASE r = "raises"
  <2>1. RaisedTo(main') /\ handler' = "none"
    BY <1>2, <1>5, RaisingGoes
  <2>2. Live' \subseteq Live /\ proc' \in [Proc -> {"none", "live", "gone"}]
    BY DEF Live, IInv, Types
  <2> QED
    BY <1>2, <1>3, <1>4, <2>1, <2>2, RaiseKeeps
<1>6. CASE r # "raises"
  <2>1. /\ main' = main /\ holding' = holding /\ interrupted' = interrupted
        /\ handler' = IF r = "ends" THEN "grace" ELSE handler
    BY <1>1, <1>2, <1>4, <1>6 DEF InHandler, IInv, Types
  <2>2. Types'
    BY <1>3, <2>1 DEF IInv, Types
  <2>3. Held'
    BY <1>1, <1>6, <2>1 DEF IInv, Types, Held, InHandler
  <2>4. Counted'
    BY <1>3, <2>1 DEF IInv, Counted, InHandler
  <2>5. Staged'
    BY <2>1 DEF IInv, Staged
  <2>6. Empty'
    BY <2>1 DEF IInv, Empty, Live
  <2>7. OnItsWay'
    BY <1>1, <1>3, <1>6, <2>1 DEF IInv, OnItsWay
  <2> QED
    BY <2>2, <2>3, <2>4, <2>5, <2>6, <2>7 DEF IInv
<1> QED
  BY <1>5, <1>6

LEMMA SignalHandledKeeps == ASSUME IInv, Window = FALSE, SignalHandled PROVE IInv'
<1>1. PICK sig \in Sig : ~(holding /\ sig \in put) /\ Handle(sig, main.pc = "deliver" /\ handler # "none", 1)
  BY DEF SignalHandled
<1>2. /\ main.pc # "over" /\ count.arrived < MaxSignals /\ ~Exchanging
      /\ pending' = Noted(main') /\ proc' = proc /\ put' = put /\ registered' = registered
  BY DEF SignalHandled, MayArrive
<1>3. main.pc \in {"communicate", "check", "pop"} \/ (main.pc = "deliver" /\ handler # "none")
  BY <1>1, <1>2 DEF IInv, Types, MainState, Held, Exchanging, Sig
<1>4. InHandler /\ (main.pc = "deliver" /\ handler # "none") = (main.pc = "deliver")
  BY <1>3 DEF InHandler
<1>5. Handle(sig, main.pc = "deliver", 1)
  BY <1>1, <1>4
<1>6. main' = Raising(main.pc = "deliver") \/ main' = main
  BY <1>5 DEF Handle, Goto
<1>7. pending' = pending
  <2>1. CASE main.pc = "deliver"
    <3>1. main'.pc = "deliver"
      BY <1>6, <2>1 DEF Raising, IInv, Types, MainState
    <3> QED
      BY <3>1, <1>2 DEF Noted
  <2>2. CASE main.pc \in {"communicate", "check", "pop"}
    BY <2>2, <1>2 DEF Noted, IInv, Counted
  <2> QED
    BY <1>3, <2>1, <2>2
<1>8. pending \in Seq(Sig) /\ Len(pending) \in Nat /\ (main.pc # "deliver" => pending = <<>>)
  BY <1>3 DEF IInv, Types, Counted
<1> QED
  BY <1>2, <1>4, <1>5, <1>7, <1>8, HandledKeeps

LEMMA DeliverKeeps == ASSUME IInv, Deliver PROVE IInv'
<1>1. /\ main.pc = "deliver" /\ pending # <<>> /\ Handle(Head(pending), main.pc = "deliver", 0)
      /\ pending' = Tail(pending) /\ proc' = proc /\ put' = put /\ registered' = registered
  BY DEF Deliver, At
<1>2. Head(pending) \in Sig /\ pending' \in Seq(Sig) /\ Len(pending') = Len(pending) - 1
  BY <1>1 DEF IInv, Types
<1>3. Len(pending) \in Nat
  BY DEF IInv, Types
<1>4. Len(pending') = Len(pending) - 1 + 0
  BY <1>2, <1>3
<1>5. InHandler /\ 0 # 1
  BY <1>1 DEF InHandler
<1> QED
  BY <1>1, <1>2, <1>4, <1>5, HandledKeeps

LEMMA HandlerEndsKeeps == ASSUME IInv, HandlerEnds PROVE IInv'
<1>1. /\ handler = "grace" /\ proc' = Killed /\ handler' = "none" /\ main' = Raising(main.pc = "deliver")
      /\ holding' = (holding \/ main'.pc = "hold") /\ pending' = Noted(main')
      /\ put' = put /\ registered' = registered /\ interrupted' = interrupted /\ count' = count
  BY DEF HandlerEnds, Goto
<1>2. InHandler
  BY <1>1 DEF IInv, Held, InHandler
<1>3. RaisedTo(main')
  BY <1>1, <1>2, RaisingGoes
<1>4. pending' = pending
  <2>1. CASE main.pc = "deliver"
    <3>1. main'.pc = "deliver"
      BY <1>1, <2>1 DEF Raising, IInv, Types, MainState
    <3> QED
      BY <3>1, <1>1 DEF Noted
  <2>2. CASE main.pc # "deliver"
    BY <2>2, <1>1, <1>2 DEF Noted, IInv, Counted, InHandler
  <2> QED
    BY <2>1, <2>2
<1>5. Live' \subseteq Live /\ proc' \in [Proc -> {"none", "live", "gone"}]
  BY <1>1 DEF Killed, Live, IInv, Types
<1>6. /\ pending' \in Seq(Sig) /\ interrupted' \in BOOLEAN /\ (main.pc # "deliver" => pending' = <<>>)
      /\ count' \in [arrived : 0..MaxSignals, seen : Nat, raised : Nat]
      /\ count'.arrived = count'.seen + Len(pending') /\ count'.raised <= count'.seen
  BY <1>1, <1>2, <1>4 DEF IInv, Types, Counted, InHandler
<1> QED
  BY <1>1, <1>2, <1>3, <1>5, <1>6, RaiseKeeps

\* What release does once everything is delivered.
LEMMA DeliveredKeeps == ASSUME IInv, Delivered PROVE IInv'
<1>0. /\ main.pc = "deliver" /\ handler = "none" /\ pending = <<>> /\ main \in MainState
      /\ proc' = proc /\ handler' = handler /\ put' = put /\ pending' = pending
      /\ registered' = registered /\ interrupted' = interrupted /\ count' = count
      /\ holding' = (holding \/ main'.pc = "hold")
  BY DEF Delivered, At, Goto, IInv, Types
<1>1. \/ main.caught /\ main.hold = "start" /\ registered /\ main' = BeginStop(main, FALSE)
      \/ main.caught /\ main.hold = "start" /\ ~registered /\ main' = [main EXCEPT !.pc = "over", !.raised = TRUE]
      \/ main.caught /\ main.hold = "stop" /\ main.inTry /\ main' = BeginStop(main, FALSE)
      \/ main.caught /\ main.hold = "stop" /\ ~main.inTry /\ main' = [main EXCEPT !.pc = "pop"]
      \/ ~main.caught /\ main.hold = "stop" /\ main' = [main EXCEPT !.pc = "pop"]
      \/ ~main.caught /\ main.hold = "start" /\ main.raised /\ main' = [main EXCEPT !.pc = "over"]
      \/ ~main.caught /\ main.hold = "start" /\ ~main.raised /\ main' = [main EXCEPT !.pc = "communicate"]
  BY <1>0 DEF Delivered, Goto, Propagate, MainState
<1>2. \/ /\ main'.pc = "hold" /\ main'.hold = "stop" /\ ~main'.inTry /\ main'.raised /\ ~main'.caught /\ registered
      \/ /\ main'.pc = "over" /\ main'.hold = "start" /\ main'.raised /\ Live = {}
      \/ /\ main'.pc = "pop" /\ main'.hold = "stop" /\ main'.inTry = main.inTry /\ main'.raised = main.raised
         /\ main'.caught = main.caught /\ (main.caught => main.raised) /\ registered /\ Live = {} /\ main.hold = "stop"
      \/ /\ main'.pc = "communicate" /\ main'.hold = "start" /\ registered /\ ~main'.caught
         /\ ~main.raised /\ ~main.caught
  <2>0. /\ main.hold = "start" => registered = ~main.raised
        /\ main.hold = "start" /\ ~registered => Live = {}
        /\ main.hold = "stop" => Live = {} /\ registered /\ (main.inTry \/ main.raised)
        /\ registered \in BOOLEAN
    BY <1>0 DEF IInv, Types, Staged, Empty
  <2>1. CASE main.caught /\ main.hold = "start" /\ registered /\ main' = BeginStop(main, FALSE)
    BY <2>1, <1>0 DEF BeginStop, MainState
  <2>2. CASE main.caught /\ main.hold = "start" /\ ~registered /\ main' = [main EXCEPT !.pc = "over", !.raised = TRUE]
    BY <2>0, <2>2, <1>0 DEF MainState
  <2>3. CASE main.caught /\ main.hold = "stop" /\ main.inTry /\ main' = BeginStop(main, FALSE)
    BY <2>0, <2>3, <1>0 DEF BeginStop, MainState
  <2>4. CASE main.hold = "stop" /\ (main.caught => ~main.inTry) /\ main' = [main EXCEPT !.pc = "pop"]
    BY <2>0, <2>4, <1>0 DEF MainState
  <2>5. CASE ~main.caught /\ main.hold = "start" /\ main.raised /\ main' = [main EXCEPT !.pc = "over"]
    BY <2>0, <2>5, <1>0 DEF MainState
  <2>6. CASE ~main.caught /\ main.hold = "start" /\ ~main.raised /\ main' = [main EXCEPT !.pc = "communicate"]
    BY <2>0, <2>6, <1>0 DEF MainState
  <2> QED
    BY <1>1, <2>1, <2>2, <2>3, <2>4, <2>5, <2>6
<1>3. main' \in MainState
  BY <1>0, <1>1 DEF BeginStop, MainState
<1>4. Types'
  <2>1. holding' \in BOOLEAN
    BY <1>0
  <2> QED
    BY <1>0, <1>3, <2>1 DEF IInv, Types
<1>5. Held'
  BY <1>0, <1>2 DEF IInv, Held, Types
<1>6. Counted'
  BY <1>0, <1>2 DEF IInv, Counted
<1>7. Staged'
  BY <1>0, <1>2, <1>3 DEF IInv, Staged, MainState
<1>8. Empty'
  BY <1>0, <1>2 DEF IInv, Empty, Live
<1>9. OnItsWay'
  BY <1>0, <1>2 DEF IInv, OnItsWay
<1> QED
  BY <1>4, <1>5, <1>6, <1>7, <1>8, <1>9 DEF IInv

(***************************************************************************)
(* The invariant holds                                                     *)
(***************************************************************************)
LEMMA InitIInv == Init => IInv
<1> SUFFICES ASSUME Init PROVE IInv
  OBVIOUS
<1>1. Types
  <2>1. NewMain \in MainState
    BY DEF NewMain, MainState
  <2>2. [arrived |-> 0, seen |-> 0, raised |-> 0] \in [arrived : 0..MaxSignals, seen : Nat, raised : Nat]
    BY JobsAssumption
  <2>3. <<>> \in Seq(Sig)
    OBVIOUS
  <2>4. proc \in [Proc -> {"none", "live", "gone"}] /\ put \subseteq Sig /\ handler \in {"none", "grace"}
    BY DEF Init
  <2>5. holding \in BOOLEAN /\ registered \in BOOLEAN /\ interrupted \in BOOLEAN
    BY DEF Init
  <2> QED
    BY <2>1, <2>2, <2>3, <2>4, <2>5 DEF Init, Types
<1>2. Held /\ Staged /\ OnItsWay
  BY DEF Init, NewMain, Held, Staged, OnItsWay
<1>3. Counted
  BY DEF Init, NewMain, Counted
<1>4. Empty
  BY DEF Init, NewMain, Empty, Live
<1> QED
  BY <1>1, <1>2, <1>3, <1>4 DEF IInv

LEMMA NextIInv == ASSUME Window = FALSE, IInv, [Next]_vars PROVE IInv'
<1>1. CASE Run
  BY <1>1, HoldNextKeeps, HoldDoneKeeps, ReleaseKeeps, RestoreNextKeeps, RestoredKeeps, DeliverKeeps,
     DeliveredKeeps, ForkKeeps, ForkFailsKeeps, RegisterKeeps, ChildEndedKeeps, CheckKeeps, TerminateKeeps,
     PopKeeps, HandlerEndsKeeps DEF Run
<1>2. CASE TimedOut \/ SignalHeld \/ SignalHandled \/ JobForks \/ JobEnds
  BY <1>2, TimedOutKeeps, SignalHeldKeeps, SignalHandledKeeps, JobForksKeeps, JobEndsKeeps
<1>3. CASE UNCHANGED vars
  BY <1>3 DEF vars, IInv, Types, Held, Counted, Staged, Empty, OnItsWay, Live
<1> QED
  BY <1>1, <1>2, <1>3 DEF Next

LEMMA IInvHolds == ASSUME Window = FALSE PROVE Spec => []IInv
<1>1. IInv /\ [Next]_vars => IInv'
  BY NextIInv
<1> QED
  BY <1>1, InitIInv, PTL DEF Spec

\* However run ends, by its job's end, a timeout, a failed start or a stop
\* signal at any moment but the exchange of the handlers, nothing of the job's
\* group is left.
THEOREM NoneLeftTheorem ==
  ASSUME Window = FALSE
  PROVE  Spec => []NoneLeft
<1>1. IInv => NoneLeft
  BY DEF IInv, Empty, NoneLeft, Over
<1> QED
  BY <1>1, IInvHolds, PTL

\* No stop signal is lost: each that arrived has reached its handler by the
\* time run is over, and a stop that one of them raised is what run raises.
THEOREM StopsArriveTheorem ==
  ASSUME Window = FALSE
  PROVE  Spec => []StopsArrive
<1>1. IInv => StopsArrive
  <2> SUFFICES ASSUME IInv, Over PROVE count.seen = count.arrived /\ put = {} /\ (count.raised > 0 => main.raised)
    BY DEF StopsArrive, AllDelivered, StopNotSwallowed
  <2>1. put = {} /\ handler # "grace"
    BY DEF IInv, Held, Over
  <2>2. count.seen = count.arrived
    BY DEF IInv, Types, Counted, Over
  <2>3. count.raised > 0 => main.raised
    BY <2>1 DEF IInv, OnItsWay, Over
  <2> QED
    BY <2>1, <2>2, <2>3
<1> QED
  BY <1>1, IInvHolds, PTL

\* After a Ctrl-C no later signal's handler cuts the job's grace period short,
\* at whatever moment either comes.
THEOREM CtrlCKeepsGraceTheorem == Spec => []CtrlCKeepsGrace
<1>1. Init => CtrlCKeepsGrace
  BY DEF Init, CtrlCKeepsGrace
<1>2. CtrlCKeepsGrace /\ [Next]_vars => CtrlCKeepsGrace'
  <2> SUFFICES ASSUME CtrlCKeepsGrace, [Next]_vars PROVE CtrlCKeepsGrace'
    OBVIOUS
  <2>1. CASE Deliver
    BY <2>1 DEF Deliver, Handle, Reaction, CtrlCKeepsGrace, At
  <2>2. CASE SignalHandled
    BY <2>2 DEF SignalHandled, Handle, Reaction, CtrlCKeepsGrace
  <2>3. CASE HandlerEnds
    BY <2>3 DEF HandlerEnds, CtrlCKeepsGrace
  <2>4. CASE ~(Deliver \/ SignalHandled \/ HandlerEnds)
    <3>1. interrupted' = interrupted /\ handler' = handler
      BY <2>4 DEF Next, Run, vars, HoldNext, HoldDone, Release, RestoreNext, Restored, Delivered, Fork, ForkFails,
         Register, ChildEnded, Check, Terminate, Pop, TimedOut, SignalHeld, JobForks, JobEnds
    <3> QED
      BY <3>1 DEF CtrlCKeepsGrace
  <2> QED
    BY <2>1, <2>2, <2>3, <2>4
<1> QED
  BY <1>1, <1>2, PTL DEF Spec

=============================================================================
