--------------------------- MODULE SettingsProofs ---------------------------
(* What configure, undo, the installer's files and install-delegation do to  *)
(* the settings of coding agents, whatever the homes, the runs and what      *)
(* users edit between them; and what the installer decides, for any machine, *)
(* flags, keys and answers.                                                  *)
EXTENDS Installer, FiniteSetTheorems, WellFoundedInduction, TLAPS

----------------------------------------------------------------------------
(* The inductive invariant                                                   *)

Forms == JsonFiles \cup {"config.toml", "hermes.yaml"}   \* entries are put into these
Watched == Forms \cup {"rule"}
TheRule == [Blank EXCEPT !.at["rule"] = "v1"]
Names == Keys \ {"rule"}

\* Whose configuration a file belongs to.
Owner(p) ==
  CASE p = "settings.json" -> "claude-code"
    [] p = "config.toml" -> "codex"
    [] p = "opencode.json" -> "opencode"
    [] p \in {"mcp-config.json", "vscode.json"} -> "copilot"
    [] p \in {"cursor.json", "rule"} -> "cursor"
    [] p = "openclaw.json" -> "openclaw"
    [] p = "hermes.yaml" -> "hermes"
    [] OTHER -> "none"

HasOurs(f) == \E n \in Names : f.at[n] \in Ours

\* What the format of a file says of its contents: markers are YAML's and
\* TOML's, and there nothing of configure is without them.
Formed(p, f) ==
  /\ p \in JsonFiles \cup {"rule"} => f.marks \cap Keys = {}
  /\ p = "hermes.yaml" => \A n \in f.marks \cap Keys : f.at[n] \in Ours
  /\ p \in {"config.toml", "hermes.yaml"} => \A n \in Keys : f.at[n] \in Ours => n \in f.marks
  /\ p = "rule" => ~HasOurs(f)

Saved(B, p) == {b \in B : b.path = p}
OnPath(L, p) == {i \in DOMAIN L : L[i].path = p}
Latest(I, i) == i \in I /\ \A j \in I : j <= i

\* A record of the manifest.
EntryOk(c, B, t) ==
  /\ c = [h |-> c.h, kind |-> c.kind, path |-> c.path, created |-> c.created, backup |-> c.backup, json |-> c.json, after |-> c.after]
  /\ c.kind \in {"file", "dir", "cli"} /\ c.path \in Paths
  /\ c.kind # "file" => c.path \in Settled
  /\ c.json \subseteq Keys
  /\ c.backup = None \/ c.backup \in 1..t
  /\ \A b \in B : b.id = c.backup => b.path = c.path
  /\ c.kind = "file" =>
       /\ c.path \in Watched /\ c.h = Owner(c.path)
       /\ IsFile(c.after) /\ Formed(c.path, c.after)
       /\ c.path \notin JsonFiles => c.json = {}
       /\ c.path = "rule" => c.after = TheRule
       /\ c.path \in Forms =>
            /\ HasOurs(c.after) /\ c.after.plain
            /\ \A n \in c.json : c.after.at[n] \in Ours
            /\ c.backup = None => (c.after.text = 0 /\ \A n \in Keys : c.after.at[n] # "theirs")
            /\ \A b \in B : b.id = c.backup =>
                 /\ b.content.text = c.after.text
                 /\ \A n \in Keys : c.after.at[n] = "theirs" => b.content.at[n] = "theirs"

\* The user's text: file f, copies B of it.
Holds(f, own) == f.text = own /\ (own = 0 => ~HasOurs(f))
TextKept(p, f, B, own) ==
  own # None =>
    /\ p \in Forms =>
         /\ IF f # None THEN f.text = own ELSE own = 0
         /\ (f # None /\ Holds(f, own)) \/ \E b \in B : Holds(b.content, own)
    /\ p = "rule" => (f # None /\ f # TheRule /\ f.text = own) \/ \E b \in B : b.content.text = own
    /\ p \in InstallerFiles => (f # None /\ f.text = own) \/ \E b \in B : b.content.text = own

\* What users had under the router's names, the records L still to be undone.
TheirsKept(p, f, B, theirs, L) ==
  LET I == OnPath(L, p)
  IN p # "config.toml" =>
       \A n \in theirs :
         /\ (f # None /\ f.at[n] = "theirs") \/ \E b \in B : b.content.at[n] = "theirs"
         /\ \A j \in I : n \in L[j].json =>
              \E b \in B : b.content.at[n] = "theirs" /\ \A i \in I : i > j => L[i].backup # b.id

Recorded(p, B, L) ==
  LET I == OnPath(L, p)
  IN /\ \A i \in I : L[i].backup # None => \E b \in B : b.id = L[i].backup
     /\ \A i, j \in I : (i # j /\ L[i].backup = L[j].backup) => L[i].backup = None

\* Every entry in f is of one of the records I, or marked in a file that has one.
Covered(f, L, I) ==
  (f # None /\ f.plain) => \A n \in Names : f.at[n] \in Ours => \E i \in I : n \in L[i].json \/ n \in f.marks
Accounted(f, B, L, I) ==
  /\ Covered(f, L, I)
  /\ \A j \in I : \A b \in B : b.id = L[j].backup => Covered(b.content, L, {i \in I : i < j})

\* The file came into being with a record of L, and every record since
\* found it as the one before had left it.
Grown(f, B, L, I) ==
  \E m \in I :
    /\ L[m].backup = None
    /\ \A i \in I : i >= m =>
         /\ Latest(I, i) => L[i].after = f
         /\ \A j \in I : (i < j /\ \A q \in I : q <= i \/ q >= j) => \E b \in B : b.id = L[j].backup /\ b.content = L[i].after

\* A text that came when another installer made the file is younger than the
\* records that made one before.
Younger(f, B, L, I) ==
  \E S \in SUBSET I :
    /\ \A i \in S : L[i].backup # None /\ \A j \in I : j > i => j \in S
    /\ Accounted(f, B, L, S)

FormTracked(f, B, own, shared, L, I) ==
  /\ Accounted(f, B, L, I)
  /\ (own # None /\ ~shared) => f # None
  /\ (own = None /\ ~shared /\ f # None) => Grown(f, B, L, I)
  /\ own = 0 => Younger(f, B, L, I)

RuleTracked(f, B, own, shared, L, I) ==
  ~shared =>
    /\ own # None =>
         \/ f # None /\ f # TheRule /\ f.text = own
         \/ f = TheRule /\ \E i \in I : Latest(I, i) /\ \E b \in B : b.id = L[i].backup /\ b.content.text = own
    /\ (own = None /\ f # None) => f = TheRule /\ \E i \in I : Latest(I, i) /\ L[i].backup = None

PathOk(p, f, B, own, theirs, shared, L, half, unrec) ==
  /\ p \in Forms => (shared => own = None)
  /\ TextKept(p, f, B, own)
  /\ ~half => TheirsKept(p, f, B, theirs, L) /\ Recorded(p, B, L)
  /\ (~half /\ ~unrec) =>
       /\ p \in Forms => FormTracked(f, B, own, shared, L, OnPath(L, p))
       /\ p = "rule" => RuleTracked(f, B, own, shared, L, OnPath(L, p))

Typed(d, B, t, us, th, ot) ==
  /\ d = [p \in Paths |-> d[p]] /\ \A p \in Paths : d[p] = None \/ (IsFile(d[p]) /\ Formed(p, d[p]))
  /\ us \in [Paths -> Nat \cup {None}] /\ th \in [Paths -> SUBSET Keys] /\ ot \subseteq Paths /\ t \in Nat
  /\ \A b \in B : /\ b.id \in 1..t /\ b.path \in Paths /\ IsFile(b.content) /\ Formed(b.path, b.content)
                  /\ b.path = "rule" => b.content # TheRule
  /\ \A b1, b2 \in B : b1.id = b2.id => b1 = b2

Core(d, B, t, us, th, ot, L, C, half, unrec) ==
  /\ Typed(d, B, t, us, th, ot)
  /\ \A c \in C : EntryOk(c, B, t)
  /\ \A p \in Paths \ Settled : PathOk(p, d[p], Saved(B, p), us[p], th[p], p \in ot, L, half, unrec)

Pending(s) ==
  CASE Quiet(s) -> s.manifest
    [] ~Quiet(s) /\ s.proc.op # "undo" -> s.proc.changes
    [] OTHER -> [i \in 1..(Len(s.proc.todo) + Len(s.proc.changes)) |->
                  IF i <= Len(s.proc.todo) THEN s.manifest[i] ELSE s.proc.changes[i - Len(s.proc.todo)]]
Entries(s) == {s.manifest[i] : i \in DOMAIN s.manifest} \cup {s.proc.changes[i] : i \in DOMAIN s.proc.changes}
CoreOf(s) == Core(s.disk, s.backups, s.taken, s.users, s.theirs, s.others, Pending(s), Entries(s), s.halfUndone, s.unrecorded)

GoodStep(step, h) ==
  \/ step.how = "json" /\ step.path \in JsonFiles /\ step.key \in Names /\ Owner(step.path) = h
  \/ step.how = "toml" /\ step.path = "config.toml" /\ step.key = "delegate" /\ h = "codex"
  \/ step.how = "yaml" /\ step.path = "hermes.yaml" /\ step.key \in Names /\ h = "hermes"
  \/ step.how = "file" /\ step.path = "rule" /\ step.key = "rule" /\ h = "cursor"
  \/ step.how = "skill" /\ step.path \in Skills /\ step.key = "skill"
  \/ step.how = "cli" /\ step.path = Registry /\ step.key = "delegate"
  \/ step.how = "config" /\ step.path \in InstallerFiles /\ step.key \in {"router", "launcher"}
GoodTool(step) ==
  \/ step.how = "json" /\ step.path \in JsonFiles /\ step.key = "delegate"
  \/ step.how = "yaml" /\ step.path = "hermes.yaml" /\ step.key = "delegate"
  \/ step.how = "file" /\ step.path = "rule" /\ step.key = "rule"
  \/ step.how = "skill" /\ step.path \in Skills /\ step.key = "skill"
  \/ step.how = "cli" /\ step.path \in {"config.toml", Registry} /\ step.key = "delegate"

\* The files the running agent has opened: their record is its own and their
\* last, and what users had there is in a copy.
Opening(p, f, B, own, theirs, L, n, half) ==
  /\ p \in Watched /\ f # None
  /\ \E i \in OnPath(L, p) : i > n /\ Latest(OnPath(L, p), i) /\ L[i].after = f
  /\ (p \in Forms /\ own # None) => \E b \in B : Holds(b.content, own)
  /\ (p # "config.toml" /\ ~half) => \A k \in theirs : \E b \in B : b.content.at[k] = "theirs"

Configuring(s) ==
  /\ \A i \in DOMAIN s.proc.todo : GoodStep(s.proc.todo[i], s.proc.h)
  /\ \A p \in s.proc.open : Opening(p, s.disk[p], Saved(s.backups, p), s.users[p], s.theirs[p], s.proc.changes,
                                    Len(s.manifest), s.halfUndone)
  /\ Len(s.proc.changes) >= Len(s.manifest) /\ \A i \in DOMAIN s.manifest : s.proc.changes[i] = s.manifest[i]
  /\ s.proc.a.dry => s.proc.changes = s.manifest
Undoing(s) ==
  LET n == Len(s.proc.todo)
  IN /\ n <= Len(s.manifest) /\ \A i \in 1..n : s.proc.todo[i] = s.manifest[n + 1 - i]
     /\ \A i \in DOMAIN s.proc.changes : \E j \in DOMAIN s.manifest : s.proc.changes[i] = s.manifest[j]
     /\ \A i \in DOMAIN s.proc.changes : (s.proc.hs # <<>> /\ ~Contains(s.proc.hs, s.proc.changes[i].h)) \/ s.proc.a.dry
     /\ s.proc.a.dry => n + Len(s.proc.changes) = Len(s.manifest) /\ \A i \in DOMAIN s.proc.changes : s.proc.changes[i] = s.manifest[n + i]
ProcOk(s) ==
  /\ s.proc.op \in {"none", "configure", "undo", "delegation"}
  /\ s.proc.op = "none" => s.proc.changes = <<>>
  /\ s.proc.op # "none" => IsRun(s.proc.a)
  /\ s.proc.op = "configure" => Configuring(s)
  /\ s.proc.op = "delegation" => /\ s.proc.todo # <<>> /\ \A i \in DOMAIN s.proc.todo : GoodTool(s.proc.todo[i])
                                /\ s.proc.changes = s.manifest
  /\ s.proc.op = "undo" => Undoing(s)
Records(s) == \A a \in s.asked : IsRun(a)

Elements(q) == {q[i] : i \in DOMAIN q}
IsList(q) == q \in Seq(Elements(q))
Shape(s) ==
  /\ s = [disk |-> s.disk, asked |-> s.asked, manifest |-> s.manifest, backups |-> s.backups, taken |-> s.taken,
          proc |-> s.proc, runs |-> s.runs, edits |-> s.edits, users |-> s.users, theirs |-> s.theirs,
          others |-> s.others, unrecorded |-> s.unrecorded, halfUndone |-> s.halfUndone]
  /\ s.proc = [op |-> s.proc.op, a |-> s.proc.a, hs |-> s.proc.hs, todo |-> s.proc.todo, changes |-> s.proc.changes,
               h |-> s.proc.h, open |-> s.proc.open]
  /\ IsList(s.manifest) /\ IsList(s.proc.changes) /\ IsList(s.proc.todo)
  /\ s.unrecorded \in BOOLEAN /\ s.halfUndone \in BOOLEAN /\ s.runs \in Nat /\ s.edits \in Nat
Inv(s) == Shape(s) /\ CoreOf(s) /\ ProcOk(s) /\ Records(s)

----------------------------------------------------------------------------
(* What holds of one path: records and edits                                 *)

\* What holds of a path depends on the records of that path and their order.
LEMMA Renumbered ==
  ASSUME NEW p, NEW f, NEW B, NEW own, NEW theirs, NEW shared \in BOOLEAN, NEW half \in BOOLEAN, NEW unrec \in BOOLEAN,
         NEW L, NEW M, NEW phi, OnPath(L, p) \subseteq Int, OnPath(M, p) \subseteq Int,
         \A i \in OnPath(M, p) : phi[i] \in OnPath(L, p) /\ M[i] = L[phi[i]],
         \A i \in OnPath(L, p) : \E j \in OnPath(M, p) : phi[j] = i,
         \A i, j \in OnPath(M, p) : i < j <=> phi[i] < phi[j],
         PathOk(p, f, B, own, theirs, shared, L, half, unrec)
  PROVE  PathOk(p, f, B, own, theirs, shared, M, half, unrec)
<1> DEFINE I == OnPath(L, p)
           J == OnPath(M, p)
<1>0. \A i \in J : phi[i] \in I /\ M[i] = L[phi[i]]
  OBVIOUS
<1>a. \A i \in I : \E j \in J : phi[j] = i
  OBVIOUS
<1>b. \A i, j \in J : (i < j <=> phi[i] < phi[j]) /\ (i <= j <=> phi[i] <= phi[j]) /\ (i = j <=> phi[i] = phi[j])
  BY <1>0
<1>1. ASSUME TheirsKept(p, f, B, theirs, L)  PROVE TheirsKept(p, f, B, theirs, M)
  <2> SUFFICES ASSUME p # "config.toml", NEW n \in theirs
               PROVE  /\ (f # None /\ f.at[n] = "theirs") \/ \E b \in B : b.content.at[n] = "theirs"
                      /\ \A j \in J : n \in M[j].json =>
                           \E b \in B : b.content.at[n] = "theirs" /\ \A i \in J : i > j => M[i].backup # b.id
    BY DEF TheirsKept
  <2>1. /\ (f # None /\ f.at[n] = "theirs") \/ \E b \in B : b.content.at[n] = "theirs"
        /\ \A j \in I : n \in L[j].json =>
             \E b \in B : b.content.at[n] = "theirs" /\ \A i \in I : i > j => L[i].backup # b.id
    BY <1>1 DEF TheirsKept
  <2>2. ASSUME NEW j \in J, n \in M[j].json
        PROVE \E b \in B : b.content.at[n] = "theirs" /\ \A i \in J : i > j => M[i].backup # b.id
    <3>1. PICK b \in B : b.content.at[n] = "theirs" /\ \A i \in I : i > phi[j] => L[i].backup # b.id
      BY <2>1, <2>2, <1>0
    <3>2. \A i \in J : i > j => M[i].backup # b.id
      BY <3>1, <1>0, <1>b
    <3> QED BY <3>1, <3>2
  <2> QED BY <2>1, <2>2
<1>2. ASSUME Recorded(p, B, L)  PROVE Recorded(p, B, M)
  BY <1>2, <1>0, <1>b DEF Recorded
<1>3. ASSUME NEW S \in SUBSET I, NEW g, Covered(g, L, S)
      PROVE  Covered(g, M, {j \in J : phi[j] \in S})
  BY <1>3, <1>0, <1>a DEF Covered
<1>4. ASSUME NEW S \in SUBSET I, Accounted(f, B, L, S)
      PROVE  Accounted(f, B, M, {j \in J : phi[j] \in S})
  <2> DEFINE T == {j \in J : phi[j] \in S}
  <2>1. Covered(f, M, T)
    BY <1>3, <1>4 DEF Accounted
  <2>2. ASSUME NEW j \in T, NEW b \in B, b.id = M[j].backup
        PROVE  Covered(b.content, M, {i \in T : i < j})
    <3>1. Covered(b.content, L, {i \in S : i < phi[j]})
      BY <1>4, <2>2, <1>0 DEF Accounted
    <3>2. Covered(b.content, M, {i \in J : phi[i] \in {q \in S : q < phi[j]}})
      BY <3>1, <1>3
    <3>3. {i \in J : phi[i] \in {q \in S : q < phi[j]}} = {i \in T : i < j}
      BY <1>b
    <3> QED BY <3>2, <3>3
  <2> QED BY <2>1, <2>2 DEF Accounted
<1>5. J = {j \in J : phi[j] \in I}
  BY <1>0
<1>l. \A i \in J : Latest(I, phi[i]) <=> Latest(J, i)
  <2>1. ASSUME NEW i \in J, Latest(I, phi[i]) PROVE Latest(J, i)
    BY <2>1, <1>0, <1>b DEF Latest
  <2>2. ASSUME NEW i \in J, Latest(J, i), NEW q \in I PROVE q <= phi[i]
    <3>1. PICK r \in J : phi[r] = q
      BY <1>a
    <3> QED BY <3>1, <2>2, <1>b DEF Latest
  <2> QED BY <2>1, <2>2, <1>0 DEF Latest
<1>6. ASSUME Grown(f, B, L, I)  PROVE Grown(f, B, M, J)
  <2>1. PICK m \in I : /\ L[m].backup = None
                       /\ \A i \in I : i >= m =>
                            /\ Latest(I, i) => L[i].after = f
                            /\ \A j \in I : (i < j /\ \A q \in I : q <= i \/ q >= j) =>
                                  \E b \in B : b.id = L[j].backup /\ b.content = L[i].after
    BY <1>6 DEF Grown
  <2>2. PICK r \in J : phi[r] = m
    BY <1>a
  <2>3. ASSUME NEW i \in J, i >= r
        PROVE /\ Latest(J, i) => M[i].after = f
              /\ \A j \in J : (i < j /\ \A q \in J : q <= i \/ q >= j) =>
                    \E b \in B : b.id = M[j].backup /\ b.content = M[i].after
    <3>1. phi[i] \in I /\ phi[i] >= m
      BY <2>2, <2>3, <1>0, <1>b
    <3>2. Latest(J, i) => M[i].after = f
      BY <3>1, <2>1, <1>l, <1>0
    <3>3. ASSUME NEW j \in J, i < j, \A q \in J : q <= i \/ q >= j
          PROVE  \E b \in B : b.id = M[j].backup /\ b.content = M[i].after
      <4>1. ASSUME NEW q \in I PROVE q <= phi[i] \/ q >= phi[j]
        <5>1. PICK s \in J : phi[s] = q
          BY <1>a
        <5> QED BY <5>1, <3>3, <1>b, <1>0
      <4> QED BY <4>1, <3>1, <3>3, <2>1, <1>0, <1>b
    <3> QED BY <3>2, <3>3
  <2> QED BY <2>1, <2>2, <2>3, <1>0 DEF Grown
<1>7. ASSUME Younger(f, B, L, I)  PROVE Younger(f, B, M, J)
  <2>1. PICK S \in SUBSET I : /\ \A i \in S : L[i].backup # None /\ \A j \in I : j > i => j \in S
                              /\ Accounted(f, B, L, S)
    BY <1>7 DEF Younger
  <2> DEFINE T == {j \in J : phi[j] \in S}
  <2>2. Accounted(f, B, M, T)
    BY <2>1, <1>4
  <2>3. \A i \in T : M[i].backup # None /\ \A j \in J : j > i => j \in T
    BY <2>1, <1>0, <1>b
  <2>4. T \in SUBSET J
    OBVIOUS
  <2> HIDE DEF T, J
  <2> QED BY <2>2, <2>3, <2>4 DEF Younger
<1>8. ASSUME FormTracked(f, B, own, shared, L, I)  PROVE FormTracked(f, B, own, shared, M, J)
  <2>1. Accounted(f, B, M, J)
    BY <1>8, <1>4, <1>5 DEF FormTracked
  <2> QED BY <2>1, <1>8, <1>6, <1>7 DEF FormTracked
<1>9. ASSUME RuleTracked(f, B, own, shared, L, I)  PROVE RuleTracked(f, B, own, shared, M, J)
  <2>1. ASSUME NEW i \in I, Latest(I, i) PROVE \E j \in J : Latest(J, j) /\ M[j] = L[i]
    BY <2>1, <1>a, <1>l, <1>0
  <2> QED BY <2>1, <1>9 DEF RuleTracked
<1> HIDE DEF I, J
<1> QED BY <1>1, <1>2, <1>8, <1>9 DEF PathOk, I, J

LEMMA FileThere == ASSUME NEW f, IsFile(f) PROVE f # None
BY DEF IsFile

LEMMA NoneIsNoNumber == None \notin Nat
BY HomesFound

\* configure puts the entry n into a file of a format.
PutIn(p, f, new, n, json) ==
  /\ p \in Forms /\ n \in Names /\ IsFile(new) /\ Formed(p, new) /\ new.plain /\ new.at[n] \in Ours
  /\ json \subseteq {n} /\ (n \in json \/ n \in new.marks)
  /\ f # None => /\ f.plain /\ new.text = f.text /\ f.marks \subseteq new.marks
                 /\ \A k \in Keys \ {n} : new.at[k] = f.at[k]
  /\ f = None => new.text = 0 /\ \A k \in Keys \ {n} : new.at[k] = "none"

\* The first edit of an agent in a file: a copy A - B, a record, new contents.
FirstBy(p, f, new, n, B, A, id, L, M, N) ==
  /\ OnPath(M, p) = OnPath(L, p) \cup {N + 1}
  /\ \A i \in OnPath(L, p) : i \in 1..N /\ M[i] = L[i]
  /\ \A b \in B : b.id \in Nat /\ b.id # id
  /\ \A i \in OnPath(L, p) : L[i].backup # id
  /\ M[N + 1].after = new /\ M[N + 1].backup = IF f = None THEN None ELSE id
  /\ IF f = None THEN A = B ELSE \E x : A = B \cup {x} /\ x.id = id /\ x.content = f
  /\ \/ PutIn(p, f, new, n, M[N + 1].json)
     \/ p = "rule" /\ new = TheRule /\ f # TheRule /\ M[N + 1].json = {}
  /\ new # None

\* The first edit of a file by an agent: a copy and a record of what it held
\* before; the order of records and copies is kept.
LEMMA FirstEdit ==
  ASSUME NEW p, NEW f, NEW B, NEW own \in Nat \cup {None}, NEW theirs \in SUBSET Keys, NEW shared \in BOOLEAN,
         NEW half \in BOOLEAN, NEW unrec \in BOOLEAN, NEW L, NEW M, NEW N \in Nat, NEW low \in 0..N,
         NEW id \in Nat, NEW new, NEW n, NEW A, FirstBy(p, f, new, n, B, A, id, L, M, N),
         PathOk(p, f, B, own, theirs, shared, L, half, unrec)
  PROVE  /\ PathOk(p, new, A, own, theirs, shared, M, half, unrec)
         /\ Opening(p, new, A, own, theirs, M, low, half)
<1>p. /\ OnPath(M, p) = OnPath(L, p) \cup {N + 1}
      /\ \A i \in OnPath(L, p) : i \in 1..N /\ M[i] = L[i]
      /\ \A b \in B : b.id \in Nat /\ b.id # id
      /\ \A i \in OnPath(L, p) : L[i].backup # id
      /\ M[N + 1].after = new /\ M[N + 1].backup = IF f = None THEN None ELSE id
      /\ IF f = None THEN A = B ELSE \E x : A = B \cup {x} /\ x.id = id /\ x.content = f
      /\ \/ PutIn(p, f, new, n, M[N + 1].json)
         \/ p = "rule" /\ new = TheRule /\ f # TheRule /\ M[N + 1].json = {}
      /\ new # None
  BY DEF FirstBy
<1> USE <1>p
<1> DEFINE I == OnPath(L, p)
           J == OnPath(M, p)
           c == M[N + 1]
<1>0. J = I \cup {N + 1} /\ \A i \in I : i \in 1..N /\ M[i] = L[i]
  OBVIOUS
<1>a. N + 1 \in J /\ Latest(J, N + 1) /\ ~(N + 1 \in I) /\ \A i \in J : i \in 1..(N + 1)
  BY <1>0 DEF Latest
<1>b. p \in Watched /\ p \notin InstallerFiles
  BY DEF PutIn, Watched, Forms, JsonFiles, InstallerFiles
<1>c. \A b \in A : b \in B \/ (f # None /\ b.id = id /\ b.content = f)
  OBVIOUS
<1>d. B \subseteq A /\ (f # None => \E b \in A : b.id = id /\ b.content = f)
  OBVIOUS
<1>e. None \notin Nat /\ id # None
  BY NoneIsNoNumber
<1>f. \A i \in I : \A b \in A : b.id = L[i].backup => b \in B
  BY <1>c
<1>g. p # "rule" \/ p \notin Forms
  BY DEF Forms, JsonFiles
<1>h. p \in Forms => PutIn(p, f, new, n, c.json)
  BY <1>g
<1>i. p = "rule" => new = TheRule /\ f # TheRule /\ c.json = {}
  BY <1>g DEF PutIn
<1>1. own # None /\ p \in Forms => (\E b \in A : Holds(b.content, own)) /\ new.text = own
  <2> SUFFICES ASSUME own # None, p \in Forms
               PROVE (\E b \in A : Holds(b.content, own)) /\ new.text = own
    OBVIOUS
  <2>1. /\ IF f # None THEN f.text = own ELSE own = 0
        /\ (f # None /\ Holds(f, own)) \/ \E b \in B : Holds(b.content, own)
    BY DEF PathOk, TextKept
  <2> QED BY <2>1, <1>d, <1>h DEF PutIn
<1>2. TextKept(p, new, A, own)
  <2>1. p = "rule" /\ own # None => \E b \in A : b.content.text = own
    BY <1>d DEF PathOk, TextKept
  <2> QED BY <1>1, <2>1, <1>b DEF TextKept
<1>3. ASSUME ~half, p # "config.toml", NEW k \in theirs  PROVE \E b \in A : b.content.at[k] = "theirs"
  BY <1>3, <1>d DEF PathOk, TheirsKept
<1>4. ASSUME ~half  PROVE TheirsKept(p, new, A, theirs, M)
  <2> SUFFICES ASSUME p # "config.toml", NEW k \in theirs, NEW j \in J, k \in M[j].json
               PROVE  \E b \in A : b.content.at[k] = "theirs" /\ \A i \in J : i > j => M[i].backup # b.id
    BY <1>3, <1>4 DEF TheirsKept
  <2>1. CASE j = N + 1
    <3>1. \A i \in J : ~(i > j)
      BY <2>1, <1>a
    <3> HIDE DEF J
    <3> QED BY <3>1, <1>3, <1>4
  <2>2. CASE j \in I
    <3>1. PICK b \in B : b.content.at[k] = "theirs" /\ \A i \in I : i > j => L[i].backup # b.id
      BY <2>2, <1>4, <1>0 DEF PathOk, TheirsKept
    <3>2. c.backup # b.id
      BY <1>e
    <3>3. \A i \in J : i > j => M[i].backup # b.id
      BY <3>1, <3>2, <1>0
    <3> HIDE DEF J
    <3> QED BY <3>1, <3>3, <1>d
  <2> HIDE DEF I, J
  <2> QED BY <2>1, <2>2, <1>0
<1>5. ASSUME ~half  PROVE Recorded(p, A, M)
  <2>1. Recorded(p, B, L)
    BY <1>5 DEF PathOk
  <2>2. ASSUME NEW i \in J, M[i].backup # None  PROVE \E b \in A : b.id = M[i].backup
    BY <2>1, <2>2, <1>0, <1>d DEF Recorded
  <2>3. ASSUME NEW i \in J, NEW j \in J, i # j, M[i].backup = M[j].backup  PROVE M[i].backup = None
    BY <2>1, <2>3, <1>0 DEF Recorded
  <2> QED BY <2>2, <2>3 DEF Recorded
<1>6. ASSUME NEW S \in SUBSET I, Accounted(f, B, L, S), p \in Forms
      PROVE  Accounted(new, A, M, S \cup {N + 1})
  <2> DEFINE T == S \cup {N + 1}
  <2>0. PutIn(p, f, new, n, c.json) /\ n \in Keys
    BY <1>6, <1>h DEF PutIn, Names
  <2>1. ASSUME NEW k \in Names, new.at[k] \in Ours
        PROVE  \E i \in T : k \in M[i].json \/ k \in new.marks
    <3>1. CASE k = n
      BY <3>1, <2>0 DEF PutIn
    <3>2. CASE k # n
      <4>1. f # None /\ f.plain /\ f.at[k] \in Ours /\ f.marks \subseteq new.marks
        BY <3>2, <2>0, <2>1 DEF PutIn, Names, Ours
      <4>2. PICK i \in S : k \in L[i].json \/ k \in f.marks
        BY <4>1, <1>6, <2>1 DEF Accounted, Covered
      <4> QED BY <4>1, <4>2, <1>0
    <3> QED BY <3>1, <3>2
  <2>2. ASSUME NEW j \in T, NEW b \in A, b.id = M[j].backup
        PROVE  Covered(b.content, M, {i \in T : i < j})
    <3>1. CASE j \in S
      <4>1. b \in B /\ b.id = L[j].backup
        BY <3>1, <2>2, <1>f, <1>0
      <4>2. Covered(b.content, L, {i \in S : i < j})
        BY <4>1, <3>1, <1>6 DEF Accounted
      <4>3. {i \in T : i < j} = {i \in S : i < j}
        BY <3>1, <1>0
      <4>4. \A i \in S : M[i] = L[i]
        BY <1>0
      <4> QED BY <4>2, <4>3, <4>4 DEF Covered
    <3>2. CASE j = N + 1
      <4>1. b.content = f
        BY <3>2, <2>2, <1>c, <1>e
      <4>2. Covered(f, L, S)
        BY <1>6 DEF Accounted
      <4>5. \A i \in S : i < N + 1 /\ i # N + 1
        BY <1>0
      <4>6. ~(j < j)
        BY <3>2
      <4>3. {i \in T : i < j} = S
        BY <4>5, <4>6, <3>2, Zenon
      <4>4. \A i \in S : M[i] = L[i]
        BY <1>0
      <4> QED BY <4>1, <4>2, <4>3, <4>4 DEF Covered
    <3> QED BY <3>1, <3>2
  <2> QED BY <2>1, <2>2 DEF Accounted, Covered
<1>7. ASSUME Grown(f, B, L, I) \/ f = None  PROVE Grown(new, A, M, J)
  <2>1. CASE f = None
    BY <2>1, <1>a, <1>0 DEF Grown
  <2>2. CASE f # None /\ Grown(f, B, L, I)
    <3>1. PICK m \in I : /\ L[m].backup = None
                         /\ \A i \in I : i >= m =>
                              /\ Latest(I, i) => L[i].after = f
                              /\ \A j \in I : (i < j /\ \A q \in I : q <= i \/ q >= j) =>
                                    \E b \in B : b.id = L[j].backup /\ b.content = L[i].after
      BY <2>2 DEF Grown
    <3>2. ASSUME NEW i \in J, i >= m
          PROVE /\ Latest(J, i) => M[i].after = new
                /\ \A j \in J : (i < j /\ \A q \in J : q <= i \/ q >= j) =>
                      \E b \in A : b.id = M[j].backup /\ b.content = M[i].after
      <4>1. Latest(J, i) => M[i].after = new
        BY <1>0, <1>a DEF Latest
      <4>2. ASSUME NEW j \in J, i < j, \A q \in J : q <= i \/ q >= j
            PROVE  \E b \in A : b.id = M[j].backup /\ b.content = M[i].after
        <5>1. i \in I /\ M[i] = L[i]
          BY <4>2, <1>0
        <5>2. CASE j \in I
          <6>1. \A q \in I : q <= i \/ q >= j
            BY <4>2, <1>0
          <6>2. \E b \in B : b.id = L[j].backup /\ b.content = L[i].after
            BY <6>1, <5>1, <5>2, <4>2, <3>1, <3>2
          <6> QED BY <6>2, <5>1, <5>2, <1>0, <1>d
        <5>3. CASE j = N + 1
          <6>1. Latest(I, i)
            BY <4>2, <5>3, <5>1, <1>0 DEF Latest
          <6>2. L[i].after = f
            BY <6>1, <5>1, <3>1, <3>2
          <6> QED BY <6>2, <5>1, <5>3, <2>2, <1>d
        <5> HIDE DEF I, J
        <5> QED BY <5>2, <5>3, <1>0
      <4> QED BY <4>1, <4>2
    <3>3. m \in J /\ M[m].backup = None
      BY <3>1, <1>0
    <3> HIDE DEF I, J
    <3> QED BY <3>2, <3>3 DEF Grown
  <2> QED BY <2>1, <2>2, <1>7
<1>8. ASSUME ~half, ~unrec, p \in Forms  PROVE FormTracked(new, A, own, shared, M, J)
  <2>0. FormTracked(f, B, own, shared, L, I) /\ (shared => own = None)
    BY <1>8 DEF PathOk
  <2>1. Accounted(new, A, M, J)
    BY <2>0, <1>8, <1>6, <1>0 DEF FormTracked
  <2>2. ASSUME own = None, ~shared PROVE Grown(new, A, M, J)
    BY <2>0, <2>2, <1>7 DEF FormTracked
  <2>3. ASSUME own = 0 PROVE Younger(new, A, M, J)
    <3>1. f # None
      BY <2>3, <2>0, <1>e DEF FormTracked
    <3>2. PICK S \in SUBSET I : /\ \A i \in S : L[i].backup # None /\ \A j \in I : j > i => j \in S
                                /\ Accounted(f, B, L, S)
      BY <2>0, <2>3 DEF FormTracked, Younger
    <3> DEFINE T == S \cup {N + 1}
    <3>3. Accounted(new, A, M, T)
      BY <3>2, <1>6, <1>8
    <3>4. \A i \in T : M[i].backup # None /\ \A j \in J : j > i => j \in T
      BY <3>1, <3>2, <1>0, <1>e
    <3>5. T \in SUBSET J
      BY <1>0
    <3> HIDE DEF T, J
    <3> QED BY <3>3, <3>4, <3>5 DEF Younger
  <2> HIDE DEF I, J
  <2> QED BY <2>1, <2>2, <2>3 DEF FormTracked
<1>9. ASSUME ~half, ~unrec, p = "rule"  PROVE RuleTracked(new, A, own, shared, M, J)
  <2>0. RuleTracked(f, B, own, shared, L, I) /\ new = TheRule /\ f # TheRule
    BY <1>9, <1>i DEF PathOk
  <2>1. ASSUME ~shared, own # None PROVE \E b \in A : b.id = c.backup /\ b.content.text = own
    BY <2>0, <2>1, <1>d DEF RuleTracked
  <2>2. ASSUME ~shared, own = None PROVE c.backup = None
    BY <2>0, <2>2 DEF RuleTracked
  <2> QED BY <2>0, <2>1, <2>2, <1>a DEF RuleTracked
<1>10. PathOk(p, new, A, own, theirs, shared, M, half, unrec)
  BY <1>2, <1>4, <1>5, <1>8, <1>9 DEF PathOk
<1>11. Opening(p, new, A, own, theirs, M, low, half)
  <2>1. \E i \in J : i > low /\ Latest(J, i) /\ M[i].after = new
    BY <1>a
  <2>2. (p \in Forms /\ own # None) => \E b \in A : Holds(b.content, own)
    BY <1>1
  <2>3. (p # "config.toml" /\ ~half) => \A k \in theirs : \E b \in A : b.content.at[k] = "theirs"
    BY <1>3
  <2> QED BY <2>1, <2>2, <2>3, <1>b DEF Opening
<1> QED BY <1>10, <1>11

\* A later edit of the same agent: no copy, the record takes the new content.
LaterBy(p, f, new, n, json, L, M, last) ==
  /\ OnPath(L, p) \subseteq Int /\ OnPath(M, p) = OnPath(L, p) /\ Latest(OnPath(L, p), last)
  /\ \A i \in OnPath(L, p) \ {last} : M[i] = L[i]
  /\ M[last].after = new /\ M[last].backup = L[last].backup /\ M[last].json = L[last].json \cup json
  /\ PutIn(p, f, new, n, json) /\ new # None /\ HasOurs(f)

\* A further edit of a file the agent has opened: only the last record
\* changes, no copy is made.
LEMMA LaterEdit ==
  ASSUME NEW p, NEW f, NEW B, NEW own \in Nat \cup {None}, NEW theirs \in SUBSET Keys, NEW shared \in BOOLEAN,
         NEW half \in BOOLEAN, NEW unrec \in BOOLEAN, NEW L, NEW M, NEW low \in Nat, NEW last,
         NEW new, NEW n, NEW json, LaterBy(p, f, new, n, json, L, M, last),
         Opening(p, f, B, own, theirs, L, low, half),
         PathOk(p, f, B, own, theirs, shared, L, half, unrec)
  PROVE  /\ PathOk(p, new, B, own, theirs, shared, M, half, unrec)
         /\ Opening(p, new, B, own, theirs, M, low, half)
<1>h. /\ OnPath(L, p) \subseteq Int /\ OnPath(M, p) = OnPath(L, p) /\ Latest(OnPath(L, p), last)
      /\ \A i \in OnPath(L, p) \ {last} : M[i] = L[i]
      /\ M[last].after = new /\ M[last].backup = L[last].backup /\ M[last].json = L[last].json \cup json
      /\ PutIn(p, f, new, n, json) /\ new # None /\ HasOurs(f)
  BY DEF LaterBy
<1> USE <1>h
<1> DEFINE I == OnPath(L, p)
<1>0. /\ last \in I /\ (\A i \in I : i \in Int /\ i <= last) /\ OnPath(M, p) = I
      /\ \A i \in I : M[i].backup = L[i].backup /\ (i # last => M[i] = L[i]) /\ L[i].json \subseteq M[i].json
      /\ \A i \in I : Latest(I, i) <=> i = last
  BY DEF Latest
<1>a. p \in Forms /\ p \in Watched /\ p \notin InstallerFiles /\ p # "rule" /\ f # None /\ f.plain
  BY DEF PutIn, Watched, Forms, JsonFiles, InstallerFiles, Opening
<1>b. L[last].after = f
  BY <1>0 DEF Opening
<1>1. own # None => (\E b \in B : Holds(b.content, own)) /\ new.text = own
  BY <1>a DEF PathOk, TextKept, Opening, PutIn
<1>2. TextKept(p, new, B, own)
  BY <1>1, <1>a DEF TextKept
<1>4. ASSUME ~half  PROVE TheirsKept(p, new, B, theirs, M)
  <2> SUFFICES ASSUME p # "config.toml", NEW k \in theirs
               PROVE  /\ \E b \in B : b.content.at[k] = "theirs"
                      /\ \A j \in I : k \in M[j].json =>
                           \E b \in B : b.content.at[k] = "theirs" /\ \A i \in I : i > j => M[i].backup # b.id
    BY <1>0 DEF TheirsKept
  <2>1. \E b \in B : b.content.at[k] = "theirs"
    BY <1>4 DEF Opening
  <2>2. ASSUME NEW j \in I, k \in M[j].json
        PROVE  \E b \in B : b.content.at[k] = "theirs" /\ \A i \in I : i > j => M[i].backup # b.id
    <3>1. CASE j = last
      BY <3>1, <2>1, <1>0
    <3>2. CASE j # last
      <4>1. k \in L[j].json
        BY <3>2, <2>2, <1>0
      <4>2. PICK b \in B : b.content.at[k] = "theirs" /\ \A i \in I : i > j => L[i].backup # b.id
        BY <4>1, <1>4 DEF PathOk, TheirsKept
      <4> QED BY <4>2, <1>0
    <3> QED BY <3>1, <3>2
  <2> QED BY <2>1, <2>2
<1>5. ASSUME ~half  PROVE Recorded(p, B, M)
  BY <1>5, <1>0 DEF PathOk, Recorded
<1>6. ASSUME NEW S \in SUBSET I, Accounted(f, B, L, S), last \in S
      PROVE  Accounted(new, B, M, S)
  <2>0. n \in Keys /\ \A i \in S : L[i].json \subseteq M[i].json
    BY <1>0 DEF PutIn, Names
  <2>1. ASSUME NEW k \in Names, new.at[k] \in Ours
        PROVE  \E i \in S : k \in M[i].json \/ k \in new.marks
    <3>1. CASE k = n
      <4>1. n \in M[last].json \/ n \in new.marks
        BY DEF PutIn
      <4> QED BY <4>1, <3>1, <1>6
    <3>2. CASE k # n
      <4>1. f.at[k] \in Ours /\ f.marks \subseteq new.marks
        BY <1>a, <3>2, <2>1 DEF PutIn, Names
      <4>2. PICK i \in S : k \in L[i].json \/ k \in f.marks
        BY <4>1, <1>a, <1>6, <2>1 DEF Accounted, Covered
      <4> QED BY <4>1, <4>2, <2>0
    <3> QED BY <3>1, <3>2
  <2>2. ASSUME NEW j \in S, NEW b \in B, b.id = M[j].backup
        PROVE  Covered(b.content, M, {i \in S : i < j})
    <3>1. Covered(b.content, L, {i \in S : i < j})
      BY <2>2, <1>6, <1>0 DEF Accounted
    <3>2. \A i \in {q \in S : q < j} : L[i].json \subseteq M[i].json
      BY <2>0
    <3> QED BY <3>1, <3>2 DEF Covered
  <2> QED BY <2>1, <2>2 DEF Accounted, Covered
<1>7. ASSUME Grown(f, B, L, I)  PROVE Grown(new, B, M, I)
  <2>1. PICK m \in I : /\ L[m].backup = None
                       /\ \A i \in I : i >= m =>
                            /\ Latest(I, i) => L[i].after = f
                            /\ \A j \in I : (i < j /\ \A q \in I : q <= i \/ q >= j) =>
                                  \E b \in B : b.id = L[j].backup /\ b.content = L[i].after
    BY <1>7 DEF Grown
  <2>2. ASSUME NEW i \in I, i >= m
        PROVE /\ Latest(I, i) => M[i].after = new
              /\ \A j \in I : (i < j /\ \A q \in I : q <= i \/ q >= j) =>
                    \E b \in B : b.id = M[j].backup /\ b.content = M[i].after
    <3>1. Latest(I, i) => M[i].after = new
      BY <1>0
    <3>2. ASSUME NEW j \in I, i < j, \A q \in I : q <= i \/ q >= j
          PROVE  \E b \in B : b.id = M[j].backup /\ b.content = M[i].after
      <4>1. i # last
        BY <3>2, <1>0
      <4> QED BY <4>1, <3>2, <2>1, <2>2, <1>0
    <3> QED BY <3>1, <3>2
  <2> HIDE DEF I
  <2> QED BY <2>1, <2>2, <1>0 DEF Grown
<1>8. ASSUME ~half, ~unrec  PROVE FormTracked(new, B, own, shared, M, I)
  <2>0. FormTracked(f, B, own, shared, L, I) /\ (shared => own = None)
    BY <1>8, <1>a DEF PathOk
  <2>1. Accounted(new, B, M, I)
    BY <2>0, <1>6, <1>0 DEF FormTracked
  <2>2. ASSUME own = None, ~shared PROVE Grown(new, B, M, I)
    BY <2>0, <2>2, <1>7, <1>a DEF FormTracked
  <2>3. ASSUME own = 0 PROVE Younger(new, B, M, I)
    <3>2. PICK S \in SUBSET I : /\ \A i \in S : L[i].backup # None /\ \A j \in I : j > i => j \in S
                                /\ Accounted(f, B, L, S)
      BY <2>0, <2>3 DEF FormTracked, Younger
    <3>3. PICK i \in S : TRUE
      BY <3>2, <1>a DEF Accounted, Covered, HasOurs
    <3>4. last \in S
      BY <3>2, <3>3, <1>0
    <3>5. Accounted(new, B, M, S)
      BY <3>2, <3>4, <1>6
    <3>6. \A q \in S : M[q].backup # None /\ \A j \in I : j > q => j \in S
      BY <3>2, <1>0
    <3> HIDE DEF I
    <3> QED BY <3>5, <3>6 DEF Younger
  <2> HIDE DEF I
  <2> QED BY <2>1, <2>2, <2>3 DEF FormTracked
<1>10. PathOk(p, new, B, own, theirs, shared, M, half, unrec)
  BY <1>2, <1>4, <1>5, <1>8, <1>a, <1>0 DEF PathOk
<1>11. Opening(p, new, B, own, theirs, M, low, half)
  <2>1. \E i \in I : i > low /\ Latest(I, i) /\ M[i].after = new
    BY <1>0 DEF Opening
  <2> QED BY <2>1, <1>0 DEF Opening
<1> QED BY <1>10, <1>11

\* What a record of a file says, the copies B of that file.
RecordOf(p, c, B) ==
  /\ p \in Watched /\ IsFile(c.after)
  /\ c.json \subseteq Keys /\ (p \notin JsonFiles => c.json = {})
  /\ p = "rule" => c.after = TheRule
  /\ p \in Forms =>
       /\ HasOurs(c.after) /\ c.after.plain
       /\ c.backup = None => (c.after.text = 0 /\ \A n \in Keys : c.after.at[n] # "theirs")
       /\ \A b \in B : b.id = c.backup =>
            /\ b.content.text = c.after.text
            /\ \A n \in Keys : c.after.at[n] = "theirs" => b.content.at[n] = "theirs"

\* The last record n of L on a path is dropped: K is the others.
LastRecord(p, L, K, n, B) ==
  /\ OnPath(L, p) \subseteq Int /\ Latest(OnPath(L, p), n) /\ OnPath(K, p) = OnPath(L, p) \ {n}
  /\ \A i \in OnPath(K, p) : K[i] = L[i]
  /\ RecordOf(p, L[n], B)

\* What is left of a file changed since its record c was made.
Stripped(p, f, g, c) ==
  /\ g # None /\ g.text = f.text /\ g.plain = f.plain
  /\ \A n \in Keys : g.at[n] = f.at[n] \/ g.at[n] = "none"
  /\ f.plain => \A n \in c.json : g.at[n] = "none"
  /\ p \in {"config.toml", "hermes.yaml"} => \A n \in Keys : g.at[n] \notin Ours
  /\ p # "config.toml" => \A n \in Keys \ c.json : f.at[n] = "theirs" => g.at[n] = "theirs"
  /\ p = "rule" => g = f

\* The rule has no entry under the router's names.
LEMMA RuleFacts == ~HasOurs(TheRule) /\ TheRule # None /\ \A n \in Keys : TheRule.at[n] # "theirs"
<1>1. TheRule \in FilesSaying(None)
  BY DEF TheRule, FilesSaying, Blank, Keys, Ours
<1> QED BY <1>1, HomesFound DEF TheRule, HasOurs, Names, Ours, Blank, Keys

\* The files users edit: forms, the rule and the installer's own.
LEMMA PathKinds == /\ "rule" \notin Forms /\ Watched \cap InstallerFiles = {} /\ Forms \subseteq Watched
                   /\ Forms \ JsonFiles = {"config.toml", "hermes.yaml"} /\ JsonFiles \subseteq Forms
                   /\ Watched \cup InstallerFiles = Paths \ Settled /\ Names \subseteq Keys
BY DEF Forms, Watched, InstallerFiles, JsonFiles, Paths, Settled, Skills, Registry, Names, Keys

\* Records that lie before the last one do not see it go.
LEMMA LastDropped ==
  ASSUME NEW I, I \subseteq Int, NEW n, Latest(I, n), NEW S \in SUBSET I, NEW L, NEW K,
         \A i \in I \ {n} : K[i] = L[i], NEW f, NEW g, NEW B, NEW A \in SUBSET B,
         Accounted(f, B, L, S), Covered(g, K, S \ {n})
  PROVE  Accounted(g, A, K, S \ {n})
<1>1. ASSUME NEW j \in S \ {n}, NEW b \in A, b.id = K[j].backup
      PROVE  Covered(b.content, K, {i \in S \ {n} : i < j})
  <2>1. Covered(b.content, L, {i \in S : i < j})
    BY <1>1 DEF Accounted
  <2>2. {i \in S : i < j} = {i \in S \ {n} : i < j}
    BY <1>1 DEF Latest
  <2>3. \A i \in S \ {n} : K[i] = L[i]
    OBVIOUS
  <2> QED BY <2>1, <2>2, <2>3 DEF Covered
<1> QED BY <1>1 DEF Accounted

\* Its record is dropped: the file was not there, or changed since.
LEMMA ChangedSince ==
  ASSUME NEW p, NEW f, NEW g, NEW B, NEW own \in Nat \cup {None}, NEW theirs \in SUBSET Keys, NEW shared \in BOOLEAN,
         NEW half \in BOOLEAN, NEW unrec \in BOOLEAN, NEW L, NEW K, NEW n,
         LastRecord(p, L, K, n, B),
         f = None \/ (IsFile(f) /\ Formed(p, f)),
         \/ f = None /\ g = None
         \/ f # None /\ f # L[n].after /\ Stripped(p, f, g, L[n]),
         PathOk(p, f, B, own, theirs, shared, L, half, unrec)
  PROVE  PathOk(p, g, B, own, theirs, shared, K, half, unrec)
<1>l. /\ OnPath(L, p) \subseteq Int /\ Latest(OnPath(L, p), n) /\ OnPath(K, p) = OnPath(L, p) \ {n}
      /\ \A i \in OnPath(K, p) : K[i] = L[i]
      /\ RecordOf(p, L[n], B)
  BY DEF LastRecord
<1> USE <1>l
<1> DEFINE I == OnPath(L, p)
           c == L[n]
<1>0. n \in I /\ (\A i \in I : i \in Int /\ i <= n) /\ OnPath(K, p) = I \ {n} /\ \A i \in I \ {n} : K[i] = L[i]
  BY DEF Latest
<1>a. p \in Watched /\ p \notin InstallerFiles
  BY PathKinds DEF RecordOf
<1>b. (f # None <=> g # None) /\ (f # None => Stripped(p, f, g, c) /\ g.text = f.text)
  BY FileThere DEF Stripped
<1>h. f # None /\ HasOurs(g) => HasOurs(f)
  BY <1>b, PathKinds DEF Stripped, HasOurs, Ours
<1>1. TextKept(p, g, B, own)
  <2>1. p \in Forms /\ f # None /\ Holds(f, own) => Holds(g, own)
    BY <1>b, <1>h DEF Holds
  <2>2. TextKept(p, f, B, own)
    BY DEF PathOk
  <2>3. p = "rule" => g = f
    BY <1>b DEF Stripped
  <2> QED BY <2>1, <2>2, <2>3, <1>a, <1>b DEF TextKept
<1>2. ASSUME ~half  PROVE TheirsKept(p, g, B, theirs, K) /\ Recorded(p, B, K)
  <2>0. TheirsKept(p, f, B, theirs, L) /\ Recorded(p, B, L)
    BY <1>2 DEF PathOk
  <2>1. Recorded(p, B, K)
    BY <2>0, <1>0 DEF Recorded
  <2> SUFFICES ASSUME p # "config.toml", NEW k \in theirs
               PROVE  /\ (g # None /\ g.at[k] = "theirs") \/ \E b \in B : b.content.at[k] = "theirs"
                      /\ \A j \in I \ {n} : k \in K[j].json =>
                           \E b \in B : b.content.at[k] = "theirs" /\ \A i \in I \ {n} : i > j => K[i].backup # b.id
    BY <2>1, <1>0 DEF TheirsKept
  <2>2. /\ (f # None /\ f.at[k] = "theirs") \/ \E b \in B : b.content.at[k] = "theirs"
        /\ \A j \in I : k \in L[j].json =>
             \E b \in B : b.content.at[k] = "theirs" /\ \A i \in I : i > j => L[i].backup # b.id
    BY <2>0 DEF TheirsKept
  <2>3. (g # None /\ g.at[k] = "theirs") \/ \E b \in B : b.content.at[k] = "theirs"
    <3>1. CASE k \in c.json
      BY <3>1, <2>2, <1>0
    <3>2. CASE k \notin c.json
      BY <3>2, <2>2, <1>b DEF Stripped
    <3> QED BY <3>1, <3>2
  <2> QED BY <2>2, <2>3, <1>0
<1>3. ASSUME NEW S \in SUBSET I, Accounted(f, B, L, S), p \in Forms  PROVE Accounted(g, B, K, S \ {n})
  <2>1. Covered(g, K, S \ {n})
    <3> SUFFICES ASSUME g # None, g.plain, NEW k \in Names, g.at[k] \in Ours
                 PROVE  \E i \in S \ {n} : k \in K[i].json \/ k \in g.marks
      BY DEF Covered
    <3>1. k \in Keys /\ f # None /\ f.plain /\ f.at[k] \in Ours /\ k \notin c.json /\ p \in JsonFiles /\ k \notin f.marks
      BY <1>b, <1>3, PathKinds DEF Stripped, Ours, Formed
    <3>2. PICK i \in S : k \in L[i].json
      BY <3>1, <1>3 DEF Accounted, Covered
    <3> QED BY <3>1, <3>2, <1>0
  <2> QED BY <2>1, <1>3, <1>0, LastDropped
<1>4. ASSUME ~half, ~unrec, p \in Forms  PROVE FormTracked(g, B, own, shared, K, I \ {n})
  <2>0. FormTracked(f, B, own, shared, L, I)
    BY <1>4 DEF PathOk
  <2>1. Accounted(g, B, K, I \ {n})
    BY <2>0, <1>3, <1>4 DEF FormTracked
  <2>2. ~(own = None /\ ~shared /\ g # None)
    <3> SUFFICES ASSUME own = None, ~shared, g # None PROVE FALSE
      OBVIOUS
    <3>1. Grown(f, B, L, I) /\ f # c.after
      BY <2>0, <1>b DEF FormTracked
    <3>2. Latest(I, n)
      OBVIOUS
    <3> QED BY <3>1, <3>2, <1>0 DEF Grown
  <2>3. ASSUME own = 0 PROVE Younger(g, B, K, I \ {n})
    <3>1. PICK S \in SUBSET I : /\ \A i \in S : L[i].backup # None /\ \A j \in I : j > i => j \in S
                                /\ Accounted(f, B, L, S)
      BY <2>0, <2>3 DEF FormTracked, Younger
    <3>2. Accounted(g, B, K, S \ {n})
      BY <3>1, <1>3, <1>4
    <3>3. \A i \in S \ {n} : K[i].backup # None /\ \A j \in I \ {n} : j > i => j \in S \ {n}
      BY <3>1, <1>0
    <3>4. S \ {n} \in SUBSET (I \ {n})
      OBVIOUS
    <3> HIDE DEF I
    <3> QED BY <3>2, <3>3, <3>4 DEF Younger
  <2> HIDE DEF I
  <2> QED BY <2>0, <2>1, <2>2, <2>3, <1>b DEF FormTracked
<1>5. ASSUME ~half, ~unrec, p = "rule"  PROVE RuleTracked(g, B, own, shared, K, I \ {n})
  <2>1. RuleTracked(f, B, own, shared, L, I) /\ g = f /\ f # TheRule
    BY <1>5, <1>b, RuleFacts DEF PathOk, Stripped, RecordOf
  <2> QED BY <2>1 DEF RuleTracked
<1> QED BY <1>0, <1>1, <1>2, <1>4, <1>5 DEF PathOk

\* It is as configure left it, and configure had made it: it goes.
LEMMA CreatedGoes ==
  ASSUME NEW p, NEW f, NEW B, NEW own \in Nat \cup {None}, NEW theirs \in SUBSET Keys, NEW shared \in BOOLEAN,
         NEW half \in BOOLEAN, NEW unrec \in BOOLEAN, NEW L, NEW K, NEW n,
         LastRecord(p, L, K, n, B),
         \A b \in B : b.id \in Nat,
         f # None, f = L[n].after, L[n].backup = None,
         PathOk(p, f, B, own, theirs, shared, L, half, unrec)
  PROVE  PathOk(p, None, B, own, theirs, shared, K, half, unrec)
<1>l. /\ OnPath(L, p) \subseteq Int /\ Latest(OnPath(L, p), n) /\ OnPath(K, p) = OnPath(L, p) \ {n}
      /\ \A i \in OnPath(K, p) : K[i] = L[i]
      /\ RecordOf(p, L[n], B)
  BY DEF LastRecord
<1> USE <1>l
<1> DEFINE I == OnPath(L, p)
           c == L[n]
<1>0. n \in I /\ (\A i \in I : i \in Int /\ i <= n) /\ OnPath(K, p) = I \ {n} /\ \A i \in I \ {n} : K[i] = L[i]
  BY DEF Latest
<1>a. p \in Watched /\ p \notin InstallerFiles /\ (p \in Forms \/ p = "rule") /\ ~(p \in Forms /\ p = "rule")
  BY PathKinds DEF RecordOf, Watched
<1>b. p \in Forms => f.text = 0 /\ HasOurs(f) /\ f.plain
  BY DEF RecordOf
<1>c. \A k \in Keys : f.at[k] # "theirs"
  BY <1>a, RuleFacts DEF RecordOf
<1>d. p = "rule" => f = TheRule
  BY DEF RecordOf
<1>1. TextKept(p, None, B, own)
  <2>1. TextKept(p, f, B, own)
    BY DEF PathOk
  <2> QED BY <2>1, <1>a, <1>b, <1>d DEF TextKept, Holds
<1>2. ASSUME ~half  PROVE TheirsKept(p, None, B, theirs, K) /\ Recorded(p, B, K)
  <2>0. TheirsKept(p, f, B, theirs, L) /\ Recorded(p, B, L)
    BY <1>2 DEF PathOk
  <2>1. Recorded(p, B, K)
    BY <2>0, <1>0 DEF Recorded
  <2> SUFFICES ASSUME p # "config.toml", NEW k \in theirs
               PROVE  /\ \E b \in B : b.content.at[k] = "theirs"
                      /\ \A j \in I \ {n} : k \in K[j].json =>
                           \E b \in B : b.content.at[k] = "theirs" /\ \A i \in I \ {n} : i > j => K[i].backup # b.id
    BY <2>1, <1>0 DEF TheirsKept
  <2>2. /\ (f # None /\ f.at[k] = "theirs") \/ \E b \in B : b.content.at[k] = "theirs"
        /\ \A j \in I : k \in L[j].json =>
             \E b \in B : b.content.at[k] = "theirs" /\ \A i \in I : i > j => L[i].backup # b.id
    BY <2>0 DEF TheirsKept
  <2> QED BY <2>2, <1>c, <1>0
<1>4. ASSUME ~half, ~unrec, p \in Forms  PROVE FormTracked(None, B, own, shared, K, I \ {n})
  <2>0. FormTracked(f, B, own, shared, L, I) /\ TextKept(p, f, B, own) /\ (shared => own = None)
    BY <1>4 DEF PathOk
  <2>1. own # None => own = 0
    BY <2>0, <1>4, <1>b DEF TextKept
  <2>2. own # 0
    <3> SUFFICES ASSUME own = 0 PROVE FALSE
      OBVIOUS
    <3>1. PICK S \in SUBSET I : /\ \A i \in S : L[i].backup # None /\ \A j \in I : j > i => j \in S
                                /\ Accounted(f, B, L, S)
      BY <2>0 DEF FormTracked, Younger
    <3>2. PICK i \in S : TRUE
      BY <3>1, <1>b, <1>4 DEF Accounted, Covered, HasOurs
    <3>3. n \in S
      BY <3>1, <3>2, <1>0
    <3> QED BY <3>3, <3>1
  <2>3. Accounted(None, B, K, I \ {n})
    BY <2>0, <1>0, LastDropped DEF FormTracked, Covered
  <2> QED BY <2>1, <2>2, <2>3 DEF FormTracked
<1>5. ASSUME ~half, ~unrec, p = "rule"  PROVE RuleTracked(None, B, own, shared, K, I \ {n})
  <2>1. RuleTracked(f, B, own, shared, L, I) /\ f = TheRule
    BY <1>5, <1>d DEF PathOk
  <2>2. ASSUME ~shared, own # None PROVE FALSE
    <3>1. PICK i \in I : Latest(I, i) /\ \E b \in B : b.id = L[i].backup
      BY <2>1, <2>2 DEF RuleTracked
    <3>2. i = n
      BY <3>1, <1>0 DEF Latest
    <3> QED BY <3>1, <3>2, NoneIsNoNumber
  <2> QED BY <2>2 DEF RuleTracked
<1> HIDE DEF I
<1> QED BY <1>0, <1>1, <1>2, <1>4, <1>5 DEF PathOk, I

\* It is as configure left it: its copy comes back.
CopyOf(p, B, back, id, g, A) ==
  /\ \A b \in B : b.id \in Nat /\ IsFile(b.content) /\ (p = "rule" => b.content # TheRule)
  /\ \A b1, b2 \in B : b1.id = b2.id => b1 = b2
  /\ back \in B /\ back.id = id /\ g = back.content /\ A = B \ {back}
ComesBack(p, f, B, L, K, n, back, g, A) ==
  LastRecord(p, L, K, n, B) /\ f # None /\ f = L[n].after /\ CopyOf(p, B, back, L[n].backup, g, A)

\* Undoing the last record of an unchanged file with a copy: what the copy
\* holds is the user's again, or the next record's.
LEMMA CopyComesBack ==
  ASSUME NEW p, NEW f, NEW B, NEW own \in Nat \cup {None}, NEW theirs \in SUBSET Keys, NEW shared \in BOOLEAN,
         NEW half \in BOOLEAN, NEW unrec \in BOOLEAN, NEW L, NEW K, NEW n,
         NEW back, NEW g, NEW A, ComesBack(p, f, B, L, K, n, back, g, A),
         PathOk(p, f, B, own, theirs, shared, L, half, unrec)
  PROVE  PathOk(p, g, A, own, theirs, shared, K, half, unrec)
<1>k. /\ f # None /\ f = L[n].after
      /\ \A b \in B : b.id \in Nat /\ IsFile(b.content) /\ (p = "rule" => b.content # TheRule)
      /\ \A b1, b2 \in B : b1.id = b2.id => b1 = b2
      /\ back \in B /\ back.id = L[n].backup /\ g = back.content /\ A = B \ {back}
  BY DEF ComesBack, CopyOf
<1> USE <1>k
<1>l. /\ OnPath(L, p) \subseteq Int /\ Latest(OnPath(L, p), n) /\ OnPath(K, p) = OnPath(L, p) \ {n}
      /\ \A i \in OnPath(K, p) : K[i] = L[i]
      /\ RecordOf(p, L[n], B)
  BY DEF ComesBack, LastRecord
<1> USE <1>l
<1> DEFINE I == OnPath(L, p)
           c == L[n]
<1>0. n \in I /\ (\A i \in I : i \in Int /\ i <= n) /\ OnPath(K, p) = I \ {n} /\ \A i \in I \ {n} : K[i] = L[i]
  BY DEF Latest
<1>a. p \in Watched /\ p \notin InstallerFiles /\ (p \in Forms \/ p = "rule") /\ ~(p \in Forms /\ p = "rule")
  BY PathKinds DEF RecordOf, Watched
<1>b. p \in Forms => /\ f.text = g.text /\ HasOurs(f) /\ f.plain
                     /\ \A k \in Keys : f.at[k] = "theirs" => g.at[k] = "theirs"
  BY DEF RecordOf
<1>c. p = "rule" => f = TheRule /\ g # TheRule
  BY DEF RecordOf
<1>d. g # None /\ c.backup # None /\ \A b \in A : b.id # c.backup
  BY FileThere, NoneIsNoNumber
<1>1. TextKept(p, g, A, own)
  <2>1. TextKept(p, f, B, own)
    BY DEF PathOk
  <2>2. ASSUME own # None, p \in Forms
        PROVE  /\ g.text = own
               /\ Holds(g, own) \/ \E b \in A : Holds(b.content, own)
    <3>1. f.text = own /\ (Holds(f, own) \/ \E b \in B : Holds(b.content, own))
      BY <2>1, <2>2 DEF TextKept
    <3>2. Holds(f, own) => Holds(g, own)
      BY <1>b, <2>2 DEF Holds
    <3> QED BY <3>1, <3>2, <1>b, <2>2
  <2>3. ASSUME own # None, p = "rule"
        PROVE  g.text = own \/ \E b \in A : b.content.text = own
    BY <2>1, <2>3, <1>c DEF TextKept
  <2> QED BY <2>2, <2>3, <1>a, <1>c, <1>d DEF TextKept
<1>2. ASSUME ~half  PROVE TheirsKept(p, g, A, theirs, K) /\ Recorded(p, A, K)
  <2>0. TheirsKept(p, f, B, theirs, L) /\ Recorded(p, B, L)
    BY <1>2 DEF PathOk
  <2>1. Recorded(p, A, K)
    <3>1. ASSUME NEW i \in I \ {n}, K[i].backup # None PROVE \E b \in A : b.id = K[i].backup
      <4>1. PICK b \in B : b.id = L[i].backup
        BY <3>1, <2>0, <1>0 DEF Recorded
      <4>2. L[i].backup # c.backup
        BY <3>1, <2>0, <1>0, <1>d DEF Recorded
      <4> QED BY <4>1, <4>2, <1>0
    <3>2. \A i, j \in I \ {n} : (i # j /\ K[i].backup = K[j].backup) => K[i].backup = None
      BY <2>0, <1>0 DEF Recorded
    <3> QED BY <3>1, <3>2, <1>0 DEF Recorded
  <2> SUFFICES ASSUME p # "config.toml", NEW k \in theirs
               PROVE  /\ (g # None /\ g.at[k] = "theirs") \/ \E b \in A : b.content.at[k] = "theirs"
                      /\ \A j \in I \ {n} : k \in K[j].json =>
                           \E b \in A : b.content.at[k] = "theirs" /\ \A i \in I \ {n} : i > j => K[i].backup # b.id
    BY <2>1, <1>0 DEF TheirsKept
  <2>2. /\ (f # None /\ f.at[k] = "theirs") \/ \E b \in B : b.content.at[k] = "theirs"
        /\ \A j \in I : k \in L[j].json =>
             \E b \in B : b.content.at[k] = "theirs" /\ \A i \in I : i > j => L[i].backup # b.id
    BY <2>0 DEF TheirsKept
  <2>3. (g # None /\ g.at[k] = "theirs") \/ \E b \in A : b.content.at[k] = "theirs"
    BY <2>2, <1>a, <1>b, <1>c, <1>d, RuleFacts
  <2>4. ASSUME NEW j \in I \ {n}, k \in K[j].json
        PROVE  \E b \in A : b.content.at[k] = "theirs" /\ \A i \in I \ {n} : i > j => K[i].backup # b.id
    <3>1. PICK b \in B : b.content.at[k] = "theirs" /\ \A i \in I : i > j => L[i].backup # b.id
      BY <2>2, <2>4, <1>0
    <3>2. b \in A
      BY <3>1, <1>0, <2>4
    <3> QED BY <3>1, <3>2, <1>0
  <2> QED BY <2>3, <2>4
<1>3. ASSUME NEW S \in SUBSET I, n \in S, Accounted(f, B, L, S)  PROVE Accounted(g, A, K, S \ {n})
  <2>1. Covered(g, L, {i \in S : i < n})
    BY <1>3 DEF Accounted
  <2>2. {i \in S : i < n} = S \ {n}
    BY <1>0
  <2>3. Covered(g, K, S \ {n})
    BY <2>1, <2>2, <1>0 DEF Covered
  <2> QED BY <2>3, <1>3, <1>0, LastDropped
<1>4. ASSUME ~half, ~unrec, p \in Forms  PROVE FormTracked(g, A, own, shared, K, I \ {n})
  <2>0. FormTracked(f, B, own, shared, L, I) /\ Recorded(p, B, L)
    BY <1>4 DEF PathOk
  <2>1. Accounted(g, A, K, I \ {n})
    BY <2>0, <1>3, <1>0 DEF FormTracked
  <2>2. ASSUME own = None, ~shared PROVE Grown(g, A, K, I \ {n})
    <3>1. PICK m \in I : /\ L[m].backup = None
                         /\ \A i \in I : i >= m =>
                              /\ Latest(I, i) => L[i].after = f
                              /\ \A j \in I : (i < j /\ \A q \in I : q <= i \/ q >= j) =>
                                    \E b \in B : b.id = L[j].backup /\ b.content = L[i].after
      BY <2>0, <2>2 DEF FormTracked, Grown
    <3>2. m \in I \ {n} /\ K[m].backup = None
      BY <3>1, <1>0, <1>d
    <3>3. ASSUME NEW i \in I \ {n}, i >= m, Latest(I \ {n}, i) PROVE K[i].after = g
      <4>1. i < n /\ \A q \in I : q <= i \/ q >= n
        BY <3>3, <1>0 DEF Latest
      <4>2. PICK b \in B : b.id = L[n].backup /\ b.content = L[i].after
        BY <4>1, <3>1, <3>3, <1>0
      <4> QED BY <4>2, <3>3, <1>0
    <3>4. ASSUME NEW i \in I \ {n}, i >= m, NEW j \in I \ {n}, i < j, \A q \in I \ {n} : q <= i \/ q >= j
          PROVE  \E b \in A : b.id = K[j].backup /\ b.content = K[i].after
      <4>1. \A q \in I : q <= i \/ q >= j
        BY <3>4, <1>0
      <4>2. PICK b \in B : b.id = L[j].backup /\ b.content = L[i].after
        BY <4>1, <3>1, <3>4, <1>0
      <4>3. L[j].backup # c.backup
        BY <4>2, <3>4, <2>0, <1>0, <1>d DEF Recorded
      <4> QED BY <4>2, <4>3, <1>0, <3>4
    <3> HIDE DEF I
    <3> DEFINE J == I \ {n}
    <3>5. m \in J /\ K[m].backup = None
      BY <3>2
    <3>6. ASSUME NEW i \in J, i >= m
          PROVE  /\ Latest(J, i) => K[i].after = g
                 /\ \A j \in J : (i < j /\ \A q \in J : q <= i \/ q >= j) => \E b \in A : b.id = K[j].backup /\ b.content = K[i].after
      BY <3>3, <3>4, <3>6
    <3> HIDE DEF J
    <3>7. Grown(g, A, K, J)
      BY ONLY <3>5, <3>6 DEF Grown
    <3> QED BY <3>7 DEF J
  <2>3. ASSUME own = 0 PROVE Younger(g, A, K, I \ {n})
    <3>1. PICK S \in SUBSET I : /\ \A i \in S : L[i].backup # None /\ \A j \in I : j > i => j \in S
                                /\ Accounted(f, B, L, S)
      BY <2>0, <2>3 DEF FormTracked, Younger
    <3>5. PICK i \in S : TRUE
      BY <3>1, <1>b, <1>4 DEF Accounted, Covered, HasOurs
    <3>6. n \in S
      BY <3>1, <3>5, <1>0
    <3>2. Accounted(g, A, K, S \ {n})
      BY <3>1, <3>6, <1>3
    <3>3. \A q \in S \ {n} : K[q].backup # None /\ \A j \in I \ {n} : j > q => j \in S \ {n}
      BY <3>1, <1>0
    <3>4. S \ {n} \in SUBSET (I \ {n})
      OBVIOUS
    <3> HIDE DEF I
    <3> QED BY <3>2, <3>3, <3>4 DEF Younger
  <2> HIDE DEF I
  <2> QED BY <2>0, <2>1, <2>2, <2>3, <1>d DEF FormTracked
<1>5. ASSUME ~half, ~unrec, p = "rule"  PROVE RuleTracked(g, A, own, shared, K, I \ {n})
  <2>1. RuleTracked(f, B, own, shared, L, I) /\ f = TheRule /\ g # TheRule
    BY <1>5, <1>c DEF PathOk
  <2>2. ASSUME ~shared, own # None PROVE g.text = own
    <3>1. PICK i \in I : Latest(I, i) /\ \E b \in B : b.id = L[i].backup /\ b.content.text = own
      BY <2>1, <2>2 DEF RuleTracked
    <3>2. i = n
      BY <3>1, <1>0 DEF Latest
    <3> QED BY <3>1, <3>2
  <2>3. ASSUME ~shared, own = None PROVE FALSE
    <3>1. PICK i \in I : Latest(I, i) /\ L[i].backup = None
      BY <2>1, <2>3 DEF RuleTracked
    <3>2. i = n
      BY <3>1, <1>0 DEF Latest
    <3> QED BY <3>1, <3>2, <1>d
  <2> HIDE DEF I
  <2> QED BY <2>1, <2>2, <2>3, <1>d DEF RuleTracked
<1> HIDE DEF I
<1> QED BY <1>0, <1>1, <1>2, <1>4, <1>5 DEF PathOk, I

\* Its copy is gone: an undo that was killed had put it back.
LEMMA CopyIsGone ==
  ASSUME NEW p, NEW f, NEW B, NEW own, NEW theirs, NEW shared \in BOOLEAN,
         NEW half \in BOOLEAN, NEW unrec \in BOOLEAN, NEW L, NEW K, NEW n \in OnPath(L, p),
         L[n].backup # None, \A b \in B : b.id # L[n].backup,
         PathOk(p, f, B, own, theirs, shared, L, half, unrec)
  PROVE  PathOk(p, f, B, own, theirs, shared, K, half, unrec)
<1>1. half
  BY DEF PathOk, Recorded
<1> QED BY <1>1 DEF PathOk

\* Copies are added.
LEMMA MoreCopies ==
  ASSUME NEW p, NEW f, NEW g, NEW B, NEW A, B \subseteq A, NEW theirs, NEW L,
         Recorded(p, B, L), TheirsKept(p, f, B, theirs, L),
         \A n \in theirs : (f # None /\ f.at[n] = "theirs" /\ p # "config.toml") =>
                              (g # None /\ g.at[n] = "theirs") \/ \E b \in A : b.content.at[n] = "theirs"
  PROVE  Recorded(p, A, L) /\ TheirsKept(p, g, A, theirs, L)
<1>1. Recorded(p, A, L)
  BY DEF Recorded
<1> SUFFICES ASSUME p # "config.toml", NEW k \in theirs
             PROVE  /\ (g # None /\ g.at[k] = "theirs") \/ \E b \in A : b.content.at[k] = "theirs"
                    /\ \A j \in OnPath(L, p) : k \in L[j].json =>
                         \E b \in A : b.content.at[k] = "theirs" /\ \A i \in OnPath(L, p) : i > j => L[i].backup # b.id
  BY <1>1 DEF TheirsKept
<1>2. /\ (f # None /\ f.at[k] = "theirs") \/ \E b \in B : b.content.at[k] = "theirs"
      /\ \A j \in OnPath(L, p) : k \in L[j].json =>
           \E b \in B : b.content.at[k] = "theirs" /\ \A i \in OnPath(L, p) : i > j => L[i].backup # b.id
  BY DEF TheirsKept
<1> QED BY <1>2

\* Its entries are fewer, its markers too, but not those of the entries it has.
Fewer(f, g) ==
  /\ g # None /\ (g.plain => f.plain)
  /\ \A k \in Names : g.at[k] \in Ours => (f.at[k] \in Ours /\ (k \in f.marks => k \in g.marks))

\* Taking entries out of a file leaves none without its record.
LEMMA FewerAccounted ==
  ASSUME NEW p, NEW f, NEW g, NEW B, NEW A, NEW L, NEW S \in SUBSET OnPath(L, p), f # None, Fewer(f, g), Accounted(f, B, L, S),
         \A b \in A : b \in B \/ \A i \in OnPath(L, p) : L[i].backup # b.id
  PROVE  Accounted(g, A, L, S)
<1>1. Covered(g, L, S)
  BY DEF Accounted, Covered, Fewer
<1>2. ASSUME NEW j \in S, NEW b \in A, b.id = L[j].backup  PROVE Covered(b.content, L, {i \in S : i < j})
  BY <1>2 DEF Accounted
<1> QED BY <1>1, <1>2 DEF Accounted

\* install-delegation puts its own entry into a file of a format, or takes out
\* what stood under that name.
PathBefore(p, f, B, own, theirs, shared, L, half, unrec) ==
  /\ PathOk(p, f, B, own, theirs, shared, L, half, unrec)
  /\ p \in Paths \ Settled /\ theirs \in SUBSET Keys /\ shared \in BOOLEAN /\ half \in BOOLEAN /\ unrec \in BOOLEAN
  /\ own \in Nat \cup {None}

\* An edit of a form by install-delegation, in the terms of one path.
ToolsEdit(p, f, g, B, A, own, theirs, shared, L, own2, shared2) ==
  /\ p \in Forms /\ g # None /\ shared2 \in BOOLEAN
  /\ B \subseteq A /\ \A b \in A : b \in B \/ \A i \in OnPath(L, p) : L[i].backup # b.id
  /\ f # None => Fewer(f, g) /\ g.text = f.text
  /\ f = None => ~HasOurs(g) /\ g.text = 0
  /\ own2 = (IF own = None /\ f # None THEN own ELSE g.text)
  /\ shared2 <=> ((own = None /\ f # None) \/ (shared /\ own2 = None))
  /\ \A k \in theirs : (f # None /\ f.at[k] = "theirs" /\ p # "config.toml") =>
            (g # None /\ g.at[k] = "theirs") \/ \E b \in A : b.content.at[k] = "theirs"

\* install-delegation keeps what holds of a form: its owner's text stays,
\* an unclaimed file of configure becomes a shared one.
LEMMA OthersEdit ==
  ASSUME NEW p, NEW f, NEW g, NEW B, NEW A, NEW own, NEW theirs, NEW shared, NEW half, NEW unrec, NEW L, NEW own2, NEW shared2,
         ToolsEdit(p, f, g, B, A, own, theirs, shared, L, own2, shared2),
         PathBefore(p, f, B, own, theirs, shared, L, half, unrec)
  PROVE  PathOk(p, g, A, own2, theirs, shared2, L, half, unrec)
<1> USE DEF PathBefore, ToolsEdit
<1> DEFINE I == OnPath(L, p)
<1>a. p # "rule" /\ p \notin InstallerFiles /\ None \notin Nat
  BY PathKinds, NoneIsNoNumber
<1>b. own # None /\ f # None => own2 = own /\ g.text = own
  BY <1>a DEF PathOk, TextKept
<1>c. f # None /\ HasOurs(g) => HasOurs(f)
  BY DEF Fewer, HasOurs
<1>1. TextKept(p, g, A, own2)
  <2>1. CASE f = None
    BY <2>1, <1>a DEF TextKept, Holds
  <2>2. CASE f # None /\ own # None
    <3>1. Holds(f, own) \/ \E b \in B : Holds(b.content, own)
      BY <2>2, <1>a DEF PathOk, TextKept
    <3>2. Holds(f, own) => Holds(g, own)
      BY <2>2, <1>b, <1>c DEF Holds
    <3> QED BY <3>1, <3>2, <2>2, <1>a, <1>b DEF TextKept
  <2>3. CASE f # None /\ own = None
    BY <2>3 DEF TextKept
  <2> QED BY <2>1, <2>2, <2>3
<1>2. ASSUME ~half  PROVE TheirsKept(p, g, A, theirs, L) /\ Recorded(p, A, L)
  <2>1. TheirsKept(p, f, B, theirs, L) /\ Recorded(p, B, L)
    BY <1>2 DEF PathOk
  <2>2. /\ B \subseteq A
        /\ \A k \in theirs : (f # None /\ f.at[k] = "theirs" /\ p # "config.toml") =>
              (g # None /\ g.at[k] = "theirs") \/ \E b \in A : b.content.at[k] = "theirs"
    OBVIOUS
  <2> QED BY ONLY <2>1, <2>2, MoreCopies
<1>3. ASSUME ~half, ~unrec  PROVE FormTracked(g, A, own2, shared2, L, I)
  <2>0. FormTracked(f, B, own, shared, L, I)
    BY <1>3 DEF PathOk
  <2>1. ASSUME NEW S \in SUBSET I, Accounted(f, B, L, S)  PROVE Accounted(g, A, L, S)
    <3>1. CASE f # None
      BY <3>1, <2>1, FewerAccounted
    <3>2. CASE f = None
      <4>1. Covered(g, L, S)
        BY <3>2 DEF Covered, HasOurs
      <4>2. ASSUME NEW j \in S, NEW b \in A, b.id = L[j].backup  PROVE Covered(b.content, L, {i \in S : i < j})
        BY <4>2, <2>1 DEF Accounted
      <4> QED BY <4>1, <4>2 DEF Accounted
    <3> QED BY <3>1, <3>2
  <2>2. Accounted(g, A, L, I)
    BY <2>0, <2>1 DEF FormTracked
  <2>3. ~(own2 = None /\ ~shared2)
    BY <1>a, <1>b, <1>3 DEF PathOk
  <2>4. ASSUME own2 = 0  PROVE Younger(g, A, L, I)
    <3>1. CASE f = None
      <4>1. Accounted(g, A, L, {})
        BY <3>1 DEF Accounted, Covered, HasOurs
      <4> QED BY <4>1 DEF Younger
    <3>2. CASE f # None
      <4>1. own = 0
        BY <3>2, <2>4, <1>a, <1>b
      <4> QED BY <4>1, <2>0, <2>1 DEF FormTracked, Younger
    <3> QED BY <3>1, <3>2
  <2> HIDE DEF I
  <2> QED BY <2>2, <2>3, <2>4 DEF FormTracked
<1>4. shared2 => own2 = None
  BY <1>a
<1> QED BY <1>1, <1>2, <1>3, <1>4, <1>a DEF PathOk

\* The router's rule is put in place of whatever the file was.
RuleEdit(f, B, A) == B \subseteq A /\ (f # None => \E b \in A : b.content = f) /\ f # TheRule

\* install-delegation keeps what holds of the rule: it copies the user's
\* file aside, and is one of its installers from there on.
LEMMA OthersRule ==
  ASSUME NEW f, NEW B, NEW A, NEW own, NEW theirs, NEW shared, NEW half, NEW unrec, NEW L,
         RuleEdit(f, B, A), PathBefore("rule", f, B, own, theirs, shared, L, half, unrec)
  PROVE  PathOk("rule", TheRule, A, own, theirs, TRUE, L, half, unrec)
<1> USE DEF PathBefore, RuleEdit
<1>1. TextKept("rule", TheRule, A, own)
  BY PathKinds DEF PathOk, TextKept
<1>2. ASSUME ~half  PROVE TheirsKept("rule", TheRule, A, theirs, L) /\ Recorded("rule", A, L)
  <2>1. TheirsKept("rule", f, B, theirs, L) /\ Recorded("rule", B, L)
    BY <1>2 DEF PathOk
  <2> QED BY <2>1, MoreCopies
<1>3. RuleTracked(TheRule, A, own, TRUE, L, OnPath(L, "rule"))
  BY DEF RuleTracked
<1> QED BY <1>1, <1>2, <1>3, PathKinds DEF PathOk

\* A generated file is written again.
LEMMA ConfigWritten ==
  ASSUME NEW p \in InstallerFiles, NEW f, NEW g, NEW B, NEW A, NEW own, NEW theirs \in SUBSET Keys,
         NEW shared \in BOOLEAN, NEW half \in BOOLEAN, NEW unrec \in BOOLEAN, NEW L,
         B \subseteq A, f # None => \E b \in A : b.content = f,
         PathOk(p, f, B, own, theirs, shared, L, half, unrec)
  PROVE  PathOk(p, g, A, own, theirs, shared, L, half, unrec)
<1>a. p \notin Forms /\ p # "rule"
  BY PathKinds DEF Watched
<1>1. TextKept(p, g, A, own)
  BY <1>a DEF PathOk, TextKept
<1>2. ASSUME ~half  PROVE TheirsKept(p, g, A, theirs, L) /\ Recorded(p, A, L)
  <2>1. TheirsKept(p, f, B, theirs, L) /\ Recorded(p, B, L)
    BY <1>2 DEF PathOk
  <2> QED BY <2>1, MoreCopies
<1> QED BY <1>1, <1>2, <1>a DEF PathOk

\* An edit by the user, in the terms of one path.
UsersEdit(f, g, text) ==
  /\ text \in Nat /\ text # 0 /\ f # None /\ Fewer(f, g) /\ g.text = text /\ g # TheRule
  /\ \A k \in Keys : f.at[k] = "theirs" => g.at[k] = "theirs"

\* An edit by the user makes a file theirs.
LEMMA EditedByUser ==
  ASSUME NEW p, NEW f, NEW g, NEW B, NEW own, NEW theirs, NEW shared, NEW half, NEW unrec, NEW L, NEW text,
         UsersEdit(f, g, text), PathBefore(p, f, B, own, theirs, shared, L, half, unrec)
  PROVE  PathOk(p, g, B, text, theirs, FALSE, L, half, unrec)
<1> USE DEF UsersEdit, PathBefore
<1>a. g # None /\ text # None
  BY NoneIsNoNumber DEF Fewer
<1>1. TextKept(p, g, B, text)
  BY <1>a DEF TextKept, Holds
<1>2. ASSUME ~half  PROVE TheirsKept(p, g, B, theirs, L) /\ Recorded(p, B, L)
  <2>1. TheirsKept(p, f, B, theirs, L) /\ Recorded(p, B, L)
    BY <1>2 DEF PathOk
  <2> QED BY <2>1, <1>a, MoreCopies
<1>3. ASSUME ~half, ~unrec, p \in Forms  PROVE FormTracked(g, B, text, FALSE, L, OnPath(L, p))
  <2>1. Accounted(f, B, L, OnPath(L, p))
    BY <1>3 DEF PathOk, FormTracked
  <2>2. Accounted(g, B, L, OnPath(L, p))
    BY <2>1, FewerAccounted
  <2> QED BY <2>2, <1>a DEF FormTracked
<1>4. RuleTracked(g, B, text, FALSE, L, OnPath(L, p))
  BY <1>a DEF RuleTracked
<1> QED BY <1>1, <1>2, <1>3, <1>4 DEF PathOk

\* A file its user deletes has nobody's text to keep.
LEMMA DeletedByUser ==
  ASSUME NEW p, NEW f, NEW B, NEW own, NEW theirs, NEW shared, NEW half, NEW unrec, NEW L,
         PathBefore(p, f, B, own, theirs, shared, L, half, unrec)
  PROVE  PathOk(p, None, B, None, {}, FALSE, L, half, unrec)
<1> USE DEF PathBefore
<1>1. TextKept(p, None, B, None) /\ TheirsKept(p, None, B, {}, L)
  BY DEF TextKept, TheirsKept
<1>2. ASSUME ~half  PROVE Recorded(p, B, L)
  BY <1>2 DEF PathOk
<1>3. ASSUME ~half, ~unrec, p \in Forms  PROVE FormTracked(None, B, None, FALSE, L, OnPath(L, p))
  <2>1. Accounted(f, B, L, OnPath(L, p))
    BY <1>3 DEF PathOk, FormTracked
  <2>2. Accounted(None, B, L, OnPath(L, p))
    BY <2>1 DEF Accounted, Covered
  <2> QED BY <2>2, NoneIsNoNumber DEF FormTracked
<1>4. RuleTracked(None, B, None, FALSE, L, OnPath(L, p))
  BY DEF RuleTracked
<1> QED BY <1>1, <1>2, <1>3, <1>4 DEF PathOk

----------------------------------------------------------------------------
(* What the programs write                                                   *)

\* The empty file.
LEMMA BlankIsFile == IsFile(Blank) /\ Blank.plain /\ Blank.text = 0 /\ Blank.marks = {} /\ (\A k \in Keys : Blank.at[k] = "none") /\ \A p : Formed(p, Blank)
<1>1. IsFile(Blank)
  BY HomesFound DEF IsFile, FilesSaying, Blank, Keys
<1>2. Blank.plain /\ Blank.text = 0 /\ Blank.marks = {} /\ (\A k \in Keys : Blank.at[k] = "none")
  BY DEF Blank
<1> QED BY <1>1, <1>2 DEF Formed, HasOurs, Names, Ours

\* One name gets another entry, and markers.
Put(f, k, v, m, g) ==
  /\ IsFile(g) /\ g.text = f.text /\ g.plain = f.plain /\ g.marks = f.marks \cup m /\ g.at[k] = v
  /\ \A q \in Keys \ {k} : g.at[q] = f.at[q]

\* One entry put into a file.
LEMMA EntryPut ==
  ASSUME NEW f, IsFile(f), NEW k \in Keys, NEW v \in {"none", "theirs", "other"} \cup Ours, NEW m \in SUBSET Keys
  PROVE  /\ Put(f, k, v, {}, [f EXCEPT !.at[k] = v])
         /\ Put(f, k, v, m, [[f EXCEPT !.marks = @ \cup m] EXCEPT !.at[k] = v])
<1> DEFINE F == FilesSaying(f.says)
           g == [f EXCEPT !.at[k] = v]
           e == [[f EXCEPT !.marks = @ \cup m] EXCEPT !.at[k] = v]
<1>1. f \in F /\ None \notin F
  BY DEF IsFile
<1>2. g \in F /\ e \in F /\ g.says = f.says /\ e.says = f.says
  BY <1>1 DEF FilesSaying, Keys, Ours
<1>3. /\ g.text = f.text /\ g.plain = f.plain /\ g.marks = f.marks \cup {} /\ g.at[k] = v
      /\ \A q \in Keys \ {k} : g.at[q] = f.at[q]
  BY <1>1 DEF FilesSaying
<1>4. /\ e.text = f.text /\ e.plain = f.plain /\ e.marks = f.marks \cup m /\ e.at[k] = v
      /\ \A q \in Keys \ {k} : e.at[q] = f.at[q]
  BY <1>1 DEF FilesSaying
<1> QED BY <1>1, <1>2, <1>3, <1>4 DEF IsFile, Put

\* What a file is to a program that reads it.
Read(f) == IF f = None THEN Blank ELSE f

\* An entry configure puts into a form: what the record says of it.
LEMMA PutOfConfigure ==
  ASSUME NEW p \in Forms, NEW f, NEW k \in Names, NEW v \in Ours, NEW m, NEW g, Put(Read(f), k, v, m, g), Formed(p, g),
         Read(f).plain, NEW json \in SUBSET {k}, k \in json \/ k \in m
  PROVE  PutIn(p, f, g, k, json)
<1>1. IsFile(g) /\ g.plain /\ g.at[k] \in Ours /\ (k \in json \/ k \in g.marks)
  BY DEF Put
<1>2. ASSUME f # None
      PROVE  f.plain /\ g.text = f.text /\ f.marks \subseteq g.marks /\ \A q \in Keys \ {k} : g.at[q] = f.at[q]
  BY <1>2 DEF Put, Read
<1>3. ASSUME f = None  PROVE g.text = 0 /\ \A q \in Keys \ {k} : g.at[q] = "none"
  BY <1>3, BlankIsFile DEF Put, Read
<1> QED BY <1>1, <1>2, <1>3 DEF PutIn

\* A form configure writes differs by one entry, recorded or marked.
LEMMA AttemptPuts ==
  ASSUME NEW step, NEW h, GoodStep(step, h), step.how \in {"json", "toml", "yaml"}, NEW a, a.value \in Ours,
         NEW f, f = None \/ (IsFile(f) /\ Formed(step.path, f)), Attempt(Read(f), step, a).out = "written"
  PROVE  PutIn(step.path, f, Attempt(Read(f), step, a).file, step.key, IF step.how = "json" THEN {step.key} ELSE {})
<1> DEFINE base == Read(f)
           p == step.path
           k == step.key
           r == Attempt(base, step, a)
<1>0. IsFile(base) /\ Formed(p, base) /\ k \in Names /\ k \in Keys /\ p \in Forms
  BY BlankIsFile, PathKinds DEF Read, GoodStep, Names, Keys
<1>e. /\ Put(base, k, a.value, {}, [base EXCEPT !.at[k] = a.value])
      /\ Put(base, k, a.value, {k}, [[base EXCEPT !.marks = @ \cup {k}] EXCEPT !.at[k] = a.value])
  <2>1. a.value \in {"none", "theirs", "other"} \cup Ours /\ {k} \in SUBSET Keys /\ k \in Keys /\ IsFile(base)
    BY <1>0
  <2> HIDE DEF base, k
  <2> QED BY <2>1, EntryPut
<1>1. CASE step.how = "json"
  <2>1. r = JsonSet(base, k, a) /\ p \in JsonFiles
    BY <1>1 DEF Attempt, GoodStep
  <2>2. base.plain /\ r.file = [base EXCEPT !.at[k] = a.value]
    BY <2>1 DEF JsonSet, Written, Current, Refused, Manual
  <2>4. Put(base, k, a.value, {}, r.file)
    BY <2>2, <1>e
  <2>3. Formed(p, r.file)
    BY <1>0, <2>1, <2>4, PathKinds DEF Formed, Put, JsonFiles
  <2>5. PutIn(p, f, r.file, k, {k})
    BY <1>0, <2>2, <2>3, <2>4, PutOfConfigure
  <2> QED BY <2>5, <1>1
<1>2. CASE step.how = "toml"
  <2>1. r = TomlAppend(base, k, a) /\ p = "config.toml"
    BY <1>2 DEF Attempt, GoodStep
  <2>2. base.marks = {} /\ base.at[k] = "none" /\ base.plain /\ r.file = [[base EXCEPT !.marks = @ \cup {k}] EXCEPT !.at[k] = a.value]
    BY <2>1 DEF TomlAppend, Marked, Written, Current, Refused
  <2>4. Put(base, k, a.value, {k}, r.file)
    BY <2>2, <1>e
  <2>3. Formed(p, r.file)
    BY <1>0, <2>1, <2>4, PathKinds DEF Formed, Put, JsonFiles
  <2>5. PutIn(p, f, r.file, k, {})
    BY <1>0, <2>2, <2>3, <2>4, PutOfConfigure
  <2> QED BY <2>5, <1>2
<1>3. CASE step.how = "yaml"
  <2>1. r = YamlInsert(base, k, a) /\ p = "hermes.yaml"
    BY <1>3 DEF Attempt, GoodStep
  <2>2. base.at[k] = "none" /\ base.plain /\ r.file = [[base EXCEPT !.marks = @ \cup {k}] EXCEPT !.at[k] = a.value]
    BY <2>1 DEF YamlInsert, Marked, Written, Current, Refused
  <2>4. Put(base, k, a.value, {k}, r.file)
    BY <2>2, <1>e
  <2>3. Formed(p, r.file)
    BY <1>0, <2>1, <2>4, PathKinds DEF Formed, Put, JsonFiles
  <2>5. PutIn(p, f, r.file, k, {})
    BY <1>0, <2>2, <2>3, <2>4, PutOfConfigure
  <2> QED BY <2>5, <1>3
<1> QED BY <1>1, <1>2, <1>3

\* configure writes the rule only over another file.
LEMMA AttemptRule ==
  ASSUME NEW step, step.how = "file", NEW a, NEW f, Attempt(Read(f), step, a).out = "written"
  PROVE  Attempt(Read(f), step, a).file = TheRule /\ f # TheRule
<1>1. Attempt(Read(f), step, a) = CopyRule(Read(f), a)
  BY DEF Attempt
<1>2. Read(f) # TheRule /\ CopyRule(Read(f), a).file = TheRule
  BY <1>1 DEF CopyRule, Written, Current, Refused, TheRule
<1> QED BY <1>1, <1>2, RuleFacts DEF Read

\* What configure writes in other places is a file.
LEMMA AttemptElsewhere ==
  ASSUME NEW step, NEW h, GoodStep(step, h), step.how \in {"skill", "cli", "config"}, NEW a, IsRun(a),
         NEW f, f = None \/ IsFile(f), Attempt(Read(f), step, a).out = "written"
  PROVE  IsFile(Attempt(Read(f), step, a).file)
<1>0. IsFile(Read(f))
  BY BlankIsFile DEF Read
<1>1. CASE step.how = "skill"
  <2>1. Attempt(Read(f), step, a).file = [Blank EXCEPT !.at["skill"] = "v1"]
    BY <1>1 DEF Attempt, CopySkill, Written, Current, Refused
  <2>2. "skill" \in Keys /\ "v1" \in Ours
    BY DEF Keys, Ours
  <2>3. Put(Blank, "skill", "v1", {}, [Blank EXCEPT !.at["skill"] = "v1"])
    BY <2>2, BlankIsFile, EntryPut
  <2> QED BY <2>1, <2>3 DEF Put
<1>2. CASE step.how = "cli"
  <2>1. Attempt(Read(f), step, a).file = [Read(f) EXCEPT !.at[step.key] = a.value]
    BY <1>2 DEF Attempt, CliAdd, Written, Current, Manual
  <2>2. step.key \in Keys /\ a.value \in Ours
    BY <1>2 DEF GoodStep, Keys, IsRun
  <2>3. Put(Read(f), step.key, a.value, {}, [Read(f) EXCEPT !.at[step.key] = a.value])
    BY <1>0, <2>2, EntryPut
  <2> QED BY <2>1, <2>3 DEF Put
<1>3. CASE step.how = "config"
  <2>1. Attempt(Read(f), step, a).file = Rendered(a.config[step.key])
    BY <1>3 DEF Attempt, WriteConfig, Current, Manual
  <2>2. None \notin FilesSaying(a.config[step.key])
    BY <1>3 DEF GoodStep, IsRun
  <2>3. Rendered(a.config[step.key]) \in FilesSaying(a.config[step.key])
    BY DEF Rendered, Blank, FilesSaying, Keys, Ours
  <2>4. Rendered(a.config[step.key]).says = a.config[step.key]
    BY DEF Rendered, Blank
  <2> QED BY <2>1, <2>2, <2>3, <2>4 DEF IsFile
<1> QED BY <1>1, <1>2, <1>3

\* Taking out blocks and entries leaves the user's part as it is.
LEMMA StripLeaves ==
  ASSUME NEW p \in Watched, NEW f, IsFile(f), Formed(p, f), NEW c, c.json \in SUBSET Keys, p \notin JsonFiles => c.json = {}
  PROVE  LET g == RemoveJson(StripBlocks(f), c.json) IN IsFile(g) /\ Formed(p, g) /\ Stripped(p, f, g, c)
<1> DEFINE F == FilesSaying(f.says)
           e == StripBlocks(f)
           g == RemoveJson(e, c.json)
<1>1. f \in F /\ None \notin F
  BY DEF IsFile
<1>2. /\ e \in F /\ e.text = f.text /\ e.plain = f.plain /\ e.marks = f.marks \ Keys /\ e.says = f.says
      /\ \A k \in Keys : e.at[k] = IF k \in f.marks THEN "none" ELSE f.at[k]
  BY <1>1 DEF StripBlocks, FilesSaying
<1>3. /\ g \in F /\ g.text = f.text /\ g.plain = f.plain /\ g.marks = f.marks \ Keys /\ g.says = f.says
      /\ \A k \in Keys : g.at[k] = IF f.plain /\ k \in c.json THEN "none" ELSE e.at[k]
  BY <1>1, <1>2 DEF RemoveJson, FilesSaying
<1> HIDE DEF e, g
<1>4. IsFile(g) /\ g # None
  BY <1>1, <1>3 DEF IsFile
<1>5. \A k \in Keys : g.at[k] = f.at[k] \/ g.at[k] = "none"
  BY <1>2, <1>3
<1>6. ASSUME p \in {"config.toml", "hermes.yaml"}, NEW k \in Keys  PROVE g.at[k] \notin Ours
  <2>1. f.at[k] \in Ours => k \in f.marks
    BY <1>6 DEF Formed
  <2> QED BY <2>1, <1>2, <1>3 DEF Ours
<1>7. ASSUME p # "config.toml", NEW k \in Keys \ c.json, f.at[k] = "theirs"  PROVE g.at[k] = "theirs"
  <2>1. k \notin f.marks
    BY <1>7, PathKinds DEF Formed, Watched, Ours
  <2> QED BY <2>1, <1>2, <1>3, <1>7
<1>8. Formed(p, g)
  <2>1. g.marks \cap Keys = {}
    BY <1>3
  <2>2. HasOurs(g) => HasOurs(f)
    BY <1>5, PathKinds DEF HasOurs, Ours
  <2>3. Formed(p, f)
    OBVIOUS
  <2> QED BY <2>1, <2>2, <2>3, <1>6 DEF Formed
<1>9. ASSUME p = "rule"  PROVE g = f
  <2>1. f.marks \cap Keys = {} /\ c.json = {}
    BY <1>9, PathKinds DEF Formed
  <2>2. g.marks = f.marks /\ \A k \in Keys : g.at[k] = f.at[k]
    BY <2>1, <1>2, <1>3
  <2>3. g.at = [k \in Keys |-> g.at[k]] /\ f.at = [k \in Keys |-> f.at[k]]
    BY <1>1, <1>3 DEF FilesSaying
  <2>4. g.at = f.at
    BY <2>2, <2>3
  <2>5. /\ f = [text |-> f.text, plain |-> f.plain, at |-> f.at, marks |-> f.marks, says |-> f.says]
        /\ g = [text |-> g.text, plain |-> g.plain, at |-> g.at, marks |-> g.marks, says |-> g.says]
    BY <1>1, <1>3 DEF FilesSaying
  <2> QED BY <2>2, <2>4, <2>5, <1>3
<1> QED BY <1>3, <1>4, <1>5, <1>6, <1>7, <1>8, <1>9 DEF Stripped, g, e

\* What a user's edit leaves of the entries.
LEMMA UserLeaves ==
  ASSUME NEW p \in Paths, NEW f, IsFile(f), Formed(p, f), NEW text \in Nat, NEW comment \in BOOLEAN,
         NEW gone, \/ gone = {}
                   \/ \E k \in {q \in Keys : f.at[q] \in Ours} \cup (f.marks \cap {"generated"}) : gone = {k}
  PROVE  LET g == Touched(f, text, comment, gone)
         IN IsFile(g) /\ Formed(p, g) /\ Fewer(f, g) /\ g.text = text /\ \A k \in Keys : f.at[k] = "theirs" => g.at[k] = "theirs"
<1> DEFINE F == FilesSaying(f.says)
           g == Touched(f, text, comment, gone)
<1>1. f \in F /\ None \notin F
  BY DEF IsFile
<1>2. /\ g \in F /\ g.text = text /\ g.plain = (f.plain /\ ~comment) /\ g.marks = f.marks \ gone /\ g.says = f.says
      /\ \A k \in Keys : g.at[k] = IF k \in gone THEN "none" ELSE f.at[k]
  BY <1>1 DEF FilesSaying, Touched
<1> HIDE DEF g
<1>3. \A k \in Keys : k \in gone => f.at[k] \in Ours
  BY DEF Keys
<1>4. IsFile(g) /\ g # None
  BY <1>1, <1>2 DEF IsFile
<1>5. Fewer(f, g)
  BY <1>2, <1>4, PathKinds DEF Fewer, Ours
<1>6. \A k \in Keys : f.at[k] = "theirs" => g.at[k] = "theirs"
  BY <1>2, <1>3 DEF Ours
<1>7. Formed(p, g)
  <2>1. HasOurs(g) => HasOurs(f)
    BY <1>5 DEF Fewer, HasOurs
  <2>2. \A k \in Keys : (g.at[k] \in Ours => (f.at[k] \in Ours /\ k \notin gone)) /\ (k \in g.marks => k \in f.marks /\ k \notin gone)
    BY <1>2 DEF Ours
  <2>3. Formed(p, f)
    OBVIOUS
  <2>4. p \in JsonFiles \cup {"rule"} => g.marks \cap Keys = {}
    BY <2>2, <2>3 DEF Formed
  <2>5. p = "hermes.yaml" => \A n \in g.marks \cap Keys : g.at[n] \in Ours
    BY <2>2, <2>3, <1>2 DEF Formed
  <2>6. p \in {"config.toml", "hermes.yaml"} => \A n \in Keys : g.at[n] \in Ours => n \in g.marks
    BY <2>2, <2>3, <1>2 DEF Formed
  <2> QED BY <2>1, <2>3, <2>4, <2>5, <2>6 DEF Formed
<1> QED BY <1>2, <1>4, <1>5, <1>6, <1>7 DEF g

\* What install-delegation does to a form: one entry, and not configure's.
LEMMA ToolPuts ==
  ASSUME NEW step, GoodTool(step), step.path \in Forms, NEW a, NEW f, f = None \/ (IsFile(f) /\ Formed(step.path, f)),
         ToolAttempt(Read(f), step, a).out = "written"
  PROVE  LET g == ToolAttempt(Read(f), step, a).file
         IN /\ step.key = "delegate" /\ g.at["delegate"] = "other" /\ \A k \in Keys \ {"delegate"} : g.at[k] = Read(f).at[k]
            /\ IsFile(g) /\ Formed(step.path, g) /\ g.text = Read(f).text
            /\ f # None => Fewer(f, g)
            /\ f = None => ~HasOurs(g)
            /\ step.how = "yaml" => Read(f).at["delegate"] = "none"
<1> DEFINE base == Read(f)
           p == step.path
           g == ToolAttempt(base, step, a).file
<1>0. IsFile(base) /\ Formed(p, base) /\ step.how \in {"json", "yaml", "cli"} /\ step.key = "delegate"
  BY BlankIsFile, PathKinds DEF Read, GoodTool, Forms, JsonFiles, Skills
<1>p. Put(base, "delegate", "other", {}, [base EXCEPT !.at["delegate"] = "other"])
  <2>1. "delegate" \in Keys /\ "other" \in {"none", "theirs", "other"} \cup Ours /\ {} \in SUBSET Keys
    BY DEF Keys
  <2> HIDE DEF base
  <2> QED BY <2>1, <1>0, EntryPut
<1>1. /\ g = [base EXCEPT !.at["delegate"] = "other"]
      /\ step.how \in {"json", "yaml"} => base.plain
      /\ step.how = "yaml" => base.at["delegate"] = "none"
  <2> DEFINE new == [base EXCEPT !.at["delegate"] = "other"]
  <2>0. new.at["delegate"] = "other"
    BY <1>p DEF Put
  <2>1. ToolAttempt(base, step, a) =
          CASE base = new /\ step.how # "cli" -> Current(base)
            [] step.how \in {"json", "yaml"} /\ ~base.plain -> Refused(base)
            [] (base # new \/ step.how = "cli") /\ ~(base.at["delegate"] = "none") /\ (~a.force \/ step.how = "yaml") -> Refused(base)
            [] OTHER -> [out |-> "written", file |-> new]
    BY <1>0 DEF ToolAttempt
  <2>2. ToolAttempt(base, step, a).out = "written"
    OBVIOUS
  <2> HIDE DEF new, base
  <2> QED BY <1>0, <2>1, <2>2 DEF Current, Refused, new
<1>2. Put(base, "delegate", "other", {}, g)
  BY <1>1, <1>p
<1> HIDE DEF g
<1>3. Formed(p, g)
  <2>1. "delegate" \in Keys /\ "delegate" \in Names /\ "other" \notin Ours
    BY DEF Keys, Names, Ours
  <2>2. HasOurs(g) => HasOurs(base)
    BY <1>2, <2>1, PathKinds DEF HasOurs, Put
  <2>3. p = "hermes.yaml" => "delegate" \notin base.marks
    <3> SUFFICES ASSUME p = "hermes.yaml" PROVE "delegate" \notin base.marks
      OBVIOUS
    <3>1. step.how = "yaml"
      BY DEF GoodTool, JsonFiles, Skills, Registry
    <3>2. base.at["delegate"] = "none"
      BY <3>1, <1>1
    <3>3. \A n \in base.marks \cap Keys : base.at[n] \in Ours
      BY <1>0 DEF Formed
    <3> HIDE DEF base
    <3> QED BY <3>2, <3>3, <2>1 DEF Ours
  <2>4. g.marks = base.marks /\ \A k \in Keys \ {"delegate"} : g.at[k] = base.at[k]
    BY <1>2 DEF Put
  <2> HIDE DEF base
  <2>5. p = "hermes.yaml" => \A n \in g.marks \cap Keys : g.at[n] \in Ours
    BY <1>0, <2>3, <2>4 DEF Formed
  <2>6. p \in {"config.toml", "hermes.yaml"} => \A n \in Keys : g.at[n] \in Ours => n \in g.marks
    BY <1>0, <2>1, <2>4, <1>2 DEF Formed, Put
  <2>7. p # "rule"
    BY PathKinds
  <2>8. p \in JsonFiles => g.marks \cap Keys = {}
    BY <1>0, <2>4 DEF Formed
  <2> QED BY <2>5, <2>6, <2>7, <2>8 DEF Formed
<1>4. ASSUME f # None  PROVE Fewer(f, g)
  <2>1. base = f
    BY <1>4 DEF Read
  <2> QED BY <2>1, <1>2, FileThere, PathKinds DEF Put, Fewer, Ours
<1>5. ASSUME f = None  PROVE ~HasOurs(g)
  <2>1. \A k \in Keys : base.at[k] = "none"
    BY <1>5, BlankIsFile DEF Read
  <2> QED BY <2>1, <1>2, PathKinds DEF Put, HasOurs, Ours
<1> QED BY <1>0, <1>1, <1>2, <1>3, <1>4, <1>5 DEF Put, g

----------------------------------------------------------------------------
(* Lists                                                                     *)

LEMMA ListIs ==
  ASSUME NEW q, IsList(q)
  PROVE  Len(q) \in Nat /\ DOMAIN q = 1..Len(q) /\ q = [i \in 1..Len(q) |-> q[i]]
BY DEF IsList

\* Lists: one more at the end, one less or more at the head, one replaced.
LEMMA ListAppend ==
  ASSUME NEW q, IsList(q), NEW e
  PROVE  LET t == Append(q, e)
         IN /\ IsList(t) /\ Len(t) = Len(q) + 1 /\ DOMAIN t = 1..(Len(q) + 1) /\ t[Len(q) + 1] = e
            /\ \A i \in 1..Len(q) : t[i] = q[i]
<1> DEFINE t == Append(q, e)
           S == Elements(q) \cup {e}
<1>1. q \in Seq(S)
  BY DEF IsList
<1>2. t \in Seq(S) /\ Len(t) = Len(q) + 1 /\ DOMAIN t = 1..(Len(q) + 1) /\ t[Len(q) + 1] = e
      /\ \A i \in 1..Len(q) : t[i] = q[i]
  BY <1>1
<1>3. t \in Seq(Elements(t))
  <2>1. \A i \in 1..Len(t) : t[i] \in Elements(t)
    BY <1>2 DEF Elements
  <2> QED BY <1>2, <2>1
<1> QED BY <1>2, <1>3 DEF IsList

LEMMA ListOf ==
  ASSUME NEW n \in Nat, NEW t, t = [i \in 1..n |-> t[i]]
  PROVE  IsList(t) /\ Len(t) = n /\ DOMAIN t = 1..n
<1>1. t \in [1..n -> Elements(t)] /\ DOMAIN t = 1..n
  BY DEF Elements
<1>2. t \in Seq(Elements(t))
  BY <1>1
<1> QED BY <1>1, <1>2 DEF IsList

LEMMA ListEmpty == ASSUME NEW q, IsList(q) PROVE /\ (q = <<>> <=> Len(q) = 0) /\ (q # <<>> => Len(q) \in Nat \ {0} /\ 1 \in DOMAIN q /\ Head(q) = q[1])
BY DEF IsList

LEMMA ListTail ==
  ASSUME NEW q, IsList(q), q # <<>>
  PROVE  LET t == Tail(q)
         IN IsList(t) /\ Len(t) = Len(q) - 1 /\ DOMAIN t = 1..(Len(q) - 1) /\ \A i \in 1..(Len(q) - 1) : t[i] = q[i + 1]
<1> DEFINE t == Tail(q)
<1>1. t \in Seq(Elements(q)) /\ Len(t) = Len(q) - 1 /\ DOMAIN t = 1..(Len(q) - 1) /\ \A i \in 1..(Len(q) - 1) : t[i] = q[i + 1]
  BY DEF IsList
<1>2. \A i \in 1..Len(t) : t[i] \in Elements(t)
  BY <1>1 DEF Elements
<1> HIDE DEF t
<1>3. t \in Seq(Elements(t))
  BY <1>1, <1>2
<1> QED BY <1>1, <1>3 DEF IsList, t

LEMMA ListPut ==
  ASSUME NEW q, IsList(q), NEW e
  PROVE  LET t == <<e>> \o q
         IN IsList(t) /\ Len(t) = Len(q) + 1 /\ DOMAIN t = 1..(Len(q) + 1) /\ t[1] = e /\ \A i \in 1..Len(q) : t[i + 1] = q[i]
<1> DEFINE t == <<e>> \o q
           S == Elements(q) \cup {e}
<1>1. q \in Seq(S) /\ <<e>> \in Seq(S) /\ Len(<<e>>) = 1 /\ <<e>>[1] = e
  BY DEF IsList
<1>2. t \in Seq(S) /\ Len(t) = Len(q) + 1 /\ DOMAIN t = 1..(Len(q) + 1) /\ t[1] = e
      /\ \A i \in 1..Len(q) : t[i + 1] = q[i]
  BY <1>1
<1>3. \A i \in 1..Len(t) : t[i] \in Elements(t)
  BY <1>2 DEF Elements
<1> HIDE DEF t
<1>4. t \in Seq(Elements(t))
  BY <1>2, <1>3
<1> QED BY <1>2, <1>4 DEF IsList, t

LEMMA ListExcept ==
  ASSUME NEW q, IsList(q), NEW i \in DOMAIN q, NEW e
  PROVE  LET t == [q EXCEPT ![i] = e]
         IN IsList(t) /\ Len(t) = Len(q) /\ DOMAIN t = DOMAIN q /\ t[i] = e /\ \A j \in DOMAIN q \ {i} : t[j] = q[j]
<1> DEFINE t == [q EXCEPT ![i] = e]
           S == Elements(q) \cup {e}
<1>1. q \in Seq(S) /\ e \in S /\ i \in 1..Len(q)
  BY DEF IsList
<1>2. t \in Seq(S) /\ Len(t) = Len(q) /\ DOMAIN t = DOMAIN q /\ t[i] = e /\ \A j \in DOMAIN q \ {i} : t[j] = q[j]
  BY <1>1
<1>3. \A j \in 1..Len(t) : t[j] \in Elements(t)
  BY <1>2 DEF Elements
<1> HIDE DEF t
<1>4. t \in Seq(Elements(t))
  BY <1>2, <1>3
<1> QED BY <1>2, <1>4 DEF IsList, t

\* A list that is grouped by path: its positions are whole numbers.
LEMMA OnList == ASSUME NEW q, IsList(q), NEW p PROVE OnPath(q, p) \subseteq 1..Len(q) /\ OnPath(q, p) \subseteq Int
BY ListIs DEF OnPath

----------------------------------------------------------------------------
(* What holds of a state                                                     *)

\* The records still to be undone, by what is running.
LEMMA PendingIs ==
  ASSUME NEW s, Shape(s), ProcOk(s)
  PROVE  /\ IsList(Pending(s))
         /\ Quiet(s) => Pending(s) = s.manifest
         /\ s.proc.op \in {"configure", "delegation"} => Pending(s) = s.proc.changes
         /\ s.proc.op = "undo" =>
              LET n == Len(s.proc.todo)
                  m == Len(s.proc.changes)
              IN /\ n \in Nat /\ m \in Nat /\ Len(Pending(s)) = n + m /\ DOMAIN Pending(s) = 1..(n + m)
                 /\ \A i \in 1..n : Pending(s)[i] = s.manifest[i]
                 /\ \A i \in 1..m : Pending(s)[n + i] = s.proc.changes[i]
<1>1. CASE Quiet(s)
  BY <1>1 DEF Shape, Quiet, Pending
<1>2. CASE s.proc.op \in {"configure", "delegation"}
  BY <1>2 DEF Shape, Quiet, Pending
<1>3. CASE s.proc.op = "undo"
  <2> DEFINE n == Len(s.proc.todo)
             m == Len(s.proc.changes)
             F(i) == IF i <= n THEN s.manifest[i] ELSE s.proc.changes[i - n]
  <2>1. n \in Nat /\ m \in Nat
    BY ListIs DEF Shape
  <2>2. Pending(s) = [i \in 1..(n + m) |-> F(i)]
    BY <1>3 DEF Quiet, Pending
  <2> HIDE DEF n, m
  <2>3. IsList(Pending(s)) /\ Len(Pending(s)) = n + m /\ DOMAIN Pending(s) = 1..(n + m)
    <3>1. n + m \in Nat
      BY <2>1
    <3>2. Pending(s) = [i \in 1..(n + m) |-> Pending(s)[i]]
      BY <2>2
    <3> HIDE DEF F
    <3> QED BY <3>1, <3>2, ListOf
  <2>4. \A i \in 1..n : Pending(s)[i] = s.manifest[i]
    BY <2>1, <2>2, <2>3
  <2>5. \A i \in 1..m : Pending(s)[n + i] = s.proc.changes[i]
    <3> SUFFICES ASSUME NEW i \in 1..m PROVE Pending(s)[n + i] = s.proc.changes[i]
      OBVIOUS
    <3>1. n + i \in 1..(n + m) /\ ~(n + i <= n) /\ (n + i) - n = i
      BY <2>1
    <3>2. Pending(s)[n + i] = F(n + i)
      BY <3>1, <2>2
    <3>3. F(n + i) = s.proc.changes[(n + i) - n]
      BY <3>1
    <3> QED BY <3>1, <3>2, <3>3
  <2> QED BY <1>3, <2>1, <2>2, <2>3, <2>4, <2>5 DEF Quiet, n, m
<1> QED BY <1>1, <1>2, <1>3 DEF ProcOk, Quiet

\* What the invariant says of one path in one state.
PathIn(s, p) == PathOk(p, s.disk[p], Saved(s.backups, p), s.users[p], s.theirs[p], p \in s.others, Pending(s), s.halfUndone, s.unrecorded)

\* Nothing changed on a path.
SamePath(s, t, p) ==
  /\ t.disk[p] = s.disk[p] /\ Saved(t.backups, p) = Saved(s.backups, p) /\ t.users[p] = s.users[p]
  /\ t.theirs[p] = s.theirs[p] /\ (p \in t.others <=> p \in s.others)

\* What holds of a path depends on the path's records only.
LEMMA SameRecords ==
  ASSUME NEW p, NEW f, NEW B, NEW own, NEW theirs, NEW shared \in BOOLEAN, NEW half \in BOOLEAN, NEW unrec \in BOOLEAN,
         NEW L, NEW M, OnPath(L, p) \subseteq Int, OnPath(M, p) = OnPath(L, p), \A i \in OnPath(L, p) : M[i] = L[i],
         PathOk(p, f, B, own, theirs, shared, L, half, unrec)
  PROVE  PathOk(p, f, B, own, theirs, shared, M, half, unrec)
<1> DEFINE phi == [i \in OnPath(L, p) |-> i]
<1>1. \A i \in OnPath(L, p) : phi[i] = i
  OBVIOUS
<1> HIDE DEF phi
<1>2. /\ \A i \in OnPath(M, p) : phi[i] \in OnPath(L, p) /\ M[i] = L[phi[i]]
      /\ \A i \in OnPath(L, p) : \E j \in OnPath(M, p) : phi[j] = i
      /\ \A i, j \in OnPath(M, p) : i < j <=> phi[i] < phi[j]
  BY <1>1
<1> QED BY <1>2, Renumbered

\* The record n is dropped, those after it move down.
Closes(K, M, n, N) ==
  /\ N \in Nat /\ n \in 1..(N + 1) /\ DOMAIN K = (1..(N + 1)) \ {n} /\ DOMAIN M = 1..N
  /\ \A i \in 1..N : M[i] = IF i < n THEN K[i] ELSE K[i + 1]

LEMMA Closed ==
  ASSUME NEW p, NEW f, NEW B, NEW own, NEW theirs, NEW shared \in BOOLEAN, NEW half \in BOOLEAN, NEW unrec \in BOOLEAN,
         NEW K, NEW M, NEW N, NEW n, Closes(K, M, n, N),
         PathOk(p, f, B, own, theirs, shared, K, half, unrec)
  PROVE  PathOk(p, f, B, own, theirs, shared, M, half, unrec)
<1>c. /\ N \in Nat /\ n \in 1..(N + 1) /\ DOMAIN K = (1..(N + 1)) \ {n} /\ DOMAIN M = 1..N
      /\ \A i \in 1..N : M[i] = IF i < n THEN K[i] ELSE K[i + 1]
  BY DEF Closes
<1> DEFINE phi == [i \in 1..N |-> IF i < n THEN i ELSE i + 1]
           I == OnPath(K, p)
           J == OnPath(M, p)
<1>0. \A i \in 1..N : phi[i] = IF i < n THEN i ELSE i + 1
  OBVIOUS
<1>1. I \subseteq Int /\ J \subseteq Int /\ J \subseteq 1..N /\ I \subseteq 1..(N + 1)
  BY <1>c DEF OnPath
<1> HIDE DEF phi
<1>2. \A i \in 1..N : phi[i] \in DOMAIN K /\ M[i] = K[phi[i]]
  BY <1>0, <1>c
<1>3. \A i \in J : phi[i] \in I /\ M[i] = K[phi[i]]
  BY <1>2, <1>c DEF OnPath
<1>4. ASSUME NEW i \in I  PROVE \E j \in J : phi[j] = i
  <2> DEFINE j == IF i < n THEN i ELSE i - 1
  <2>1. i \in (1..(N + 1)) \ {n} /\ K[i].path = p
    BY <1>c DEF OnPath
  <2>2. j \in 1..N /\ phi[j] = i
    <3>1. CASE i < n
      BY <3>1, <2>1, <1>0, <1>c
    <3>2. CASE i > n
      BY <3>2, <2>1, <1>0, <1>c
    <3> QED BY <3>1, <3>2, <2>1, <1>c
  <2> HIDE DEF j
  <2>3. M[j].path = p
    BY <2>1, <2>2, <1>2
  <2> QED BY <2>2, <2>3, <1>c DEF OnPath
<1>5. \A i, j \in J : i < j <=> phi[i] < phi[j]
  BY <1>0, <1>1, <1>c
<1>6. /\ OnPath(K, p) \subseteq Int /\ OnPath(M, p) \subseteq Int
      /\ \A i \in OnPath(M, p) : phi[i] \in OnPath(K, p) /\ M[i] = K[phi[i]]
      /\ \A i \in OnPath(K, p) : \E j \in OnPath(M, p) : phi[j] = i
      /\ \A i, j \in OnPath(M, p) : i < j <=> phi[i] < phi[j]
  BY <1>1, <1>3, <1>4, <1>5
<1> HIDE DEF I, J
<1> QED BY ONLY <1>6, Renumbered, PathOk(p, f, B, own, theirs, shared, K, half, unrec), shared \in BOOLEAN, half \in BOOLEAN, unrec \in BOOLEAN

\* The program died: what it had not recorded is forgotten.
LEMMA Forgotten ==
  ASSUME NEW p, NEW f, NEW B, NEW own, NEW theirs, NEW shared \in BOOLEAN, NEW half \in BOOLEAN, NEW unrec \in BOOLEAN,
         NEW L, NEW M, OnPath(M, p) \subseteq OnPath(L, p), \A i \in OnPath(M, p) : M[i] = L[i],
         PathOk(p, f, B, own, theirs, shared, L, half, unrec)
  PROVE  /\ PathOk(p, f, B, own, theirs, shared, M, half, TRUE)
         /\ PathOk(p, f, B, own, theirs, shared, M, TRUE, unrec)
<1>1. ASSUME ~half  PROVE TheirsKept(p, f, B, theirs, M) /\ Recorded(p, B, M)
  <2>0. TheirsKept(p, f, B, theirs, L) /\ Recorded(p, B, L)
    BY <1>1 DEF PathOk
  <2>1. Recorded(p, B, M)
    BY <2>0 DEF Recorded
  <2>2. TheirsKept(p, f, B, theirs, M)
    BY <2>0 DEF TheirsKept
  <2> QED BY <2>1, <2>2
<1> QED BY <1>1 DEF PathOk

\* Entries of the record as copies come and go: no name is given twice.
LEMMA EntriesStay ==
  ASSUME NEW c, NEW B, NEW t \in Nat, NEW A, NEW s \in Nat, t <= s, EntryOk(c, B, t),
         \A b \in A : b \in B \/ b.id \notin 1..t,
         \A b \in A : b.id \in Nat
  PROVE  EntryOk(c, A, s)
<1>1. c.backup \in 1..t => c.backup \in 1..s
  OBVIOUS
<1>2. \A b \in A : b.id = c.backup => b \in B
  BY NoneIsNoNumber DEF EntryOk
<1> QED BY <1>1, <1>2 DEF EntryOk

\* A record of a file users edit is a record of its owner's file.
LEMMA RecordIs ==
  ASSUME NEW c, NEW B, NEW t, NEW p \in Watched, c.path = p, EntryOk(c, B, t)
  PROVE  /\ c.kind = "file" /\ c.h = Owner(p) /\ RecordOf(p, c, Saved(B, p))
         /\ \A b \in B : b.id = c.backup => b \in Saved(B, p)
<1>1. c.kind = "file"
  BY PathKinds DEF EntryOk
<1> QED BY <1>1, PathKinds DEF EntryOk, RecordOf, Saved

\* One run's bookkeeping changes, the record does not.
LEMMA OnlyProc ==
  ASSUME NEW s, NEW t, CoreOf(s), t.disk = s.disk, t.backups = s.backups, t.taken = s.taken, t.users = s.users,
         t.theirs = s.theirs, t.others = s.others, t.halfUndone = s.halfUndone, t.unrecorded = s.unrecorded,
         Pending(t) = Pending(s), Entries(t) \subseteq Entries(s)
  PROVE  CoreOf(t)
BY DEF CoreOf, Core

\* One path of the state changes.
LEMMA OnePath ==
  ASSUME NEW s, NEW t, CoreOf(s), Shape(s), ProcOk(s), NEW q,
         Typed(t.disk, t.backups, t.taken, t.users, t.theirs, t.others),
         \A c \in Entries(t) : EntryOk(c, t.backups, t.taken),
         t.halfUndone = s.halfUndone, t.unrecorded = s.unrecorded,
         \A p \in (Paths \ Settled) \ {q} :
           /\ SamePath(s, t, p) /\ OnPath(Pending(t), p) = OnPath(Pending(s), p)
           /\ \A i \in OnPath(Pending(s), p) : Pending(t)[i] = Pending(s)[i],
         q \in Paths \ Settled => PathIn(t, q)
  PROVE  CoreOf(t)
<1> SUFFICES ASSUME NEW p \in (Paths \ Settled) \ {q}  PROVE PathIn(t, p)
  BY DEF CoreOf, Core, PathIn
<1>1. PathIn(s, p)
  BY DEF CoreOf, Core, PathIn
<1>2. OnPath(Pending(s), p) \subseteq Int
  BY PendingIs, OnList
<1>3. /\ PathOk(p, t.disk[p], Saved(t.backups, p), t.users[p], t.theirs[p], p \in t.others, Pending(s), t.halfUndone, t.unrecorded)
      /\ t.halfUndone \in BOOLEAN /\ t.unrecorded \in BOOLEAN /\ (p \in t.others) \in BOOLEAN
      /\ OnPath(Pending(t), p) = OnPath(Pending(s), p) /\ \A i \in OnPath(Pending(s), p) : Pending(t)[i] = Pending(s)[i]
  BY <1>1 DEF PathIn, SamePath, Shape
<1>4. PathOk(p, t.disk[p], Saved(t.backups, p), t.users[p], t.theirs[p], p \in t.others, Pending(t), t.halfUndone, t.unrecorded)
  <2> DEFINE f == t.disk[p]
             B == Saved(t.backups, p)
             own == t.users[p]
             th == t.theirs[p]
             sh == p \in t.others
             L == Pending(s)
             M == Pending(t)
             half == t.halfUndone
             unrec == t.unrecorded
  <2>1. PathOk(p, f, B, own, th, sh, L, half, unrec) /\ sh \in BOOLEAN /\ half \in BOOLEAN /\ unrec \in BOOLEAN
        /\ OnPath(L, p) \subseteq Int /\ OnPath(M, p) = OnPath(L, p) /\ \A i \in OnPath(L, p) : M[i] = L[i]
    BY <1>2, <1>3
  <2> HIDE DEF f, B, own, th, sh, L, M, half, unrec
  <2>2. PathOk(p, f, B, own, th, sh, M, half, unrec)
    BY <2>1, SameRecords
  <2> QED BY <2>2 DEF f, B, own, th, sh, L, M, half, unrec
<1> QED BY <1>4 DEF PathIn

\* Typing is kept when one file changes and one copy at most is made.
LEMMA TypedOne ==
  ASSUME NEW d, NEW B, NEW t, NEW us, NEW th, NEW ot, Typed(d, B, t, us, th, ot), NEW q \in Paths,
         NEW g, g = None \/ (IsFile(g) /\ Formed(q, g)),
         NEW us2 \in [Paths -> Nat \cup {None}], NEW th2 \in [Paths -> SUBSET Keys], NEW ot2 \in SUBSET Paths,
         NEW A, NEW t2 \in Nat, t <= t2,
         \A b \in A : b \in B \/ /\ b.id = t + 1 /\ b.id <= t2 /\ b.path = q /\ b.content = d[q] /\ d[q] # None
                                 /\ q = "rule" => d[q] # TheRule,
         \A b1, b2 \in A : (b1 \notin B /\ b2 \notin B) => b1 = b2
  PROVE  Typed([d EXCEPT ![q] = g], A, t2, us2, th2, ot2)
<1> DEFINE e == [d EXCEPT ![q] = g]
<1>1. d = [p \in Paths |-> d[p]] /\ (\A p \in Paths : d[p] = None \/ (IsFile(d[p]) /\ Formed(p, d[p]))) /\ t \in Nat
  BY DEF Typed
<1>2. e = [p \in Paths |-> e[p]] /\ \A p \in Paths : e[p] = None \/ (IsFile(e[p]) /\ Formed(p, e[p]))
  <2>1. e = [p \in Paths |-> IF p = q THEN g ELSE d[p]]
    BY <1>1
  <2> HIDE DEF e
  <2> QED BY <2>1, <1>1
<1>3. \A b \in B : /\ b.id \in 1..t /\ b.path \in Paths /\ IsFile(b.content) /\ Formed(b.path, b.content)
                   /\ b.path = "rule" => b.content # TheRule
  BY DEF Typed
<1>4. \A b \in A : /\ b.id \in 1..t2 /\ b.path \in Paths /\ IsFile(b.content) /\ Formed(b.path, b.content)
                   /\ b.path = "rule" => b.content # TheRule
  <2> SUFFICES ASSUME NEW b \in A
               PROVE  /\ b.id \in 1..t2 /\ b.path \in Paths /\ IsFile(b.content) /\ Formed(b.path, b.content)
                      /\ b.path = "rule" => b.content # TheRule
    OBVIOUS
  <2>1. CASE b \in B
    <3>1. b.id \in 1..t2
      BY <2>1, <1>1, <1>3
    <3> QED BY <3>1, <2>1, <1>3
  <2>2. CASE b \notin B
    <3>1. b.id = t + 1 /\ b.id <= t2 /\ b.path = q /\ b.content = d[q] /\ d[q] # None /\ (q = "rule" => d[q] # TheRule)
      BY <2>2
    <3>2. b.id \in 1..t2
      BY <3>1, <1>1
    <3> QED BY <3>1, <3>2, <1>1
  <2> QED BY <2>1, <2>2
<1>5. ASSUME NEW b1 \in A, NEW b2 \in A, b1.id = b2.id  PROVE b1 = b2
  <2>1. CASE b1 \in B /\ b2 \in B
    BY <2>1, <1>5 DEF Typed
  <2>2. CASE b1 \in B /\ b2 \notin B
    BY <2>2, <1>5, <1>1, <1>3
  <2>3. CASE b1 \notin B /\ b2 \in B
    BY <2>3, <1>5, <1>1, <1>3
  <2> QED BY <2>1, <2>2, <2>3
<1> HIDE DEF e
<1> QED BY <1>2, <1>4, <1>5 DEF Typed, e

CopyNow(s, q) == [id |-> s.taken + 1, path |-> q, content |-> s.disk[q]]

\* One backup: one copy more, of what the file held.
LEMMA Copied ==
  ASSUME NEW s, Shape(s), Typed(s.disk, s.backups, s.taken, s.users, s.theirs, s.others), NEW q \in Paths
  PROVE  LET b == Backup(s, q)
         IN /\ b = [s EXCEPT !.taken = b.taken, !.backups = b.backups] /\ b.taken \in Nat /\ s.taken <= b.taken
            /\ s.backups \subseteq b.backups /\ b.taken = IF s.disk[q] = None THEN s.taken ELSE s.taken + 1
            /\ \A x \in b.backups : x \in s.backups \/ /\ x.id = s.taken + 1 /\ x.id <= b.taken /\ x.path = q
                                                       /\ x.content = s.disk[q] /\ s.disk[q] # None
            /\ \A x, y \in b.backups : (x \notin s.backups /\ y \notin s.backups) => x = y
            /\ \A p : p # q => Saved(b.backups, p) = Saved(s.backups, p)
            /\ IF s.disk[q] = None THEN Saved(b.backups, q) = Saved(s.backups, q)
               ELSE Saved(b.backups, q) = Saved(s.backups, q) \cup {CopyNow(s, q)}
<1> DEFINE b == Backup(s, q)
           new == CopyNow(s, q)
<1>0. s.taken \in Nat
  BY DEF Typed
<1>1. CASE s.disk[q] = None
  <2>1. b = s
    BY <1>1 DEF Backup
  <2>2. s = [s EXCEPT !.taken = s.taken, !.backups = s.backups]
    BY DEF Shape
  <2> HIDE DEF b
  <2> QED BY <2>1, <2>2, <1>1, <1>0 DEF b
<1>2. CASE s.disk[q] # None
  <2>1. b = [s EXCEPT !.taken = s.taken + 1, !.backups = s.backups \cup {new}]
    BY <1>2 DEF Backup, CopyNow
  <2>2. b.taken = s.taken + 1 /\ b.backups = s.backups \cup {new}
    BY <2>1 DEF Shape
  <2>3. new.id = s.taken + 1 /\ new.path = q /\ new.content = s.disk[q]
    BY DEF CopyNow
  <2> HIDE DEF b, new
  <2>4. b = [s EXCEPT !.taken = b.taken, !.backups = b.backups]
    BY <2>1, <2>2
  <2>5. \A p : p # q => Saved(b.backups, p) = Saved(s.backups, p)
    BY <2>2, <2>3 DEF Saved
  <2>6. Saved(b.backups, q) = Saved(s.backups, q) \cup {new}
    BY <2>2, <2>3 DEF Saved
  <2>7. new = CopyNow(s, q)
    BY DEF new
  <2>8. Saved(b.backups, q) = Saved(s.backups, q) \cup {CopyNow(s, q)}
    BY <2>6, <2>7
  <2>9. \A x \in b.backups : x \in s.backups \/ /\ x.id = s.taken + 1 /\ x.id <= b.taken /\ x.path = q
                                                 /\ x.content = s.disk[q] /\ s.disk[q] # None
    BY <2>2, <2>3, <1>0, <1>2
  <2>10. b.taken = s.taken + 1 /\ b.taken \in Nat /\ s.taken <= b.taken /\ s.backups \subseteq b.backups
         /\ \A x, y \in b.backups : (x \notin s.backups /\ y \notin s.backups) => x = y
    BY <2>2, <1>0
  <2> QED BY <2>4, <2>5, <2>8, <2>9, <2>10, <1>2 DEF b
<1> QED BY <1>1, <1>2

LastOn(q, p) == SelectLastInSeq(q, LAMBDA c : c.path = p)

\* The last record of a path is the one configure completes.
LEMMA LastIs ==
  ASSUME NEW q, IsList(q), NEW p, NEW n, Latest(OnPath(q, p), n)
  PROVE  LastOn(q, p) = n
<1> DEFINE I == {i \in 1..Len(q) : q[i].path = p}
<1>1. LastOn(q, p) = IF I # {} THEN Max(I) ELSE 0
  BY DEF LastOn, SelectLastInSeq
<1>2. I = OnPath(q, p) /\ I \subseteq Int
  BY ListIs DEF OnPath
<1> HIDE DEF I
<1>3. n \in I /\ \A i \in I : n >= i
  BY <1>2 DEF Latest
<1>4. Max(I) = n
  BY <1>2, <1>3 DEF Max
<1> QED BY <1>1, <1>3, <1>4

\* What the agents' steps are.
LEMMA ListIn ==
  ASSUME NEW S, NEW q \in Seq(S)
  PROVE  IsList(q) /\ \A i \in DOMAIN q : q[i] \in S
<1>1. \A i \in 1..Len(q) : q[i] \in S /\ q[i] \in Elements(q)
  BY DEF Elements
<1>2. q \in Seq(Elements(q))
  BY <1>1
<1> QED BY <1>1, <1>2 DEF IsList

\* Every step of an agent is on a file of that agent.
LEMMA StepsGood ==
  ASSUME NEW h, NEW a, NEW disk, StepsOf(h, a, disk) # None
  PROVE  IsList(StepsOf(h, a, disk)) /\ \A i \in DOMAIN StepsOf(h, a, disk) : GoodStep(StepsOf(h, a, disk)[i], h)
<1> DEFINE G == {x \in [how : {"json", "toml", "yaml", "file", "skill", "cli", "config"}, path : Paths, key : Keys \cup {"router", "launcher"}] : GoodStep(x, h)}
<1>0. ASSUME NEW how, NEW path, NEW key, GoodStep(Do(how, path, key), h)  PROVE Do(how, path, key) \in G
  <2>1. Do(how, path, key).how = how /\ Do(how, path, key).path = path /\ Do(how, path, key).key = key
    BY DEF Do
  <2>2. path \in Paths
    BY <1>0, <2>1 DEF GoodStep, Paths, Settled, Skills, Registry, JsonFiles, InstallerFiles
  <2>3. how \in {"json", "toml", "yaml", "file", "skill", "cli", "config"} /\ key \in Keys \cup {"router", "launcher"}
    BY <1>0, <2>1 DEF GoodStep, Keys, Names
  <2>4. Do(how, path, key) \in [how : {"json", "toml", "yaml", "file", "skill", "cli", "config"}, path : Paths, key : Keys \cup {"router", "launcher"}]
    BY <2>2, <2>3 DEF Do
  <2> QED BY <1>0, <2>4
<1> HIDE DEF G
<1>n. /\ {"provider", "delegate", "gateway"} \subseteq Names
      /\ Owner("settings.json") = "claude-code" /\ Owner("config.toml") = "codex" /\ Owner("opencode.json") = "opencode"
      /\ Owner("mcp-config.json") = "copilot" /\ Owner("vscode.json") = "copilot" /\ Owner("cursor.json") = "cursor"
      /\ Owner("openclaw.json") = "openclaw" /\ Owner("hermes.yaml") = "hermes"
  BY DEF Names, Keys, Owner
<1>s. \A path \in Skills : Do("skill", path, "skill") \in G
  <2>1. \A path \in Skills : GoodStep(Do("skill", path, "skill"), h)
    BY DEF GoodStep, Skills, Do
  <2> QED BY <2>1, <1>0
<1>c. Do("cli", Registry, "delegate") \in G
  <2>1. GoodStep(Do("cli", Registry, "delegate"), h)
    BY DEF GoodStep, Registry, Do
  <2> QED BY <2>1, <1>0
<1>e. <<>> \in Seq(G) /\ \A q, r \in Seq(G) : q \o r \in Seq(G)
  OBVIOUS
<1>g. ASSUME StepsOf(h, a, disk) \in Seq(G)
      PROVE  IsList(StepsOf(h, a, disk)) /\ \A i \in DOMAIN StepsOf(h, a, disk) : GoodStep(StepsOf(h, a, disk)[i], h)
  <2>1. IsList(StepsOf(h, a, disk)) /\ \A i \in DOMAIN StepsOf(h, a, disk) : StepsOf(h, a, disk)[i] \in G
    BY <1>g, ListIn
  <2> QED BY <2>1 DEF G
<1>1. CASE h = "claude-code"
  <2>1. Do("json", "settings.json", "gateway") \in G
    <3>1. GoodStep(Do("json", "settings.json", "gateway"), h)
      BY <1>n, <1>1 DEF GoodStep, JsonFiles, Do
    <3> QED BY <3>1, <1>0
  <2>2. Do("skill", "claude/skill", "skill") \in G
    BY <1>s DEF Skills
  <2>3. ClaudeSteps(a) \in Seq(G)
    BY <2>1, <2>2, <1>c, <1>e DEF ClaudeSteps, If
  <2>4. StepsOf(h, a, disk) = ClaudeSteps(a)
    BY <1>1 DEF StepsOf
  <2> QED BY <2>3, <2>4, <1>g
<1>2. CASE h = "codex"
  <2>1. Do("toml", "config.toml", "delegate") \in G
    <3>1. GoodStep(Do("toml", "config.toml", "delegate"), h)
      BY <1>2 DEF GoodStep, Do
    <3> QED BY <3>1, <1>0
  <2>2. Do("skill", "agents/skill", "skill") \in G
    BY <1>s DEF Skills
  <2>3. CodexSteps(a) \in Seq(G)
    BY <2>1, <2>2, <1>e DEF CodexSteps, If
  <2>4. StepsOf(h, a, disk) = CodexSteps(a)
    BY <1>2 DEF StepsOf
  <2> QED BY <2>3, <2>4, <1>g
<1>3. CASE h = "opencode"
  <2>1. Do("json", "opencode.json", "provider") \in G /\ Do("json", "opencode.json", "delegate") \in G
    <3>1. GoodStep(Do("json", "opencode.json", "provider"), h) /\ GoodStep(Do("json", "opencode.json", "delegate"), h)
      BY <1>n, <1>3 DEF GoodStep, JsonFiles, Do
    <3> QED BY <3>1, <1>0
  <2>2. Do("skill", "opencode/skill", "skill") \in G
    BY <1>s DEF Skills
  <2>3. OpencodeSteps(a) \in Seq(G)
    BY <2>1, <2>2, <1>e DEF OpencodeSteps, If
  <2>4. StepsOf(h, a, disk) = OpencodeSteps(a)
    BY <1>3 DEF StepsOf
  <2> QED BY <2>3, <2>4, <1>g
<1>4. CASE h = "copilot"
  <2>1. Do("json", "mcp-config.json", "delegate") \in G /\ Do("json", "vscode.json", "delegate") \in G
    <3>1. GoodStep(Do("json", "mcp-config.json", "delegate"), h) /\ GoodStep(Do("json", "vscode.json", "delegate"), h)
      BY <1>n, <1>4 DEF GoodStep, JsonFiles, Do
    <3> QED BY <3>1, <1>0
  <2>3. CopilotSteps(a, disk) \in Seq(G)
    BY <2>1, <1>e DEF CopilotSteps, If
  <2>4. StepsOf(h, a, disk) = CopilotSteps(a, disk)
    BY <1>4 DEF StepsOf
  <2> QED BY <2>3, <2>4, <1>g
<1>5. CASE h = "cursor"
  <2>1. Do("json", "cursor.json", "delegate") \in G /\ Do("file", "rule", "rule") \in G
    <3>1. GoodStep(Do("json", "cursor.json", "delegate"), h) /\ GoodStep(Do("file", "rule", "rule"), h)
      BY <1>n, <1>5 DEF GoodStep, JsonFiles, Do
    <3> QED BY <3>1, <1>0
  <2>3. CursorSteps(a) \in Seq(G)
    BY <2>1, <1>e DEF CursorSteps, If
  <2>4. StepsOf(h, a, disk) = CursorSteps(a)
    BY <1>5 DEF StepsOf
  <2> QED BY <2>3, <2>4, <1>g
<1>6. CASE h = "openclaw"
  <2>1. Do("json", "openclaw.json", "provider") \in G /\ Do("json", "openclaw.json", "delegate") \in G
    <3>1. GoodStep(Do("json", "openclaw.json", "provider"), h) /\ GoodStep(Do("json", "openclaw.json", "delegate"), h)
      BY <1>n, <1>6 DEF GoodStep, JsonFiles, Do
    <3> QED BY <3>1, <1>0
  <2>3. OpenclawSteps(a) \in Seq(G)
    BY <2>1, <1>e DEF OpenclawSteps, If
  <2>4. StepsOf(h, a, disk) = OpenclawSteps(a)
    BY <1>6 DEF StepsOf
  <2> QED BY <2>3, <2>4, <1>g
<1>7. CASE h = "hermes"
  <2>1. Do("yaml", "hermes.yaml", "provider") \in G /\ Do("yaml", "hermes.yaml", "delegate") \in G
    <3>1. GoodStep(Do("yaml", "hermes.yaml", "provider"), h) /\ GoodStep(Do("yaml", "hermes.yaml", "delegate"), h)
      BY <1>n, <1>7 DEF GoodStep, Do
    <3> QED BY <3>1, <1>0
  <2>3. HermesSteps(a) \in Seq(G)
    BY <2>1, <1>e DEF HermesSteps, If
  <2>4. StepsOf(h, a, disk) = HermesSteps(a)
    BY <1>7 DEF StepsOf
  <2> QED BY <2>3, <2>4, <1>g
<1>8. CASE h = "installer"
  <2>1. Do("config", "config.yaml", "router") \in G /\ Do("config", "launcher.yaml", "launcher") \in G
    <3>1. GoodStep(Do("config", "config.yaml", "router"), h) /\ GoodStep(Do("config", "launcher.yaml", "launcher"), h)
      BY DEF GoodStep, InstallerFiles, Do
    <3> QED BY <3>1, <1>0
  <2>4. StepsOf(h, a, disk) = <<Do("config", "config.yaml", "router"), Do("config", "launcher.yaml", "launcher")>>
    BY <1>8 DEF StepsOf
  <2> QED BY <2>1, <2>4, <1>g
<1> QED BY <1>1, <1>2, <1>3, <1>4, <1>5, <1>6, <1>7, <1>8 DEF StepsOf

\* The same for install-delegation.
LEMMA ToolStepsGood ==
  ASSUME NEW tool \in AgentTools, NEW a
  PROVE  LET q == ToolSteps(tool, a) IN IsList(q) /\ q # <<>> /\ \A i \in DOMAIN q : GoodTool(q[i])
<1> DEFINE G == {x \in [how : {"json", "toml", "yaml", "file", "skill", "cli", "config"}, path : Paths, key : Keys \cup {"router", "launcher"}] : GoodTool(x)}
           q == ToolSteps(tool, a)
<1>0. ASSUME NEW how, NEW path, NEW key, GoodTool(Do(how, path, key))  PROVE Do(how, path, key) \in G
  <2>1. Do(how, path, key).how = how /\ Do(how, path, key).path = path /\ Do(how, path, key).key = key
    BY DEF Do
  <2>2. path \in Paths
    BY <1>0, <2>1 DEF GoodTool, Paths, Settled, Skills, Registry, JsonFiles, InstallerFiles
  <2>3. how \in {"json", "toml", "yaml", "file", "skill", "cli", "config"} /\ key \in Keys \cup {"router", "launcher"}
    BY <1>0, <2>1 DEF GoodTool, Keys, Names
  <2>4. Do(how, path, key) \in [how : {"json", "toml", "yaml", "file", "skill", "cli", "config"}, path : Paths, key : Keys \cup {"router", "launcher"}]
    BY <2>2, <2>3 DEF Do
  <2> QED BY <1>0, <2>4
<1> HIDE DEF G
<1>s. \A path \in Skills : Do("skill", path, "skill") \in G
  <2>1. \A path \in Skills : GoodTool(Do("skill", path, "skill"))
    BY DEF GoodTool, Skills, Do
  <2> QED BY <2>1, <1>0
<1>c. Do("cli", Registry, "delegate") \in G /\ Do("cli", "config.toml", "delegate") \in G
  <2>1. GoodTool(Do("cli", Registry, "delegate")) /\ GoodTool(Do("cli", "config.toml", "delegate"))
    BY DEF GoodTool, Registry, Do
  <2> QED BY <2>1, <1>0
<1>j. \A path \in JsonFiles : Do("json", path, "delegate") \in G
  <2>1. \A path \in JsonFiles : GoodTool(Do("json", path, "delegate"))
    BY DEF GoodTool, JsonFiles, Do
  <2> QED BY <2>1, <1>0
<1>y. Do("yaml", "hermes.yaml", "delegate") \in G /\ Do("file", "rule", "rule") \in G
  <2>1. GoodTool(Do("yaml", "hermes.yaml", "delegate")) /\ GoodTool(Do("file", "rule", "rule"))
    BY DEF GoodTool, Do
  <2> QED BY <2>1, <1>0
<1>1. q \in Seq(G) /\ q # <<>>
  <2>1. CASE tool \in {"claude", "codex", "opencode", "openclaw", "hermes"}
    BY <2>1, <1>s, <1>c, <1>j, <1>y DEF ToolSteps, Skills, JsonFiles
  <2>2. CASE tool = "cursor"
    <3>1. q = <<Do("json", "cursor.json", "delegate")>> \o If(a.project, <<Do("file", "rule", "rule")>>)
      BY <2>2 DEF ToolSteps
    <3>2. <<Do("json", "cursor.json", "delegate")>> \in Seq(G) /\ If(a.project, <<Do("file", "rule", "rule")>>) \in Seq(G)
      BY <1>j, <1>y DEF JsonFiles, If
    <3>3. Len(<<Do("json", "cursor.json", "delegate")>>) = 1
      OBVIOUS
    <3>4. Len(If(a.project, <<Do("file", "rule", "rule")>>)) \in Nat
      BY <3>2
    <3>5. q \in Seq(G) /\ Len(q) = 1 + Len(If(a.project, <<Do("file", "rule", "rule")>>))
      BY <3>1, <3>2, <3>3
    <3> HIDE DEF q
    <3> QED BY <3>4, <3>5
  <2>3. CASE tool = "copilot"
    BY <2>3, <1>j DEF ToolSteps, JsonFiles
  <2> QED BY <2>1, <2>2, <2>3 DEF AgentTools
<1>2. IsList(q) /\ \A i \in DOMAIN q : q[i] \in G
  BY <1>1, ListIn
<1> QED BY <1>1, <1>2 DEF G

\* The runs' own bookkeeping.
Unmoved(s, t) ==
  /\ t.disk = s.disk /\ t.asked = s.asked /\ t.backups = s.backups /\ t.taken = s.taken /\ t.users = s.users
  /\ t.theirs = s.theirs /\ t.others = s.others /\ t.halfUndone = s.halfUndone

----------------------------------------------------------------------------
(* Beginning and ending                                                      *)

\* A step that leaves files and records alone keeps the invariant.
LEMMA ProcMoves ==
  ASSUME NEW s, NEW t, Inv(s), Shape(t), Unmoved(s, t), t.unrecorded = s.unrecorded, Pending(t) = Pending(s),
         Entries(t) \subseteq Entries(s), ProcOk(t)
  PROVE  Inv(t)
<1>1. CoreOf(t)
  BY OnlyProc DEF Inv, Unmoved
<1> QED BY <1>1 DEF Inv, Records, Unmoved

\* Records are the same when each one is.
LEMMA SamePending ==
  ASSUME NEW s, NEW t, Shape(s), Shape(t), ProcOk(s), ProcOk(t), Len(Pending(t)) = Len(Pending(s)),
         \A i \in 1..Len(Pending(s)) : Pending(t)[i] = Pending(s)[i]
  PROVE  Pending(t) = Pending(s)
<1>1. IsList(Pending(s)) /\ IsList(Pending(t))
  BY PendingIs
<1>2. /\ Pending(s) = [i \in 1..Len(Pending(s)) |-> Pending(s)[i]]
      /\ Pending(t) = [i \in 1..Len(Pending(t)) |-> Pending(t)[i]]
  BY <1>1, ListIs
<1> QED BY <1>2

LEMMA EmptyList == IsList(<<>>) /\ DOMAIN (<<>>) = {} /\ Len(<<>>) = 0
<1>1. <<>> \in Seq(Elements(<<>>)) /\ Len(<<>>) = 0
  OBVIOUS
<1>2. IsList(<<>>)
  BY <1>1 DEF IsList
<1>3. DOMAIN (<<>>) = 1..0
  BY <1>1, <1>2, ListIs
<1> QED BY <1>1, <1>2, <1>3

\* A run begins.
LEMMA BeginKeeps ==
  ASSUME Inv(u), NEW a \in u.asked, Begin(a)
  PROVE  Inv(u')
<1>0. Shape(u) /\ ProcOk(u) /\ Quiet(u) /\ u.proc.op = "none" /\ u.proc.changes = <<>> /\ IsRun(a)
  BY DEF Inv, Begin, ProcOk, Records, Quiet
<1>l. IsList(u.manifest) /\ Len(u.manifest) \in Nat
  BY <1>0, ListIs DEF Shape
<1>1. /\ Unmoved(u, u') /\ u'.unrecorded = u.unrecorded /\ u'.manifest = u.manifest /\ u'.runs = u.runs + 1 /\ u'.edits = u.edits
      /\ u'.proc = [op |-> a.op, a |-> a, hs |-> a.hs, todo |-> IF a.op = "undo" THEN Reverse(u.manifest) ELSE <<>>,
                    changes |-> IF a.op = "undo" THEN <<>> ELSE u.manifest, h |-> None, open |-> {}]
      /\ u' = [disk |-> u'.disk, asked |-> u'.asked, manifest |-> u'.manifest, backups |-> u'.backups, taken |-> u'.taken,
               proc |-> u'.proc, runs |-> u'.runs, edits |-> u'.edits, users |-> u'.users, theirs |-> u'.theirs,
               others |-> u'.others, unrecorded |-> u'.unrecorded, halfUndone |-> u'.halfUndone]
  BY <1>0 DEF Begin, Shape, Unmoved
<1>2. /\ u'.proc.op = a.op /\ a.op \in {"configure", "undo"} /\ u'.proc.a = a /\ u'.proc.hs = a.hs /\ u'.proc.open = {}
      /\ a.op = "undo" => u'.proc.todo = Reverse(u.manifest) /\ u'.proc.changes = <<>>
      /\ a.op = "configure" => u'.proc.todo = <<>> /\ u'.proc.changes = u.manifest
  BY <1>1 DEF Begin
<1>3. LET q == Reverse(u.manifest)
      IN IsList(q) /\ Len(q) = Len(u.manifest) /\ \A i \in 1..Len(u.manifest) : q[i] = u.manifest[Len(u.manifest) + 1 - i]
  <2> DEFINE q == Reverse(u.manifest)
             n == Len(u.manifest)
  <2>1. q = [i \in 1..n |-> u.manifest[(n - i) + 1]]
    BY DEF Reverse
  <2>2. q = [i \in 1..n |-> q[i]]
    BY <2>1
  <2>3. \A i \in 1..n : q[i] = u.manifest[n + 1 - i]
    <3> SUFFICES ASSUME NEW i \in 1..n PROVE q[i] = u.manifest[n + 1 - i]
      OBVIOUS
    <3>1. (n - i) + 1 = n + 1 - i
      BY <1>l
    <3> QED BY <2>1, <3>1
  <2> HIDE DEF q
  <2>4. IsList(q) /\ Len(q) = n
    BY <2>2, <1>l, ListOf
  <2> QED BY <2>3, <2>4 DEF q
<1>4. Shape(u')
  <2>1. IsList(u'.proc.changes) /\ IsList(u'.proc.todo) /\ IsList(u'.manifest)
    BY <1>1, <1>2, <1>3, <1>l, EmptyList
  <2>2. u'.proc = [op |-> u'.proc.op, a |-> u'.proc.a, hs |-> u'.proc.hs, todo |-> u'.proc.todo, changes |-> u'.proc.changes,
                   h |-> u'.proc.h, open |-> u'.proc.open]
    BY <1>1
  <2>3. u'.unrecorded \in BOOLEAN /\ u'.halfUndone \in BOOLEAN /\ u'.runs \in Nat /\ u'.edits \in Nat
    BY <1>0, <1>1 DEF Shape, Unmoved
  <2> QED BY <2>1, <2>2, <2>3, <1>1 DEF Shape
<1>5. ProcOk(u')
  <2>1. CASE a.op = "configure"
    <3>1. Configuring(u')
      BY <2>1, <1>1, <1>2, <1>l, EmptyList DEF Configuring
    <3> QED BY <2>1, <3>1, <1>0, <1>2 DEF ProcOk
  <2>2. CASE a.op = "undo"
    <3>1. Undoing(u')
      BY <2>2, <1>1, <1>2, <1>3, <1>l, EmptyList DEF Undoing
    <3> QED BY <2>2, <3>1, <1>0, <1>2 DEF ProcOk
  <2> QED BY <2>1, <2>2, <1>2
<1>6. Pending(u') = Pending(u)
  <2>1. Pending(u) = u.manifest
    BY <1>0, PendingIs
  <2>2. CASE a.op = "configure"
    BY <2>1, <2>2, <1>2, <1>4, <1>5, PendingIs
  <2>3. CASE a.op = "undo"
    <3>1. Len(u'.proc.todo) = Len(u.manifest) /\ Len(u'.proc.changes) = 0
      BY <2>3, <1>2, <1>3, EmptyList
    <3>2. Len(Pending(u')) = Len(u.manifest) /\ \A i \in 1..Len(u.manifest) : Pending(u')[i] = u.manifest[i]
      <4> DEFINE n == Len(u'.proc.todo)
                 m == Len(u'.proc.changes)
                 L == Pending(u')
      <4>1. n \in Nat /\ m \in Nat /\ Len(L) = n + m /\ \A i \in 1..n : L[i] = u'.manifest[i]
        BY <2>3, <1>2, <1>4, <1>5, PendingIs
      <4> HIDE DEF n, m, L
      <4>2. n = Len(u.manifest) /\ m = 0
        BY <3>1 DEF n, m
      <4>3. Len(L) = Len(u.manifest) /\ \A i \in 1..Len(u.manifest) : L[i] = u.manifest[i]
        BY <4>1, <4>2, <1>1
      <4> QED BY <4>3 DEF L
    <3> QED BY <2>1, <3>2, <1>0, <1>4, <1>5, SamePending
  <2> QED BY <2>2, <2>3, <1>2
<1>7. Entries(u') \subseteq Entries(u)
  BY <1>1, <1>2, EmptyList DEF Entries
<1> QED BY <1>1, <1>4, <1>5, <1>6, <1>7, ProcMoves

\* configure goes on without an edit.
LEMMA ConfigureMoves ==
  ASSUME NEW s, NEW t, Inv(s), s.proc.op = "configure", t = [s EXCEPT !.proc = t.proc],
         t.proc = [op |-> "configure", a |-> s.proc.a, hs |-> t.proc.hs, todo |-> t.proc.todo,
                   changes |-> s.proc.changes, h |-> t.proc.h, open |-> t.proc.open],
         IsList(t.proc.todo), \A i \in DOMAIN t.proc.todo : GoodStep(t.proc.todo[i], t.proc.h),
         t.proc.open \subseteq s.proc.open
  PROVE  Inv(t)
<1>0. Shape(s) /\ ProcOk(s) /\ Configuring(s) /\ IsRun(s.proc.a)
  BY DEF Inv, ProcOk
<1>1. /\ Unmoved(s, t) /\ t.unrecorded = s.unrecorded /\ t.manifest = s.manifest /\ t.runs = s.runs /\ t.edits = s.edits
      /\ t = [disk |-> t.disk, asked |-> t.asked, manifest |-> t.manifest, backups |-> t.backups, taken |-> t.taken,
              proc |-> t.proc, runs |-> t.runs, edits |-> t.edits, users |-> t.users, theirs |-> t.theirs,
              others |-> t.others, unrecorded |-> t.unrecorded, halfUndone |-> t.halfUndone]
  BY <1>0 DEF Shape, Unmoved
<1>2. t.proc.op = "configure" /\ t.proc.a = s.proc.a /\ t.proc.changes = s.proc.changes
  OBVIOUS
<1>3. t.proc = [op |-> t.proc.op, a |-> t.proc.a, hs |-> t.proc.hs, todo |-> t.proc.todo, changes |-> t.proc.changes,
                h |-> t.proc.h, open |-> t.proc.open]
  BY <1>2
<1>4. Shape(t)
  BY <1>0, <1>1, <1>2, <1>3 DEF Shape, Unmoved
<1>5. Configuring(t)
  BY <1>0, <1>1, <1>2 DEF Configuring, Unmoved
<1>6. ProcOk(t)
  BY <1>0, <1>2, <1>5 DEF ProcOk
<1>7. Pending(t) = Pending(s)
  <2>1. s.proc.op = "configure"
    OBVIOUS
  <2>2. Pending(s) = s.proc.changes
    BY ONLY <1>0, <2>1, PendingIs
  <2>3. Pending(t) = t.proc.changes
    BY ONLY <1>2, <1>4, <1>6, PendingIs
  <2> QED BY ONLY <1>2, <2>2, <2>3
<1>8. Entries(t) \subseteq Entries(s)
  BY <1>1, <1>2 DEF Entries
<1> QED BY <1>1, <1>4, <1>6, <1>7, <1>8, ProcMoves

\* No program is running.
LEMMA AtRestIs ==
  /\ AtRest.op = "none" /\ AtRest.changes = <<>> /\ AtRest.todo = <<>>
  /\ AtRest = [op |-> AtRest.op, a |-> AtRest.a, hs |-> AtRest.hs, todo |-> AtRest.todo, changes |-> AtRest.changes,
             h |-> AtRest.h, open |-> AtRest.open]
BY DEF AtRest

\* The end of a run.
Ended(s, manifest, unrec, half) ==
  [s EXCEPT !.proc = AtRest, !.manifest = manifest, !.unrecorded = unrec, !.halfUndone = half]

\* What the end of a run leaves.
LEMMA RunEnds ==
  ASSUME NEW s, NEW t, Inv(s), ~Quiet(s), NEW manifest, NEW unrec \in BOOLEAN, NEW half \in BOOLEAN, IsList(manifest),
         t = Ended(s, manifest, unrec, half)
  PROVE  /\ Shape(t) /\ ProcOk(t) /\ Records(t) /\ Pending(t) = manifest /\ t.unrecorded = unrec /\ t.halfUndone = half
         /\ Entries(t) = Elements(manifest) /\ t.manifest = manifest
         /\ t.disk = s.disk /\ t.asked = s.asked /\ t.backups = s.backups /\ t.taken = s.taken /\ t.users = s.users
         /\ t.theirs = s.theirs /\ t.others = s.others
<1>0. Shape(s) /\ Records(s)
  BY DEF Inv
<1>1. /\ t.unrecorded = unrec /\ t.halfUndone = half /\ t.manifest = manifest /\ t.proc = AtRest
      /\ t.disk = s.disk /\ t.asked = s.asked /\ t.backups = s.backups /\ t.taken = s.taken /\ t.users = s.users
      /\ t.theirs = s.theirs /\ t.others = s.others /\ t.runs = s.runs /\ t.edits = s.edits
      /\ t = [disk |-> t.disk, asked |-> t.asked, manifest |-> t.manifest, backups |-> t.backups, taken |-> t.taken,
              proc |-> t.proc, runs |-> t.runs, edits |-> t.edits, users |-> t.users, theirs |-> t.theirs,
              others |-> t.others, unrecorded |-> t.unrecorded, halfUndone |-> t.halfUndone]
  BY <1>0 DEF Shape, Ended
<1>2. Shape(t)
  BY <1>0, <1>1, AtRestIs, EmptyList DEF Shape
<1>3. ProcOk(t)
  BY <1>1, AtRestIs DEF ProcOk
<1>4. Pending(t) = manifest
  <2>1. Quiet(t)
    BY <1>1, AtRestIs DEF Quiet
  <2> QED BY <2>1, <1>1, <1>2, <1>3, PendingIs
<1>5. Entries(t) = Elements(manifest)
  BY <1>1, AtRestIs, EmptyList DEF Entries, Elements
<1> QED BY <1>0, <1>1, <1>2, <1>3, <1>4, <1>5 DEF Records

\* A run that dies leaves copies of everything, and says it lost its record.
LEMMA LostKeeps ==
  ASSUME NEW s, Inv(s), ~Quiet(s)
  PROVE  Inv(Lost(s))
<1> DEFINE t == Lost(s)
           unrec == s.unrecorded \/ (s.proc.op # "undo" /\ s.proc.changes # s.manifest)
           half == s.halfUndone \/ s.proc.op = "undo"
<1>0. Shape(s) /\ ProcOk(s) /\ CoreOf(s)
  BY DEF Inv
<1>1. t = Ended(s, s.manifest, unrec, half)
  BY <1>0 DEF Lost, Shape, Ended
<1>2. IsList(s.manifest) /\ unrec \in BOOLEAN /\ half \in BOOLEAN
  BY <1>0 DEF Shape
<1> HIDE DEF t
<1>3. /\ Shape(t) /\ ProcOk(t) /\ Records(t) /\ Pending(t) = s.manifest /\ t.unrecorded = unrec /\ t.halfUndone = half
      /\ Entries(t) = Elements(s.manifest)
      /\ t.disk = s.disk /\ t.asked = s.asked /\ t.backups = s.backups /\ t.taken = s.taken /\ t.users = s.users
      /\ t.theirs = s.theirs /\ t.others = s.others
  <2> HIDE DEF unrec, half
  <2> QED BY <1>1, <1>2, RunEnds
<1>4. ASSUME NEW p \in Paths \ Settled  PROVE PathIn(t, p)
  <2>1. PathIn(s, p)
    BY <1>0 DEF CoreOf, Core, PathIn
  <2> DEFINE f == s.disk[p]
             B == Saved(s.backups, p)
             own == s.users[p]
             th == s.theirs[p]
             sh == p \in s.others
             L == Pending(s)
             M == s.manifest
             hf == s.halfUndone
             ur == s.unrecorded
  <2>2. PathOk(p, f, B, own, th, sh, L, hf, ur) /\ sh \in BOOLEAN /\ hf \in BOOLEAN /\ ur \in BOOLEAN
    BY <2>1, <1>0 DEF PathIn, Shape
  <2>3. CASE s.proc.op = "undo"
    <3> HIDE DEF f, B, own, th, sh, L, hf, ur, M
    <3>1. PathOk(p, f, B, own, th, sh, M, TRUE, ur)
      BY <2>2 DEF PathOk
    <3>2. half /\ unrec = ur
      BY <2>3, <2>2 DEF ur
    <3> QED BY <3>1, <3>2, <1>2, <1>3 DEF PathIn, f, B, own, th, sh, M
  <2>4. CASE s.proc.op # "undo" /\ s.proc.changes = s.manifest
    <3>1. Pending(s) = s.manifest /\ unrec = ur /\ half = hf
      <4>1. s.proc.op \in {"configure", "delegation"}
        BY <2>4, <1>0 DEF ProcOk, Quiet
      <4>2. Pending(s) = s.manifest
        BY <4>1, <2>4, <1>0, PendingIs
      <4> HIDE DEF f, B, own, th, sh, L, M
      <4> QED BY <4>2, <2>4, <2>2
    <3> HIDE DEF f, B, own, th, sh, hf, ur
    <3> QED BY <2>2, <3>1, <1>3 DEF PathIn, f, B, own, th, sh
  <2>5. CASE s.proc.op # "undo" /\ s.proc.changes # s.manifest
    <3>1. s.proc.op = "configure" /\ Configuring(s) /\ L = s.proc.changes /\ unrec = TRUE /\ half = hf
      BY <2>5, <2>2, <1>0, PendingIs DEF ProcOk, Quiet
    <3>2. DOMAIN M \subseteq DOMAIN L /\ \A i \in DOMAIN M : L[i] = M[i]
      BY <3>1, <1>0, ListIs DEF Shape, Configuring
    <3> HIDE DEF f, B, own, th, sh, L, M, hf, ur
    <3>3. OnPath(M, p) \subseteq OnPath(L, p) /\ \A i \in OnPath(M, p) : M[i] = L[i]
      BY <3>2 DEF OnPath
    <3>4. PathOk(p, f, B, own, th, sh, M, hf, TRUE)
      BY <2>2, <3>3, Forgotten
    <3> QED BY <3>1, <3>4, <1>3 DEF PathIn, f, B, own, th, sh, M
  <2> QED BY <2>3, <2>4, <2>5
<1>5. CoreOf(t)
  <2>1. \A c \in Entries(t) : EntryOk(c, t.backups, t.taken)
    BY <1>0, <1>3 DEF CoreOf, Core, Entries, Elements
  <2>2. Typed(t.disk, t.backups, t.taken, t.users, t.theirs, t.others)
    BY <1>0, <1>3 DEF CoreOf, Core
  <2> QED BY <1>4, <2>1, <2>2 DEF CoreOf, Core, PathIn
<1> QED BY <1>3, <1>5 DEF Inv, t

\* A run that ends with its record saved.
LEMMA EndsRecorded ==
  ASSUME NEW s, NEW t, Inv(s), ~Quiet(s), NEW manifest, IsList(manifest), Pending(s) = manifest, Elements(manifest) \subseteq Entries(s),
         t = [s EXCEPT !.proc = AtRest, !.manifest = manifest]
  PROVE  Inv(t)
<1>0. Shape(s)
  BY DEF Inv
<1>1. t = Ended(s, manifest, s.unrecorded, s.halfUndone)
  BY <1>0 DEF Shape, Ended
<1>2. s.unrecorded \in BOOLEAN /\ s.halfUndone \in BOOLEAN
  BY <1>0 DEF Shape
<1>3. /\ Shape(t) /\ ProcOk(t) /\ Records(t) /\ Pending(t) = manifest /\ t.unrecorded = s.unrecorded /\ t.halfUndone = s.halfUndone
      /\ Entries(t) = Elements(manifest)
      /\ t.disk = s.disk /\ t.asked = s.asked /\ t.backups = s.backups /\ t.taken = s.taken /\ t.users = s.users
      /\ t.theirs = s.theirs /\ t.others = s.others
  BY <1>1, <1>2, RunEnds
<1>4. Unmoved(s, t) /\ Pending(t) = Pending(s) /\ Entries(t) \subseteq Entries(s) /\ Inv(s)
  BY <1>3 DEF Unmoved
<1> QED BY ONLY <1>3, <1>4, ProcMoves

\* Killed.
LEMMA AbortKeeps == ASSUME Inv(u), Abort PROVE Inv(u')
BY LostKeeps DEF Abort

\* The next agent.
LEMMA NextHarnessKeeps ==
  ASSUME Inv(u), NextHarness
  PROVE  Inv(u')
<1> DEFINE h == Head(u.proc.hs)
           steps == StepsOf(h, u.proc.a, u.disk)
<1>0. u.proc.op = "configure" /\ ~Quiet(u) /\ Shape(u)
  BY DEF NextHarness, Doing, Quiet, Inv
<1>1. CASE steps = None
  BY <1>1, <1>0, LostKeeps DEF NextHarness
<1>2. CASE steps # None
  <2>1. IsList(steps) /\ \A i \in DOMAIN steps : GoodStep(steps[i], h)
    BY <1>2, StepsGood
  <2>2. u' = [u EXCEPT !.proc.hs = Tail(@), !.proc.todo = steps, !.proc.h = h, !.proc.open = {}]
    BY <1>2 DEF NextHarness
  <2> HIDE DEF steps, h
  <2>3. /\ u' = [u EXCEPT !.proc = u'.proc] /\ u'.proc.todo = steps /\ u'.proc.h = h /\ u'.proc.open = {}
        /\ u'.proc = [op |-> "configure", a |-> u.proc.a, hs |-> u'.proc.hs, todo |-> u'.proc.todo,
                      changes |-> u.proc.changes, h |-> u'.proc.h, open |-> u'.proc.open]
    BY <1>0, <2>2 DEF Shape
  <2>4. /\ IsList(u'.proc.todo) /\ (\A i \in DOMAIN u'.proc.todo : GoodStep(u'.proc.todo[i], u'.proc.h))
        /\ u'.proc.open \subseteq u.proc.open
    BY <2>1, <2>3
  <2>5. u.proc.op = "configure"
    BY ONLY <1>0
  <2>6. u' = [u EXCEPT !.proc = u'.proc]
    BY ONLY <2>3
  <2>7. u'.proc = [op |-> "configure", a |-> u.proc.a, hs |-> u'.proc.hs, todo |-> u'.proc.todo,
                   changes |-> u.proc.changes, h |-> u'.proc.h, open |-> u'.proc.open]
    BY ONLY <2>3
  <2> QED BY ONLY <2>4, <2>5, <2>6, <2>7, Inv(u), ConfigureMoves
<1> QED BY <1>1, <1>2

\* The agent's own CLI fails.
LEMMA CliFailsKeeps ==
  ASSUME Inv(u), CliFails
  PROVE  Inv(u')
<1>0. u.proc.op = "configure" /\ Shape(u) /\ u' = [u EXCEPT !.proc.todo = <<>>]
  BY DEF CliFails, Doing, Inv
<1>1. /\ u' = [u EXCEPT !.proc = u'.proc] /\ u'.proc.todo = <<>> /\ u'.proc.open = u.proc.open
      /\ u'.proc = [op |-> "configure", a |-> u.proc.a, hs |-> u'.proc.hs, todo |-> u'.proc.todo,
                    changes |-> u.proc.changes, h |-> u'.proc.h, open |-> u'.proc.open]
  BY <1>0 DEF Shape
<1>2. /\ IsList(u'.proc.todo) /\ (\A i \in DOMAIN u'.proc.todo : GoodStep(u'.proc.todo[i], u'.proc.h))
      /\ u'.proc.open \subseteq u.proc.open
  BY <1>1, EmptyList
<1> QED BY ONLY <1>0, <1>1, <1>2, Inv(u), ConfigureMoves

\* configure ends.
LEMMA SaveManifestKeeps ==
  ASSUME Inv(u), SaveManifest
  PROVE  Inv(u')
<1> DEFINE M == IF u.proc.a.dry THEN u.manifest ELSE u.proc.changes
<1>0. u.proc.op = "configure" /\ ~Quiet(u) /\ Shape(u) /\ ProcOk(u) /\ Configuring(u) /\ Inv(u)
  BY DEF SaveManifest, Doing, Quiet, Inv, ProcOk
<1>1. u' = [u EXCEPT !.proc = AtRest, !.manifest = M]
  BY DEF SaveManifest
<1>2. M = u.proc.changes
  BY <1>0 DEF Configuring
<1>3. IsList(M) /\ Pending(u) = M /\ Elements(M) \subseteq Entries(u)
  BY <1>0, <1>2, PendingIs DEF Shape, Elements, Entries
<1> HIDE DEF M
<1> QED BY ONLY <1>0, <1>1, <1>3, EndsRecorded

\* undo ends.
LEMMA FinishUndoKeeps ==
  ASSUME Inv(u), FinishUndo
  PROVE  Inv(u')
<1> DEFINE M == IF u.proc.a.dry THEN u.manifest ELSE u.proc.changes
<1>0. u.proc.op = "undo" /\ ~Quiet(u) /\ Shape(u) /\ ProcOk(u) /\ Undoing(u) /\ Inv(u)
  BY DEF FinishUndo, Doing, Quiet, Inv, ProcOk
<1>1. u' = [u EXCEPT !.proc = AtRest, !.manifest = M] /\ u.proc.todo = <<>>
  BY DEF FinishUndo
<1>2. Len(u.proc.todo) = 0
  BY <1>1, EmptyList
<1>3. /\ IsList(u.proc.changes) /\ IsList(u.manifest) /\ Len(u.proc.changes) \in Nat /\ Len(u.manifest) \in Nat
      /\ DOMAIN u.proc.changes = 1..Len(u.proc.changes) /\ DOMAIN u.manifest = 1..Len(u.manifest)
      /\ u.proc.changes = [i \in 1..Len(u.proc.changes) |-> u.proc.changes[i]]
      /\ u.manifest = [i \in 1..Len(u.manifest) |-> u.manifest[i]]
  BY <1>0, ListIs DEF Shape
<1>4. M = u.proc.changes
  <2> SUFFICES ASSUME u.proc.a.dry PROVE u.manifest = u.proc.changes
    OBVIOUS
  <2>1. Len(u.proc.changes) = Len(u.manifest) /\ \A i \in DOMAIN u.proc.changes : u.proc.changes[i] = u.manifest[i]
    <3>1. /\ 0 + Len(u.proc.changes) = Len(u.manifest)
          /\ \A i \in DOMAIN u.proc.changes : u.proc.changes[i] = u.manifest[0 + i]
      BY <1>0, <1>2 DEF Undoing
    <3>2. \A i \in DOMAIN u.proc.changes : 0 + i = i
      BY <1>3
    <3> QED BY <3>1, <3>2, <1>3
  <2> QED BY <2>1, <1>3
<1>5. Pending(u) = u.proc.changes
  <2> DEFINE n == Len(u.proc.todo)
             m == Len(u.proc.changes)
             L == Pending(u)
  <2>1. n \in Nat /\ m \in Nat /\ IsList(L) /\ Len(L) = n + m /\ \A i \in 1..m : L[n + i] = u.proc.changes[i]
    BY <1>0, PendingIs
  <2>2. n = 0
    BY <1>2
  <2> HIDE DEF n, L
  <2>3. Len(L) = m /\ \A i \in 1..m : L[i] = u.proc.changes[i]
    BY <2>1, <2>2
  <2>4. L = [i \in 1..Len(L) |-> L[i]]
    BY <2>1, ListIs
  <2> QED BY <2>3, <2>4, <1>3 DEF L
<1>6. IsList(M) /\ Pending(u) = M /\ Elements(M) \subseteq Entries(u)
  BY <1>3, <1>4, <1>5 DEF Elements, Entries
<1> HIDE DEF M
<1> QED BY ONLY <1>0, <1>1, <1>6, EndsRecorded

With(s, d, B, taken, proc) == [s EXCEPT !.disk = d, !.backups = B, !.taken = taken, !.proc = proc]

----------------------------------------------------------------------------
(* Steps of configure                                                        *)

\* configure edits one path, and makes or completes the record of that.
Edited(s, t, p, g) ==
  /\ t = With(s, [s.disk EXCEPT ![p] = g], t.backups, t.taken, t.proc)
  /\ t.proc = [op |-> "configure", a |-> s.proc.a, hs |-> s.proc.hs, todo |-> s.proc.todo,
               changes |-> t.proc.changes, h |-> s.proc.h, open |-> t.proc.open]
CopiedAtMost(s, A, taken, p) ==
  /\ taken \in Nat /\ s.taken <= taken
  /\ \A b \in A : b \in s.backups \/ /\ b.id = s.taken + 1 /\ b.id <= taken /\ b.path = p /\ b.content = s.disk[p]
                                     /\ s.disk[p] # None /\ (p = "rule" => s.disk[p] # TheRule)
  /\ \A b1, b2 \in A : (b1 \notin s.backups /\ b2 \notin s.backups) => b1 = b2
  /\ \A q \in Paths : q # p => Saved(A, q) = Saved(s.backups, q)
Recording(s, M, p) ==
  LET L == s.proc.changes
  IN /\ IsList(M) /\ Len(M) >= Len(L)
     /\ \A i \in DOMAIN L : M[i] = L[i] \/ (i > Len(s.manifest) /\ L[i].path = p /\ M[i].path = p)
     /\ \A i \in DOMAIN M \ DOMAIN L : M[i].path = p

\* One edit of configure, on one path, keeps the invariant.
LEMMA EditKeeps ==
  ASSUME NEW s, NEW t, Inv(s), s.proc.op = "configure", ~s.proc.a.dry, NEW p \in Paths, NEW g, IsFile(g), Formed(p, g),
         Edited(s, t, p, g), CopiedAtMost(s, t.backups, t.taken, p), Recording(s, t.proc.changes, p),
         \A i \in DOMAIN t.proc.changes :
            (i \in DOMAIN s.proc.changes /\ t.proc.changes[i] = s.proc.changes[i]) \/ EntryOk(t.proc.changes[i], t.backups, t.taken),
         p \in Paths \ Settled =>
           PathOk(p, g, Saved(t.backups, p), s.users[p], s.theirs[p], p \in s.others, t.proc.changes, s.halfUndone, s.unrecorded),
         t.proc.open \subseteq s.proc.open \cup {p},
         p \in t.proc.open => Opening(p, g, Saved(t.backups, p), s.users[p], s.theirs[p], t.proc.changes,
                                      Len(s.manifest), s.halfUndone)
  PROVE  Inv(t)
<1> DEFINE L == s.proc.changes
           M == t.proc.changes
<1>0. /\ Shape(s) /\ ProcOk(s) /\ Configuring(s) /\ CoreOf(s) /\ Records(s) /\ IsRun(s.proc.a)
      /\ Typed(s.disk, s.backups, s.taken, s.users, s.theirs, s.others)
  BY DEF Inv, ProcOk, CoreOf, Core
<1>1. /\ t.disk = [s.disk EXCEPT ![p] = g] /\ t.asked = s.asked /\ t.users = s.users /\ t.theirs = s.theirs /\ t.others = s.others
      /\ t.halfUndone = s.halfUndone /\ t.unrecorded = s.unrecorded /\ t.manifest = s.manifest
      /\ t.runs = s.runs /\ t.edits = s.edits
      /\ t = [disk |-> t.disk, asked |-> t.asked, manifest |-> t.manifest, backups |-> t.backups, taken |-> t.taken,
              proc |-> t.proc, runs |-> t.runs, edits |-> t.edits, users |-> t.users, theirs |-> t.theirs,
              others |-> t.others, unrecorded |-> t.unrecorded, halfUndone |-> t.halfUndone]
  BY <1>0 DEF Shape, Edited, With
<1>2. /\ t.proc.op = "configure" /\ t.proc.a = s.proc.a /\ t.proc.todo = s.proc.todo /\ t.proc.h = s.proc.h
      /\ t.proc = [op |-> t.proc.op, a |-> t.proc.a, hs |-> t.proc.hs, todo |-> t.proc.todo, changes |-> t.proc.changes,
                   h |-> t.proc.h, open |-> t.proc.open]
  BY DEF Edited
<1>3. s.disk = [q \in Paths |-> s.disk[q]]
  BY <1>0 DEF Typed
<1>4. t.disk[p] = g /\ \A q \in Paths \ {p} : t.disk[q] = s.disk[q]
  BY <1>1, <1>3
<1>5. IsList(L) /\ IsList(M) /\ Len(L) \in Nat /\ Len(M) \in Nat /\ DOMAIN L = 1..Len(L) /\ DOMAIN M = 1..Len(M) /\ Len(M) >= Len(L)
      /\ IsList(s.manifest) /\ Len(s.manifest) \in Nat /\ DOMAIN s.manifest = 1..Len(s.manifest)
  BY <1>0, ListIs DEF Shape, Recording
<1>6. Shape(t)
  BY <1>0, <1>1, <1>2, <1>5 DEF Shape
<1>7. \A q : q # p => OnPath(M, q) = OnPath(L, q) /\ \A i \in OnPath(L, q) : M[i] = L[i]
  BY <1>5 DEF Recording, OnPath
<1>8. \A q \in Paths \ {p} : SamePath(s, t, q)
  BY <1>1, <1>4 DEF SamePath, CopiedAtMost
<1>9. Configuring(t)
  <2>1. ASSUME NEW q \in t.proc.open
        PROVE  Opening(q, t.disk[q], Saved(t.backups, q), t.users[q], t.theirs[q], M, Len(t.manifest), t.halfUndone)
    <3>1. CASE q = p
      BY <2>1, <3>1, <1>1, <1>4
    <3>2. CASE q # p
      <4>1. Opening(q, s.disk[q], Saved(s.backups, q), s.users[q], s.theirs[q], L, Len(s.manifest), s.halfUndone)
        BY <2>1, <3>2, <1>0 DEF Configuring
      <4>2. q \in Paths
        BY <4>1, PathKinds DEF Opening
      <4>3. SamePath(s, t, q) /\ OnPath(M, q) = OnPath(L, q) /\ \A i \in OnPath(L, q) : M[i] = L[i]
        BY <4>2, <3>2, <1>7, <1>8
      <4>4. t.manifest = s.manifest /\ t.halfUndone = s.halfUndone
        BY <1>1
      <4> HIDE DEF L, M
      <4> QED BY ONLY <4>1, <4>3, <4>4 DEF Opening, SamePath
    <3> QED BY <3>1, <3>2
  <2>2. \A i \in DOMAIN t.manifest : M[i] = t.manifest[i]
    <3>1. \A i \in DOMAIN s.manifest : L[i] = s.manifest[i] /\ i \in DOMAIN L
      BY <1>0, <1>5 DEF Configuring
    <3>2. \A i \in DOMAIN s.manifest : M[i] = L[i]
      BY <3>1, <1>5 DEF Recording
    <3> QED BY <3>1, <3>2, <1>1
  <2>3. Len(M) >= Len(t.manifest)
    BY <1>0, <1>1, <1>5 DEF Configuring
  <2> QED BY <2>1, <2>2, <2>3, <1>0, <1>2 DEF Configuring
<1>10. ProcOk(t)
  BY <1>0, <1>2, <1>9 DEF ProcOk
<1>11. Pending(s) = L /\ Pending(t) = M
  BY <1>0, <1>2, <1>6, <1>10, PendingIs
<1>12. Typed(t.disk, t.backups, t.taken, t.users, t.theirs, t.others)
  <2>1. s.users \in [Paths -> Nat \cup {None}] /\ s.theirs \in [Paths -> SUBSET Keys] /\ s.others \in SUBSET Paths
    BY <1>0 DEF Typed
  <2>2. Typed([s.disk EXCEPT ![p] = g], t.backups, t.taken, s.users, s.theirs, s.others)
    <3> DEFINE d == s.disk
               B == s.backups
               tk == s.taken
               us == s.users
               th == s.theirs
               ot == s.others
               A == t.backups
               t2 == t.taken
    <3>1. Typed(d, B, tk, us, th, ot) /\ us \in [Paths -> Nat \cup {None}] /\ th \in [Paths -> SUBSET Keys] /\ ot \in SUBSET Paths
          /\ t2 \in Nat /\ tk <= t2
          /\ (\A b \in A : b \in B \/ /\ b.id = tk + 1 /\ b.id <= t2 /\ b.path = p /\ b.content = d[p] /\ d[p] # None
                                      /\ p = "rule" => d[p] # TheRule)
          /\ \A b1, b2 \in A : (b1 \notin B /\ b2 \notin B) => b1 = b2
      BY <2>1, <1>0 DEF CopiedAtMost
    <3> HIDE DEF d, B, tk, us, th, ot, A, t2
    <3>2. Typed([d EXCEPT ![p] = g], A, t2, us, th, ot)
      BY <3>1, TypedOne
    <3> QED BY <3>2 DEF d, A, t2, us, th, ot
  <2> QED BY <2>2, <1>1
<1>13. \A c \in Entries(t) : EntryOk(c, t.backups, t.taken)
  <2>1. \A c \in Entries(s) : EntryOk(c, t.backups, t.taken)
    <3> SUFFICES ASSUME NEW c \in Entries(s) PROVE EntryOk(c, t.backups, t.taken)
      OBVIOUS
    <3>1. EntryOk(c, s.backups, s.taken) /\ s.taken \in Nat
      BY <1>0 DEF CoreOf, Core, Typed
    <3>2. t.taken \in Nat /\ s.taken <= t.taken
      BY DEF CopiedAtMost
    <3>3. \A b \in t.backups : b \in s.backups \/ b.id \notin 1..s.taken
      BY <3>1 DEF CopiedAtMost
    <3>4. \A b \in t.backups : b.id \in Nat
      BY <1>12 DEF Typed
    <3> QED BY ONLY <3>1, <3>2, <3>3, <3>4, EntriesStay
  <2>2. ASSUME NEW i \in DOMAIN M  PROVE EntryOk(M[i], t.backups, t.taken)
    BY <2>1 DEF Entries
  <2> QED BY <2>1, <2>2, <1>1 DEF Entries
<1>14. p \in Paths \ Settled => PathIn(t, p)
  BY <1>1, <1>4, <1>11 DEF PathIn
<1>15. \A q \in (Paths \ Settled) \ {p} :
         /\ SamePath(s, t, q) /\ OnPath(Pending(t), q) = OnPath(Pending(s), q)
         /\ \A i \in OnPath(Pending(s), q) : Pending(t)[i] = Pending(s)[i]
  BY <1>7, <1>8, <1>11
<1>16. CoreOf(t)
  BY ONLY <1>0, <1>1, <1>12, <1>13, <1>14, <1>15, OnePath
<1> QED BY <1>0, <1>1, <1>6, <1>10, <1>16 DEF Inv, Records

\* The copies after one backup.
LEMMA CopiesAre ==
  ASSUME NEW s, Inv(s), NEW p \in Paths
  PROVE  /\ CopiedAtMost(s, s.backups, s.taken, p)
         /\ (p = "rule" => s.disk[p] # TheRule) => CopiedAtMost(s, Backup(s, p).backups, Backup(s, p).taken, p)
<1>0. Shape(s) /\ Typed(s.disk, s.backups, s.taken, s.users, s.theirs, s.others) /\ s.taken \in Nat
  BY DEF Inv, CoreOf, Core, Typed
<1>1. CopiedAtMost(s, s.backups, s.taken, p)
  BY <1>0 DEF CopiedAtMost
<1> DEFINE b == Backup(s, p)
<1>2. /\ b.taken \in Nat /\ s.taken <= b.taken
      /\ \A x \in b.backups : x \in s.backups \/ /\ x.id = s.taken + 1 /\ x.id <= b.taken /\ x.path = p
                                                 /\ x.content = s.disk[p] /\ s.disk[p] # None
      /\ \A x, y \in b.backups : (x \notin s.backups /\ y \notin s.backups) => x = y
      /\ \A q : q # p => Saved(b.backups, q) = Saved(s.backups, q)
  BY <1>0, Copied
<1> HIDE DEF b
<1>3. ASSUME p = "rule" => s.disk[p] # TheRule  PROVE CopiedAtMost(s, b.backups, b.taken, p)
  BY <1>2, <1>3 DEF CopiedAtMost
<1> QED BY <1>1, <1>3 DEF b

\* A state with its files, copies and program replaced.
LEMMA StateWith ==
  ASSUME NEW s, Shape(s), NEW d, NEW B, NEW taken, NEW proc
  PROVE  With(s, d, B, taken, proc) =
           [disk |-> d, asked |-> s.asked, manifest |-> s.manifest, backups |-> B, taken |-> taken,
            proc |-> proc, runs |-> s.runs, edits |-> s.edits, users |-> s.users, theirs |-> s.theirs,
            others |-> s.others, unrecorded |-> s.unrecorded, halfUndone |-> s.halfUndone]
<1> DEFINE r == With(s, d, B, taken, proc)
<1>0. r = [s EXCEPT !.disk = d, !.backups = B, !.taken = taken, !.proc = proc]
  BY DEF With
<1> HIDE DEF r
<1>1. /\ r.disk = d /\ r.asked = s.asked /\ r.manifest = s.manifest /\ r.backups = B /\ r.taken = taken /\ r.proc = proc
      /\ r.runs = s.runs /\ r.edits = s.edits /\ r.users = s.users /\ r.theirs = s.theirs /\ r.others = s.others
      /\ r.unrecorded = s.unrecorded /\ r.halfUndone = s.halfUndone
  BY <1>0 DEF Shape
<1>2. r = [disk |-> r.disk, asked |-> r.asked, manifest |-> r.manifest, backups |-> r.backups, taken |-> r.taken,
           proc |-> r.proc, runs |-> r.runs, edits |-> r.edits, users |-> r.users, theirs |-> r.theirs,
           others |-> r.others, unrecorded |-> r.unrecorded, halfUndone |-> r.halfUndone]
  BY <1>0 DEF Shape
<1> QED BY <1>1, <1>2 DEF r

\* An edit of configure outside the files it records per file.
LEMMA EditElsewhere ==
  ASSUME NEW s, Inv(s), s.proc.op = "configure", ~s.proc.a.dry, NEW step, GoodStep(step, s.proc.h),
         step.how \in {"skill", "cli", "config"}, NEW g, IsFile(g)
  PROVE  Inv(Edit(s, step, g))
<1> DEFINE p == step.path
           t == Edit(s, step, g)
           b == Backup(s, p)
<1>0. Shape(s) /\ Configuring(s) /\ Typed(s.disk, s.backups, s.taken, s.users, s.theirs, s.others) /\ s.taken \in Nat /\ CoreOf(s)
  BY DEF Inv, ProcOk, CoreOf, Core, Typed
<1>p. /\ step.how \in {"skill", "cli"} => p \in Settled
      /\ step.how = "config" => p \in InstallerFiles
      /\ p \in Paths /\ p \notin Watched
  <2>1. (step.how \in {"skill", "cli"} => p \in Settled) /\ (step.how = "config" => p \in InstallerFiles)
    BY DEF GoodStep, Settled
  <2> HIDE DEF p
  <2> QED BY <2>1, PathKinds DEF Paths
<1>1. p # "rule" /\ Formed(p, g)
  BY <1>p DEF Watched, Forms, Formed
<1>2. CopiedAtMost(s, s.backups, s.taken, p) /\ CopiedAtMost(s, b.backups, b.taken, p)
  BY <1>p, <1>1, CopiesAre
<1>3. /\ b = [s EXCEPT !.taken = b.taken, !.backups = b.backups] /\ s.backups \subseteq b.backups
      /\ b.taken \in Nat /\ b.taken = IF s.disk[p] = None THEN s.taken ELSE s.taken + 1
      /\ IF s.disk[p] = None THEN Saved(b.backups, p) = Saved(s.backups, p)
         ELSE Saved(b.backups, p) = Saved(s.backups, p) \cup {CopyNow(s, p)}
  <2>1. p \in Paths
    BY <1>p
  <2> HIDE DEF p
  <2>2. b = [s EXCEPT !.taken = b.taken, !.backups = b.backups] /\ s.backups \subseteq b.backups
    <3>1. b = [s EXCEPT !.taken = b.taken, !.backups = b.backups]
      BY ONLY <1>0, <2>1, Copied
    <3>2. s.backups \subseteq b.backups
      BY ONLY <1>0, <2>1, Copied
    <3> QED BY <3>1, <3>2
  <2>3. b.taken \in Nat
    BY <1>0, <2>1, Copied
  <2>4. b.taken = IF s.disk[p] = None THEN s.taken ELSE s.taken + 1
    BY <1>0, <2>1, Copied
  <2>5. s.disk[p] = None => Saved(b.backups, p) = Saved(s.backups, p)
    BY <1>0, <2>1, Copied
  <2>6. s.disk[p] # None => Saved(b.backups, p) = Saved(s.backups, p) \cup {CopyNow(s, p)}
    BY <1>0, <2>1, Copied
  <2> QED BY <2>2, <2>3, <2>4, <2>5, <2>6
<1>b. /\ b.disk = s.disk /\ b.asked = s.asked /\ b.users = s.users /\ b.theirs = s.theirs /\ b.others = s.others
      /\ b.halfUndone = s.halfUndone /\ b.unrecorded = s.unrecorded /\ b.manifest = s.manifest
      /\ b.runs = s.runs /\ b.edits = s.edits /\ b.proc = s.proc
      /\ b = [disk |-> s.disk, asked |-> s.asked, manifest |-> s.manifest, backups |-> b.backups, taken |-> b.taken,
              proc |-> s.proc, runs |-> s.runs, edits |-> s.edits, users |-> s.users, theirs |-> s.theirs,
              others |-> s.others, unrecorded |-> s.unrecorded, halfUndone |-> s.halfUndone]
  <2> HIDE DEF b
  <2> QED BY <1>0, <1>3 DEF Shape
<1>4. p \notin s.proc.open
  BY <1>0, <1>p DEF Configuring, Opening
<1>5. IsList(s.proc.changes)
  BY <1>0 DEF Shape
<1>6. ASSUME NEW A, NEW taken \in Nat, CopiedAtMost(s, A, taken, p), NEW kind \in {"dir", "cli"}, p \in Settled,
             kind = "dir" /\ s.disk[p] # None => taken = s.taken + 1
      PROVE  EntryOk(Change(s, kind, p), A, taken) /\ Recording(s, Append(s.proc.changes, Change(s, kind, p)), p)
  <2> DEFINE c == Change(s, kind, p)
  <2>1. /\ c = [h |-> c.h, kind |-> c.kind, path |-> c.path, created |-> c.created, backup |-> c.backup, json |-> c.json, after |-> c.after]
        /\ c.kind = kind /\ c.path = p /\ c.json = {}
        /\ c.backup = IF s.disk[p] = None \/ kind = "cli" THEN None ELSE s.taken + 1
    BY DEF Change
  <2> HIDE DEF c
  <2>2. c.backup = None \/ c.backup \in 1..taken
    BY <2>1, <1>6, <1>0
  <2>3. \A x \in A : x.id = c.backup => x.path = c.path
    <3> SUFFICES ASSUME NEW x \in A, x.id = c.backup PROVE x.path = p
      BY <2>1
    <3>1. CASE x \in s.backups
      <4>1. x.id \in 1..s.taken
        BY <3>1, <1>0 DEF Typed
      <4> QED BY <4>1, <2>1, <1>0, NoneIsNoNumber
    <3>2. CASE x \notin s.backups
      BY <3>2, <1>6 DEF CopiedAtMost
    <3> QED BY <3>1, <3>2
  <2>4. EntryOk(c, A, taken)
    BY <2>1, <2>2, <2>3, <1>6, <1>p DEF EntryOk
  <2>5. Recording(s, Append(s.proc.changes, c), p)
    <3> DEFINE L == s.proc.changes
               M == Append(L, c)
    <3>1. /\ IsList(M) /\ Len(M) = Len(L) + 1 /\ DOMAIN M = 1..(Len(L) + 1) /\ M[Len(L) + 1] = c
          /\ \A i \in 1..Len(L) : M[i] = L[i]
      BY <1>5, ListAppend
    <3>2. DOMAIN L = 1..Len(L) /\ Len(L) \in Nat
      BY <1>5, ListIs
    <3> HIDE DEF M
    <3> QED BY <3>1, <3>2, <2>1 DEF Recording, M
  <2> QED BY <2>4, <2>5 DEF c
<1>8. CASE step.how = "cli"
  <2>1. t = [s EXCEPT !.disk[p] = g, !.proc.changes = Append(@, Change(s, "cli", p))]
    BY <1>8 DEF Edit
  <2>2. /\ Edited(s, t, p, g) /\ t.backups = s.backups /\ t.taken = s.taken /\ t.proc.open = s.proc.open
        /\ t.proc.changes = Append(s.proc.changes, Change(s, "cli", p))
    <3>1. t.backups = s.backups /\ t.taken = s.taken /\ t.disk = [s.disk EXCEPT ![p] = g]
      BY ONLY <2>1, <1>0 DEF Shape
    <3>2. t.proc = [s.proc EXCEPT !.changes = Append(@, Change(s, "cli", p))]
      BY ONLY <2>1, <1>0 DEF Shape
    <3>3. t = [disk |-> t.disk, asked |-> s.asked, manifest |-> s.manifest, backups |-> s.backups, taken |-> s.taken,
               proc |-> t.proc, runs |-> s.runs, edits |-> s.edits, users |-> s.users, theirs |-> s.theirs,
               others |-> s.others, unrecorded |-> s.unrecorded, halfUndone |-> s.halfUndone]
      BY ONLY <2>1, <1>0 DEF Shape
    <3> HIDE DEF t
    <3>4. t = With(s, [s.disk EXCEPT ![p] = g], t.backups, t.taken, t.proc)
      BY ONLY <1>0, <3>1, <3>3, StateWith
    <3>5. t.proc = [op |-> "configure", a |-> s.proc.a, hs |-> s.proc.hs, todo |-> s.proc.todo,
                    changes |-> t.proc.changes, h |-> s.proc.h, open |-> t.proc.open]
      BY <1>0, <3>2 DEF Shape
    <3>6. t.proc.open = s.proc.open /\ t.proc.changes = Append(s.proc.changes, Change(s, "cli", p))
      BY <1>0, <3>2 DEF Shape
    <3> QED BY <3>1, <3>4, <3>5, <3>6 DEF Edited
  <2> HIDE DEF t
  <2>3. p \in Settled /\ EntryOk(Change(s, "cli", p), t.backups, t.taken) /\ Recording(s, t.proc.changes, p)
    BY <1>0, <1>2, <1>6, <1>8, <1>p, <2>2
  <2>4. \A i \in DOMAIN t.proc.changes :
          (i \in DOMAIN s.proc.changes /\ t.proc.changes[i] = s.proc.changes[i]) \/ EntryOk(t.proc.changes[i], t.backups, t.taken)
    BY <1>5, <2>2, <2>3, ListAppend, ListIs
  <2>5. CopiedAtMost(s, t.backups, t.taken, p)
    BY <1>2, <2>2
  <2> QED BY <1>p, <1>1, <1>4, <2>2, <2>3, <2>4, <2>5, EditKeeps DEF t
<1>9. CASE step.how = "skill"
  <2>1. t = [b EXCEPT !.disk[p] = g, !.proc.changes = Append(@, Change(s, "dir", p))]
    BY <1>9 DEF Edit
  <2> HIDE DEF b
  <2>2. /\ Edited(s, t, p, g) /\ t.backups = b.backups /\ t.taken = b.taken /\ t.proc.open = s.proc.open
        /\ t.proc.changes = Append(s.proc.changes, Change(s, "dir", p))
    <3>1. /\ t.backups = b.backups /\ t.taken = b.taken /\ t.disk = [s.disk EXCEPT ![p] = g]
          /\ t = [disk |-> t.disk, asked |-> s.asked, manifest |-> s.manifest, backups |-> b.backups, taken |-> b.taken,
                  proc |-> t.proc, runs |-> s.runs, edits |-> s.edits, users |-> s.users, theirs |-> s.theirs,
                  others |-> s.others, unrecorded |-> s.unrecorded, halfUndone |-> s.halfUndone]
      <4>1. t.backups = b.backups /\ t.taken = b.taken /\ t.disk = [s.disk EXCEPT ![p] = g]
        BY ONLY <2>1, <1>b
      <4>2. t = [disk |-> t.disk, asked |-> s.asked, manifest |-> s.manifest, backups |-> b.backups, taken |-> b.taken,
                     proc |-> t.proc, runs |-> s.runs, edits |-> s.edits, users |-> s.users, theirs |-> s.theirs,
                     others |-> s.others, unrecorded |-> s.unrecorded, halfUndone |-> s.halfUndone]
        <5> HIDE DEF t
        <5>1. t.asked = s.asked /\ t.manifest = s.manifest /\ t.backups = b.backups /\ t.taken = b.taken /\ t.runs = s.runs
          BY ONLY <2>1, <1>b
        <5>2. /\ t.edits = s.edits /\ t.users = s.users /\ t.theirs = s.theirs /\ t.others = s.others
              /\ t.unrecorded = s.unrecorded /\ t.halfUndone = s.halfUndone
          BY ONLY <2>1, <1>b
        <5>3. t = [disk |-> t.disk, asked |-> t.asked, manifest |-> t.manifest, backups |-> t.backups, taken |-> t.taken,
                   proc |-> t.proc, runs |-> t.runs, edits |-> t.edits, users |-> t.users, theirs |-> t.theirs,
                   others |-> t.others, unrecorded |-> t.unrecorded, halfUndone |-> t.halfUndone]
          BY ONLY <2>1, <1>b
        <5> QED BY ONLY <5>1, <5>2, <5>3
      <4> QED BY <4>1, <4>2
    <3>2. t.proc = [s.proc EXCEPT !.changes = Append(@, Change(s, "dir", p))]
      BY <2>1, <1>b
    <3> HIDE DEF t
    <3>3. t = With(s, [s.disk EXCEPT ![p] = g], t.backups, t.taken, t.proc)
      BY ONLY <1>0, <3>1, StateWith
    <3>4. t.proc = [op |-> "configure", a |-> s.proc.a, hs |-> s.proc.hs, todo |-> s.proc.todo,
                    changes |-> t.proc.changes, h |-> s.proc.h, open |-> t.proc.open]
      BY <1>0, <3>2 DEF Shape
    <3>5. t.proc.open = s.proc.open /\ t.proc.changes = Append(s.proc.changes, Change(s, "dir", p))
      BY <1>0, <3>2 DEF Shape
    <3> QED BY <3>1, <3>3, <3>4, <3>5 DEF Edited
  <2> HIDE DEF t
  <2>3. p \in Settled /\ EntryOk(Change(s, "dir", p), t.backups, t.taken) /\ Recording(s, t.proc.changes, p)
    BY <1>0, <1>2, <1>3, <1>6, <1>9, <1>p, <2>2
  <2>4. \A i \in DOMAIN t.proc.changes :
          (i \in DOMAIN s.proc.changes /\ t.proc.changes[i] = s.proc.changes[i]) \/ EntryOk(t.proc.changes[i], t.backups, t.taken)
    BY <1>5, <2>2, <2>3, ListAppend, ListIs
  <2>5. CopiedAtMost(s, t.backups, t.taken, p)
    BY <1>2, <2>2
  <2> QED BY <1>p, <1>1, <1>4, <2>2, <2>3, <2>4, <2>5, EditKeeps DEF t
<1>10. CASE step.how = "config"
  <2>1. t = [b EXCEPT !.disk[p] = g]
    BY <1>10 DEF Edit
  <2> HIDE DEF b
  <2>2. /\ Edited(s, t, p, g) /\ t.backups = b.backups /\ t.taken = b.taken /\ t.proc.open = s.proc.open
        /\ t.proc.changes = s.proc.changes
    <3>1. /\ t.backups = b.backups /\ t.taken = b.taken /\ t.disk = [s.disk EXCEPT ![p] = g]
          /\ t = [disk |-> t.disk, asked |-> s.asked, manifest |-> s.manifest, backups |-> b.backups, taken |-> b.taken,
                  proc |-> t.proc, runs |-> s.runs, edits |-> s.edits, users |-> s.users, theirs |-> s.theirs,
                  others |-> s.others, unrecorded |-> s.unrecorded, halfUndone |-> s.halfUndone]
      BY <2>1, <1>b
    <3>2. t.proc = s.proc
      BY <2>1, <1>b
    <3> HIDE DEF t
    <3>3. t = With(s, [s.disk EXCEPT ![p] = g], t.backups, t.taken, t.proc)
      BY ONLY <1>0, <3>1, StateWith
    <3>4. t.proc = [op |-> "configure", a |-> s.proc.a, hs |-> s.proc.hs, todo |-> s.proc.todo,
                    changes |-> t.proc.changes, h |-> s.proc.h, open |-> t.proc.open]
      BY <1>0, <3>2 DEF Shape
    <3>5. t.proc.open = s.proc.open /\ t.proc.changes = s.proc.changes
      BY <1>0, <3>2 DEF Shape
    <3> QED BY <3>1, <3>3, <3>4, <3>5 DEF Edited
  <2> HIDE DEF t
  <2>3. p \in InstallerFiles /\ Recording(s, t.proc.changes, p)
    BY <1>5, <1>10, <1>p, <2>2, ListIs DEF Recording
  <2>4. CopiedAtMost(s, t.backups, t.taken, p)
    BY <1>2, <2>2
  <2>5. PathOk(p, g, Saved(t.backups, p), s.users[p], s.theirs[p], p \in s.others, t.proc.changes, s.halfUndone, s.unrecorded)
    <3> DEFINE f == s.disk[p]
               B == Saved(s.backups, p)
               A == Saved(t.backups, p)
               own == s.users[p]
               th == s.theirs[p]
               sh == p \in s.others
               L == s.proc.changes
               hf == s.halfUndone
               ur == s.unrecorded
    <3>1. PathIn(s, p) /\ Pending(s) = s.proc.changes
      <4>1. p \in Paths \ Settled
        BY <2>3, PathKinds
      <4>2. ProcOk(s)
        BY DEF Inv
      <4> QED BY <4>1, <4>2, <1>0, PendingIs DEF CoreOf, Core, PathIn
    <3>2. PathOk(p, f, B, own, th, sh, L, hf, ur) /\ sh \in BOOLEAN /\ hf \in BOOLEAN /\ ur \in BOOLEAN /\ th \in SUBSET Keys
      BY <3>1, <1>0, <1>p DEF PathIn, Shape, Typed
    <3>3. B \subseteq A /\ (f # None => \E x \in A : x.content = f)
      <4>1. CopyNow(s, p).content = s.disk[p]
        BY DEF CopyNow
      <4>2. t.backups = b.backups
        BY <2>2
      <4> HIDE DEF p
      <4> QED BY ONLY <1>3, <4>1, <4>2
    <3> HIDE DEF f, B, A, own, th, sh, L, hf, ur
    <3>4. PathOk(p, g, A, own, th, sh, L, hf, ur)
      BY <2>3, <3>2, <3>3, ConfigWritten
    <3> QED BY <3>4, <2>2 DEF A, own, th, sh, L, hf, ur
  <2> QED BY <1>p, <1>1, <1>4, <2>2, <2>3, <2>4, <2>5, EditKeeps DEF t
<1> QED BY <1>8, <1>9, <1>10

\* The record of a file takes another edit.
Completed(c, step, g) == [c EXCEPT !.after = g, !.json = IF step.how = "json" THEN @ \cup {step.key} ELSE @]
IsRecord(c) ==
  c = [h |-> c.h, kind |-> c.kind, path |-> c.path, created |-> c.created, backup |-> c.backup, json |-> c.json, after |-> c.after]

\* What Logged makes of a record.
LEMMA CompletedIs ==
  ASSUME NEW c, IsRecord(c), NEW step, NEW g
  PROVE  LET e == Completed(c, step, g)
         IN /\ IsRecord(e) /\ e.h = c.h /\ e.kind = c.kind /\ e.path = c.path /\ e.backup = c.backup /\ e.after = g
            /\ e.json = c.json \cup IF step.how = "json" THEN {step.key} ELSE {}
<1> DEFINE e == Completed(c, step, g)
<1>1. /\ e.h = c.h /\ e.kind = c.kind /\ e.path = c.path /\ e.created = c.created /\ e.backup = c.backup /\ e.after = g
      /\ e.json = IF step.how = "json" THEN c.json \cup {step.key} ELSE c.json
      /\ e = [h |-> e.h, kind |-> e.kind, path |-> e.path, created |-> e.created, backup |-> e.backup, json |-> e.json, after |-> e.after]
  <2>1. e = [c EXCEPT !.after = g, !.json = IF step.how = "json" THEN c.json \cup {step.key} ELSE c.json]
    BY DEF Completed, IsRecord
  <2> HIDE DEF e
  <2> QED BY <2>1 DEF IsRecord
<1> HIDE DEF e
<1>2. e.json = c.json \cup IF step.how = "json" THEN {step.key} ELSE {}
  BY <1>1
<1> QED BY <1>1, <1>2 DEF IsRecord, e

\* What Logged makes of a state.
LEMMA LoggedIs ==
  ASSUME NEW o, NEW step, NEW g, NEW L, NEW i \in DOMAIN L, IsRecord(L[i]),
         o = [disk |-> o.disk, asked |-> o.asked, manifest |-> o.manifest, backups |-> o.backups, taken |-> o.taken,
              proc |-> o.proc, runs |-> o.runs, edits |-> o.edits, users |-> o.users, theirs |-> o.theirs,
              others |-> o.others, unrecorded |-> o.unrecorded, halfUndone |-> o.halfUndone],
         o.proc = [op |-> o.proc.op, a |-> o.proc.a, hs |-> o.proc.hs, todo |-> o.proc.todo, changes |-> L,
                   h |-> o.proc.h, open |-> o.proc.open],
         LastOn(L, step.path) = i
  PROVE  LET t == Logged(o, step, g)
         IN /\ t = [disk |-> [o.disk EXCEPT ![step.path] = g], asked |-> o.asked, manifest |-> o.manifest, backups |-> o.backups,
                    taken |-> o.taken, proc |-> t.proc, runs |-> o.runs, edits |-> o.edits, users |-> o.users, theirs |-> o.theirs,
                    others |-> o.others, unrecorded |-> o.unrecorded, halfUndone |-> o.halfUndone]
            /\ t.proc = [op |-> o.proc.op, a |-> o.proc.a, hs |-> o.proc.hs, todo |-> o.proc.todo,
                         changes |-> [L EXCEPT ![i] = Completed(L[i], step, g)], h |-> o.proc.h, open |-> o.proc.open]
<1> DEFINE t == Logged(o, step, g)
<1>1. o.proc.changes = L
  OBVIOUS
<1>2. t = [o EXCEPT !.disk[step.path] = g, !.proc.changes[i].after = g,
                    !.proc.changes[i].json = IF step.how = "json" THEN @ \cup {step.key} ELSE @]
  BY <1>1 DEF Logged, LastOn
<1> HIDE DEF t
<1>3. /\ t.disk = [o.disk EXCEPT ![step.path] = g] /\ t.asked = o.asked /\ t.manifest = o.manifest /\ t.backups = o.backups
      /\ t.taken = o.taken /\ t.runs = o.runs /\ t.edits = o.edits /\ t.users = o.users /\ t.theirs = o.theirs
      /\ t.others = o.others /\ t.unrecorded = o.unrecorded /\ t.halfUndone = o.halfUndone
      /\ t = [disk |-> t.disk, asked |-> t.asked, manifest |-> t.manifest, backups |-> t.backups, taken |-> t.taken,
              proc |-> t.proc, runs |-> t.runs, edits |-> t.edits, users |-> t.users, theirs |-> t.theirs,
              others |-> t.others, unrecorded |-> t.unrecorded, halfUndone |-> t.halfUndone]
  <2> HIDE DEF t
  <2>a. o = [disk |-> o.disk, asked |-> o.asked, manifest |-> o.manifest, backups |-> o.backups, taken |-> o.taken,
             proc |-> o.proc, runs |-> o.runs, edits |-> o.edits, users |-> o.users, theirs |-> o.theirs,
             others |-> o.others, unrecorded |-> o.unrecorded, halfUndone |-> o.halfUndone]
    OBVIOUS
  <2>1. t.disk = [o.disk EXCEPT ![step.path] = g]
    BY ONLY <1>2, <2>a
  <2>2. t.asked = o.asked /\ t.manifest = o.manifest /\ t.backups = o.backups /\ t.taken = o.taken
    BY ONLY <1>2, <2>a
  <2>3. /\ t.runs = o.runs /\ t.edits = o.edits /\ t.users = o.users /\ t.theirs = o.theirs
        /\ t.others = o.others /\ t.unrecorded = o.unrecorded /\ t.halfUndone = o.halfUndone
    BY ONLY <1>2, <2>a
  <2>4. t = [disk |-> t.disk, asked |-> t.asked, manifest |-> t.manifest, backups |-> t.backups, taken |-> t.taken,
             proc |-> t.proc, runs |-> t.runs, edits |-> t.edits, users |-> t.users, theirs |-> t.theirs,
             others |-> t.others, unrecorded |-> t.unrecorded, halfUndone |-> t.halfUndone]
    BY ONLY <1>2, <2>a
  <2> QED BY <2>1, <2>2, <2>3, <2>4
<1>4. t.proc = [[o.proc EXCEPT !.changes[i].after = g] EXCEPT
                   !.changes[i].json = IF step.how = "json" THEN @ \cup {step.key} ELSE @]
  <2>1. "proc" \in DOMAIN o
    OBVIOUS
  <2> QED BY ONLY <1>2, <2>1
<1>5. t.proc = [o.proc EXCEPT !.changes = t.proc.changes]
  BY <1>4
<1>6. t.proc.changes = [[L EXCEPT ![i].after = g] EXCEPT ![i].json = IF step.how = "json" THEN @ \cup {step.key} ELSE @]
  BY <1>4, <1>1
<1>7. t.proc.changes = [L EXCEPT ![i] = Completed(L[i], step, g)]
  BY <1>6 DEF Completed, IsRecord
<1>8. t.proc = [op |-> o.proc.op, a |-> o.proc.a, hs |-> o.proc.hs, todo |-> o.proc.todo,
                changes |-> t.proc.changes, h |-> o.proc.h, open |-> o.proc.open]
  BY <1>5
<1> QED BY <1>3, <1>7, <1>8 DEF t

\* A step that edits a file of an agent.
FileEdit(p, h, f, g, key, json) ==
  /\ p \in Watched /\ p \in Paths \ Settled /\ Owner(p) = h /\ IsFile(g) /\ Formed(p, g) /\ g # None
  /\ json = {} \/ json = {key}
  /\ p \notin JsonFiles => json = {}
  /\ PutIn(p, f, g, key, json) \/ (p = "rule" /\ g = TheRule /\ f # TheRule /\ json = {})

\* A step of configure on a file users edit, in the terms of one path.
LEMMA FileStep ==
  ASSUME NEW step, NEW h, GoodStep(step, h), step.how \in {"json", "toml", "yaml", "file"}, NEW a, a.value \in Ours,
         NEW f, f = None \/ (IsFile(f) /\ Formed(step.path, f)), Attempt(Read(f), step, a).out = "written"
  PROVE  FileEdit(step.path, h, f, Attempt(Read(f), step, a).file, step.key, IF step.how = "json" THEN {step.key} ELSE {})
<1> DEFINE g == Attempt(Read(f), step, a).file
           p == step.path
           json == IF step.how = "json" THEN {step.key} ELSE {}
<1>1. /\ p \in Watched /\ Owner(p) = h /\ (p \notin JsonFiles => json = {}) /\ (json = {} \/ json = {step.key})
      /\ step.how = "file" => p = "rule" /\ json = {}
  BY PathKinds DEF GoodStep, Owner, Watched, Forms
<1>2. p \in Paths \ Settled
  BY <1>1, PathKinds
<1>3. CASE step.how = "file"
  <2>1. g = TheRule /\ f # TheRule
    BY <1>3, AttemptRule
  <2>2. IsFile(TheRule) /\ Formed("rule", TheRule)
    <3>1. TheRule \in FilesSaying(None) /\ TheRule.says = None /\ TheRule.marks = {}
      BY DEF TheRule, FilesSaying, Blank, Keys, Ours
    <3>2. IsFile(TheRule)
      BY <3>1, HomesFound DEF IsFile
    <3> QED BY <3>1, <3>2, RuleFacts DEF Formed
  <2> HIDE DEF g, p, json
  <2>3. FileEdit(p, h, f, g, step.key, json)
    BY <1>1, <1>2, <1>3, <2>1, <2>2, RuleFacts DEF FileEdit
  <2> QED BY <2>3 DEF g, p, json
<1>4. CASE step.how # "file"
  <2>1. PutIn(p, f, g, step.key, json)
    BY <1>4, AttemptPuts
  <2>2. IsFile(g) /\ Formed(p, g)
    BY <2>1 DEF PutIn
  <2>3. g # None
    BY <2>2, FileThere
  <2> HIDE DEF g, p, json
  <2>4. FileEdit(p, h, f, g, step.key, json)
    BY <1>1, <1>2, <2>1, <2>2, <2>3 DEF FileEdit
  <2> QED BY <2>4 DEF g, p, json
<1> QED BY <1>3, <1>4

\* The record made of it is in order.
LEMMA FirstRecord ==
  ASSUME NEW p, NEW h, NEW f, NEW g, NEW key, NEW json, FileEdit(p, h, f, g, key, json), NEW t \in Nat, NEW B, NEW A, NEW t2 \in Nat,
         \A b \in B : b.id \in 1..t, f # None => t2 = t + 1,
         \A b \in A : b \in B \/ (b.id = t + 1 /\ b.path = p /\ b.content = f),
         NEW c, IsRecord(c), c.h = h, c.kind = "file", c.path = p, c.after = g, c.json = json,
         c.backup = IF f = None THEN None ELSE t + 1
  PROVE  EntryOk(c, A, t2)
<1>0. None \notin Nat /\ p \in Paths /\ p \in Watched
  BY NoneIsNoNumber DEF FileEdit
<1>1. c.backup = None \/ c.backup \in 1..t2
  BY <1>0
<1>2. ASSUME NEW b \in A, b.id = c.backup  PROVE b.path = p /\ b.content = f /\ f # None
  BY <1>0, <1>2
<1>3. c.json \subseteq Keys
  <2>1. PutIn(p, f, g, key, json) => key \in Keys
    BY PathKinds DEF PutIn
  <2> QED BY <2>1 DEF FileEdit
<1>4. p = "rule" => g = TheRule
  BY PathKinds DEF FileEdit, PutIn
<1>5. ASSUME p \in Forms
      PROVE  /\ HasOurs(g) /\ g.plain /\ \A n \in json : g.at[n] \in Ours
             /\ f = None => (g.text = 0 /\ \A n \in Keys : g.at[n] # "theirs")
             /\ f # None => (f.text = g.text /\ \A n \in Keys : g.at[n] = "theirs" => f.at[n] = "theirs")
  <2>1. PutIn(p, f, g, key, json)
    BY <1>5, PathKinds DEF FileEdit
  <2> QED BY <2>1, PathKinds DEF PutIn, HasOurs, Ours
<1>6. IsFile(g) /\ Formed(p, g) /\ Owner(p) = h /\ (p \notin JsonFiles => json = {})
  BY DEF FileEdit
<1>7. p \in Forms => /\ HasOurs(c.after) /\ c.after.plain
                     /\ \A n \in c.json : c.after.at[n] \in Ours
                     /\ c.backup = None => (c.after.text = 0 /\ \A n \in Keys : c.after.at[n] # "theirs")
                     /\ \A b \in A : b.id = c.backup =>
                          /\ b.content.text = c.after.text
                          /\ \A n \in Keys : c.after.at[n] = "theirs" => b.content.at[n] = "theirs"
  <2>1. c.backup = None => f = None
    BY <1>0
  <2> QED BY <2>1, <1>2, <1>5
<1> QED BY <1>0, <1>1, <1>2, <1>3, <1>4, <1>6, <1>7 DEF EntryOk, IsRecord

\* A record stays in order when a further entry is put into its file.
LEMMA LaterRecord ==
  ASSUME NEW p \in Forms, NEW f, NEW g, NEW key, NEW json, PutIn(p, f, g, key, json), p \notin JsonFiles => json = {},
         NEW B, NEW t, NEW c, EntryOk(c, B, t), c.path = p, c.after = f, f # None,
         NEW e, IsRecord(e), e.h = c.h, e.kind = c.kind, e.path = p, e.backup = c.backup, e.after = g, e.json = c.json \cup json
  PROVE  EntryOk(e, B, t)
<1>0. p \in Watched /\ c.kind = "file" /\ key \in Keys /\ key \in Names
  BY PathKinds DEF EntryOk, PutIn
<1>1. /\ IsFile(g) /\ Formed(p, g) /\ g.plain /\ HasOurs(g) /\ g.text = f.text
      /\ \A n \in Keys \ {key} : g.at[n] = f.at[n]
      /\ g.at[key] \in Ours /\ json \subseteq {key}
  BY <1>0 DEF PutIn, HasOurs
<1>2. \A n \in Keys : g.at[n] = "theirs" => f.at[n] = "theirs"
  BY <1>1 DEF Ours
<1>3. /\ c.backup = None \/ c.backup \in 1..t
      /\ c.path \in Paths /\ c.json \subseteq Keys /\ (\A b \in B : b.id = c.backup => b.path = c.path)
      /\ c.h = Owner(c.path) /\ (p \notin JsonFiles => c.json = {}) /\ \A n \in c.json : f.at[n] \in Ours
      /\ c.backup = None => (f.text = 0 /\ \A n \in Keys : f.at[n] # "theirs")
      /\ \A b \in B : b.id = c.backup =>
           b.content.text = f.text /\ \A n \in Keys : f.at[n] = "theirs" => b.content.at[n] = "theirs"
  BY <1>0 DEF EntryOk
<1>4. \A n \in e.json : g.at[n] \in Ours
  BY <1>1, <1>3
<1>5. p # "rule" /\ e.json \subseteq Keys /\ (p \notin JsonFiles => e.json = {})
  BY <1>0, <1>1, <1>3, PathKinds
<1>6. \A b \in B : b.id = e.backup =>
        b.content.text = g.text /\ \A n \in Keys : g.at[n] = "theirs" => b.content.at[n] = "theirs"
  BY <1>1, <1>2, <1>3
<1>7. e.backup = None => (g.text = 0 /\ \A n \in Keys : g.at[n] # "theirs")
  BY <1>1, <1>2, <1>3
<1> QED BY <1>0, <1>1, <1>3, <1>4, <1>5, <1>6, <1>7 DEF EntryOk, IsRecord

\* A run of configure at a file it edits.
AtFile(s, p) ==
  /\ Shape(s) /\ Configuring(s) /\ CoreOf(s) /\ s.taken \in Nat /\ p \in Paths
  /\ Typed(s.disk, s.backups, s.taken, s.users, s.theirs, s.others)
  /\ IsList(s.proc.changes) /\ IsList(s.manifest)
  /\ \A i \in DOMAIN s.proc.changes : EntryOk(s.proc.changes[i], s.backups, s.taken)
  /\ s.users[p] \in Nat \cup {None} /\ s.theirs[p] \in SUBSET Keys /\ (p \in s.others) \in BOOLEAN
  /\ s.halfUndone \in BOOLEAN /\ s.unrecorded \in BOOLEAN
  /\ PathOk(p, s.disk[p], Saved(s.backups, p), s.users[p], s.theirs[p], p \in s.others, s.proc.changes, s.halfUndone, s.unrecorded)

\* What the invariant says of one path while configure runs.
LEMMA AtFileIs ==
  ASSUME NEW s, Inv(s), s.proc.op = "configure", NEW p \in Paths \ Settled
  PROVE  AtFile(s, p)
<1>1. Shape(s) /\ ProcOk(s) /\ Configuring(s) /\ CoreOf(s) /\ s.taken \in Nat
      /\ Typed(s.disk, s.backups, s.taken, s.users, s.theirs, s.others)
  BY DEF Inv, ProcOk, CoreOf, Core, Typed
<1>2. /\ IsList(s.proc.changes) /\ IsList(s.manifest) /\ s.halfUndone \in BOOLEAN /\ s.unrecorded \in BOOLEAN
      /\ s.users[p] \in Nat \cup {None} /\ s.theirs[p] \in SUBSET Keys /\ (p \in s.others) \in BOOLEAN
  BY <1>1 DEF Shape, Typed
<1>3. \A i \in DOMAIN s.proc.changes : EntryOk(s.proc.changes[i], s.backups, s.taken)
  BY <1>1 DEF CoreOf, Core, Entries
<1>4. PathOk(p, s.disk[p], Saved(s.backups, p), s.users[p], s.theirs[p], p \in s.others, s.proc.changes, s.halfUndone, s.unrecorded)
  <2>1. Pending(s) = s.proc.changes
    BY <1>1, PendingIs
  <2> QED BY <1>1, <2>1 DEF CoreOf, Core
<1> QED BY <1>1, <1>2, <1>3, <1>4 DEF AtFile

EditsFile(s, step, g) ==
  /\ step.how \in {"json", "toml", "yaml", "file"}
  /\ FileEdit(step.path, s.proc.h, s.disk[step.path], g, step.key, IF step.how = "json" THEN {step.key} ELSE {})

\* A further edit of a file keeps the invariant.
LEMMA EditAgain ==
  ASSUME NEW s, Inv(s), s.proc.op = "configure", ~s.proc.a.dry, NEW step, NEW g,
         EditsFile(s, step, g),
         step.path \in s.proc.open
  PROVE  Inv(Edit(s, step, g))
<1> DEFINE p == step.path
           t == Edit(s, step, g)
           json == IF step.how = "json" THEN {step.key} ELSE {}
           f == s.disk[p]
           B == Saved(s.backups, p)
           own == s.users[p]
           th == s.theirs[p]
           sh == p \in s.others
           L == s.proc.changes
           hf == s.halfUndone
           ur == s.unrecorded
           low == Len(s.manifest)
<1>e. step.how \in {"json", "toml", "yaml", "file"} /\ FileEdit(p, s.proc.h, f, g, step.key, json)
  BY DEF EditsFile
<1>1. p \in Paths \ Settled /\ p \in Paths
  BY <1>e DEF FileEdit
<1>2. AtFile(s, p)
  BY <1>1, AtFileIs
<1>3. t = Logged(s, step, g)
  BY <1>e DEF Edit, Opened
<1>4. Opening(p, f, B, own, th, L, low, hf)
  BY <1>2 DEF AtFile, Configuring
<1>5. PICK i \in OnPath(L, p) : i > low /\ Latest(OnPath(L, p), i) /\ L[i].after = f
  BY <1>4 DEF Opening
<1>6. /\ i \in DOMAIN L /\ L[i].path = p /\ f # None /\ IsList(L) /\ EntryOk(L[i], s.backups, s.taken) /\ low \in Nat
      /\ OnPath(L, p) \subseteq Int
  <2>1. i \in DOMAIN L /\ L[i].path = p
    BY <1>5 DEF OnPath
  <2>2. f # None
    BY <1>4 DEF Opening
  <2>3. IsList(L) /\ IsList(s.manifest) /\ EntryOk(L[i], s.backups, s.taken)
    BY <1>2, <2>1 DEF AtFile
  <2> HIDE DEF L, p, f
  <2> QED BY <2>1, <2>2, <2>3, ListIs, OnList
<1>7. p \in Watched /\ p \in Forms /\ PutIn(p, f, g, step.key, json) /\ HasOurs(f) /\ g # None
  <2>1. p \in Watched /\ g # None
    BY <1>e DEF FileEdit
  <2> HIDE DEF p, f, L, json
  <2>2. L[i].kind = "file"
    BY <1>6, <2>1, RecordIs
  <2>3. p # "rule"
    <3> SUFFICES ASSUME p = "rule" PROVE FALSE
      OBVIOUS
    <3>1. L[i].after = TheRule
      BY <1>6, <2>2 DEF EntryOk
    <3>2. f # TheRule
      BY <1>e, PathKinds DEF FileEdit, PutIn
    <3> QED BY <3>1, <3>2, <1>5
  <2>4. p \in Forms
    BY <2>1, <2>3 DEF Watched
  <2> QED BY <2>1, <2>2, <2>3, <2>4, <1>e, <1>5, <1>6 DEF EntryOk, FileEdit
<1> DEFINE e == Completed(L[i], step, g)
           M == [L EXCEPT ![i] = e]
<1>8. /\ IsRecord(e) /\ e.h = L[i].h /\ e.kind = L[i].kind /\ e.path = p /\ e.backup = L[i].backup /\ e.after = g
      /\ e.json = L[i].json \cup json
  <2>1. IsRecord(L[i])
    BY <1>6 DEF EntryOk, IsRecord
  <2> HIDE DEF L
  <2> QED BY ONLY <2>1, <1>6, CompletedIs
<1>9. EntryOk(e, s.backups, s.taken)
  <2>1. p \notin JsonFiles => json = {}
    BY <1>e DEF FileEdit
  <2>2. L[i].after = f
    BY <1>5
  <2> HIDE DEF e, L, json, f, p
  <2> QED BY ONLY <2>1, <2>2, <1>6, <1>7, <1>8, LaterRecord
<1>10. /\ IsList(M) /\ Len(M) = Len(L) /\ DOMAIN M = DOMAIN L /\ M[i] = e /\ \A j \in DOMAIN L \ {i} : M[j] = L[j]
       /\ Len(L) \in Nat
  <2> HIDE DEF e, L
  <2> QED BY <1>6, ListExcept, ListIs
<1>11. /\ t.disk = [s.disk EXCEPT ![p] = g] /\ t.backups = s.backups /\ t.taken = s.taken
       /\ t = [disk |-> [s.disk EXCEPT ![p] = g], asked |-> s.asked, manifest |-> s.manifest, backups |-> s.backups, taken |-> s.taken,
               proc |-> t.proc, runs |-> s.runs, edits |-> s.edits, users |-> s.users, theirs |-> s.theirs,
               others |-> s.others, unrecorded |-> s.unrecorded, halfUndone |-> s.halfUndone]
       /\ t.proc = [op |-> s.proc.op, a |-> s.proc.a, hs |-> s.proc.hs, todo |-> s.proc.todo, changes |-> M,
                    h |-> s.proc.h, open |-> s.proc.open]
  <2>1. LastOn(L, step.path) = i
    <3> HIDE DEF L
    <3> QED BY <1>5, <1>6, LastIs
  <2>2. IsRecord(L[i])
    BY <1>6 DEF EntryOk, IsRecord
  <2>3. /\ s = [disk |-> s.disk, asked |-> s.asked, manifest |-> s.manifest, backups |-> s.backups, taken |-> s.taken,
                proc |-> s.proc, runs |-> s.runs, edits |-> s.edits, users |-> s.users, theirs |-> s.theirs,
                others |-> s.others, unrecorded |-> s.unrecorded, halfUndone |-> s.halfUndone]
        /\ s.proc = [op |-> s.proc.op, a |-> s.proc.a, hs |-> s.proc.hs, todo |-> s.proc.todo, changes |-> L,
                     h |-> s.proc.h, open |-> s.proc.open]
    BY <1>2 DEF AtFile, Shape
  <2>4. /\ t = [disk |-> [s.disk EXCEPT ![p] = g], asked |-> s.asked, manifest |-> s.manifest, backups |-> s.backups, taken |-> s.taken,
               proc |-> t.proc, runs |-> s.runs, edits |-> s.edits, users |-> s.users, theirs |-> s.theirs,
               others |-> s.others, unrecorded |-> s.unrecorded, halfUndone |-> s.halfUndone]
        /\ t.proc = [op |-> s.proc.op, a |-> s.proc.a, hs |-> s.proc.hs, todo |-> s.proc.todo, changes |-> M,
                     h |-> s.proc.h, open |-> s.proc.open]
    <3>1. i \in DOMAIN L
      BY <1>6
    <3> HIDE DEF L
    <3>2. /\ Logged(s, step, g) = [disk |-> [s.disk EXCEPT ![step.path] = g], asked |-> s.asked, manifest |-> s.manifest,
               backups |-> s.backups, taken |-> s.taken,
               proc |-> Logged(s, step, g).proc, runs |-> s.runs, edits |-> s.edits, users |-> s.users, theirs |-> s.theirs,
               others |-> s.others, unrecorded |-> s.unrecorded, halfUndone |-> s.halfUndone]
          /\ Logged(s, step, g).proc = [op |-> s.proc.op, a |-> s.proc.a, hs |-> s.proc.hs, todo |-> s.proc.todo,
                    changes |-> [L EXCEPT ![i] = Completed(L[i], step, g)], h |-> s.proc.h, open |-> s.proc.open]
      BY ONLY <3>1, <2>1, <2>2, <2>3, LoggedIs
    <3> QED BY <3>2, <1>3
  <2> HIDE DEF t
  <2>5. t.disk = [s.disk EXCEPT ![p] = g] /\ t.backups = s.backups /\ t.taken = s.taken
    BY <2>4
  <2> QED BY <2>4, <2>5
<1> HIDE DEF t
<1>12. Edited(s, t, p, g) /\ t.proc.changes = M /\ t.proc.open = s.proc.open
  <2>1. Shape(s)
    BY <1>2 DEF AtFile
  <2> HIDE DEF M, p
  <2>2. t = With(s, [s.disk EXCEPT ![p] = g], t.backups, t.taken, t.proc)
    BY ONLY <2>1, <1>11, StateWith
  <2>3. t.proc.changes = M /\ t.proc.open = s.proc.open
    BY <1>11
  <2>4. t.proc = [op |-> "configure", a |-> s.proc.a, hs |-> s.proc.hs, todo |-> s.proc.todo,
                  changes |-> t.proc.changes, h |-> s.proc.h, open |-> t.proc.open]
    BY <1>11, <2>3
  <2> QED BY <2>2, <2>3, <2>4 DEF Edited
<1>13. CopiedAtMost(s, t.backups, t.taken, p)
  BY <1>1, <1>11, CopiesAre
<1> HIDE DEF M, e
<1>14. Recording(s, t.proc.changes, p)
  <2>1. i > low /\ L[i].path = p /\ M[i].path = p /\ DOMAIN L = DOMAIN M /\ Len(M) >= Len(L)
    BY <1>5, <1>6, <1>8, <1>10
  <2> QED BY <1>10, <1>12, <2>1 DEF Recording
<1>15. \A j \in DOMAIN t.proc.changes :
         (j \in DOMAIN L /\ t.proc.changes[j] = L[j]) \/ EntryOk(t.proc.changes[j], t.backups, t.taken)
  BY <1>9, <1>10, <1>11, <1>12
<1>16. /\ PathOk(p, g, B, own, th, sh, M, hf, ur)
       /\ Opening(p, g, B, own, th, M, low, hf)
  <2>1. /\ own \in Nat \cup {None} /\ th \in SUBSET Keys /\ sh \in BOOLEAN /\ hf \in BOOLEAN /\ ur \in BOOLEAN
        /\ PathOk(p, f, B, own, th, sh, L, hf, ur)
    BY <1>2 DEF AtFile
  <2>2. OnPath(M, p) = OnPath(L, p) /\ Latest(OnPath(L, p), i) /\ \A j \in OnPath(L, p) \ {i} : M[j] = L[j]
    BY <1>5, <1>6, <1>8, <1>10 DEF OnPath
  <2>3. M[i].after = g /\ M[i].backup = L[i].backup /\ M[i].json = L[i].json \cup json
    BY <1>8, <1>10
  <2> HIDE DEF f, B, own, th, sh, L, hf, ur, low, json, p
  <2>4. LaterBy(p, f, g, step.key, json, L, M, i) /\ low \in Nat
    BY <1>6, <1>7, <2>2, <2>3 DEF LaterBy
  <2> QED BY ONLY <2>1, <2>4, <1>4, LaterEdit
<1>17. IsFile(g) /\ Formed(p, g)
  BY <1>e DEF FileEdit
<1>18. /\ PathOk(p, g, Saved(t.backups, p), s.users[p], s.theirs[p], p \in s.others, t.proc.changes, s.halfUndone, s.unrecorded)
       /\ Opening(p, g, Saved(t.backups, p), s.users[p], s.theirs[p], t.proc.changes, Len(s.manifest), s.halfUndone)
  BY <1>11, <1>12, <1>16 DEF B, own, th, sh, hf, ur, low
<1> HIDE DEF p, L
<1>19. Inv(t)
  BY <1>1, <1>12, <1>13, <1>14, <1>15, <1>17, <1>18, EditKeeps DEF L
<1> QED BY <1>19 DEF t

\* The first edit of a file keeps the invariant.
LEMMA EditFirst ==
  ASSUME NEW s, Inv(s), s.proc.op = "configure", ~s.proc.a.dry, NEW step, NEW g,
         EditsFile(s, step, g),
         step.path \notin s.proc.open
  PROVE  Inv(Edit(s, step, g))
<1> DEFINE p == step.path
           t == Edit(s, step, g)
           b == Backup(s, p)
           json == IF step.how = "json" THEN {step.key} ELSE {}
           f == s.disk[p]
           B == Saved(s.backups, p)
           A == Saved(b.backups, p)
           own == s.users[p]
           th == s.theirs[p]
           sh == p \in s.others
           L == s.proc.changes
           N == Len(L)
           hf == s.halfUndone
           ur == s.unrecorded
           low == Len(s.manifest)
           id == s.taken + 1
           c == Change(s, "file", p)
           e == Completed(c, step, g)
           M0 == Append(L, c)
           M == [M0 EXCEPT ![N + 1] = e]
           o == [b EXCEPT !.proc.open = @ \cup {p}, !.proc.changes = Append(@, c)]
<1>e. step.how \in {"json", "toml", "yaml", "file"} /\ FileEdit(p, s.proc.h, f, g, step.key, json)
  BY DEF EditsFile
<1>1. p \in Paths \ Settled /\ p \in Paths /\ IsFile(g) /\ Formed(p, g) /\ g # None
  BY <1>e DEF FileEdit
<1>2. AtFile(s, p)
  BY <1>1, AtFileIs
<1>3. t = Logged(o, step, g)
  BY <1>e DEF Edit, Opened
<1>4. /\ IsList(L) /\ N \in Nat /\ low \in Nat /\ low <= N /\ s.taken \in Nat
      /\ DOMAIN L = 1..N /\ OnPath(L, p) \subseteq 1..N /\ OnPath(L, p) \subseteq Int
  <2>1. IsList(L) /\ IsList(s.manifest) /\ s.taken \in Nat /\ low <= N
    BY <1>2 DEF AtFile, Configuring
  <2> HIDE DEF L, p
  <2> QED BY <2>1, ListIs, OnList
<1>5. /\ b = [s EXCEPT !.taken = b.taken, !.backups = b.backups] /\ s.backups \subseteq b.backups
      /\ b.taken \in Nat /\ b.taken = IF s.disk[p] = None THEN s.taken ELSE s.taken + 1
      /\ IF s.disk[p] = None THEN A = B ELSE A = B \cup {CopyNow(s, p)}
      /\ \A x \in b.backups : x \in s.backups \/ /\ x.id = s.taken + 1 /\ x.path = p
                                                 /\ x.content = s.disk[p] /\ s.disk[p] # None
  <2>1. p \in Paths /\ Shape(s) /\ Typed(s.disk, s.backups, s.taken, s.users, s.theirs, s.others)
    BY <1>1, <1>2 DEF AtFile
  <2> HIDE DEF p
  <2>2. b = [s EXCEPT !.taken = b.taken, !.backups = b.backups] /\ s.backups \subseteq b.backups
    <3>1. b = [s EXCEPT !.taken = b.taken, !.backups = b.backups]
      BY ONLY <2>1, Copied
    <3>2. s.backups \subseteq b.backups
      BY ONLY <2>1, Copied
    <3> QED BY <3>1, <3>2
  <2>3. b.taken \in Nat
    BY <2>1, Copied
  <2>4. s.backups \subseteq b.backups /\ b.taken = IF s.disk[p] = None THEN s.taken ELSE s.taken + 1
    BY ONLY <2>1, Copied
  <2>5. s.disk[p] = None => Saved(b.backups, p) = Saved(s.backups, p)
    BY <2>1, Copied
  <2>6. s.disk[p] # None => Saved(b.backups, p) = Saved(s.backups, p) \cup {CopyNow(s, p)}
    BY <2>1, Copied
  <2>7. \A x \in b.backups : x \in s.backups \/ /\ x.id = s.taken + 1 /\ x.path = p
                                                 /\ x.content = s.disk[p] /\ s.disk[p] # None
    <3>1. p = "rule" => s.disk[p] # TheRule
      BY <1>e, PathKinds DEF FileEdit, PutIn
    <3>2. CopiedAtMost(s, Backup(s, p).backups, Backup(s, p).taken, p)
      BY <2>1, <3>1, CopiesAre
    <3> HIDE DEF b
    <3>3. CopiedAtMost(s, b.backups, b.taken, p)
      BY <3>2 DEF b
    <3> QED BY <3>3 DEF CopiedAtMost
  <2> HIDE DEF b
  <2> QED BY <2>2, <2>3, <2>4, <2>5, <2>6, <2>7
<1>6. b = [disk |-> s.disk, asked |-> s.asked, manifest |-> s.manifest, backups |-> b.backups, taken |-> b.taken,
           proc |-> s.proc, runs |-> s.runs, edits |-> s.edits, users |-> s.users, theirs |-> s.theirs,
           others |-> s.others, unrecorded |-> s.unrecorded, halfUndone |-> s.halfUndone]
  <2> HIDE DEF b
  <2> QED BY <1>2, <1>5 DEF AtFile, Shape
<1>7. /\ o = [disk |-> s.disk, asked |-> s.asked, manifest |-> s.manifest, backups |-> b.backups, taken |-> b.taken,
              proc |-> o.proc, runs |-> s.runs, edits |-> s.edits, users |-> s.users, theirs |-> s.theirs,
              others |-> s.others, unrecorded |-> s.unrecorded, halfUndone |-> s.halfUndone]
      /\ o.proc = [op |-> s.proc.op, a |-> s.proc.a, hs |-> s.proc.hs, todo |-> s.proc.todo, changes |-> M0,
                   h |-> s.proc.h, open |-> s.proc.open \cup {p}]
  <2>1. s.proc = [op |-> s.proc.op, a |-> s.proc.a, hs |-> s.proc.hs, todo |-> s.proc.todo, changes |-> s.proc.changes,
                  h |-> s.proc.h, open |-> s.proc.open]
    BY <1>2 DEF AtFile, Shape
  <2> HIDE DEF b, c, p, M0
  <2>0. o = [b EXCEPT !.proc.open = @ \cup {p}, !.proc.changes = Append(@, c)]
    OBVIOUS
  <2> HIDE DEF o
  <2>2. /\ o.disk = b.disk /\ o.asked = b.asked /\ o.manifest = b.manifest /\ o.backups = b.backups /\ o.taken = b.taken
        /\ o.runs = b.runs /\ o.edits = b.edits /\ o.users = b.users /\ o.theirs = b.theirs
        /\ o.others = b.others /\ o.unrecorded = b.unrecorded /\ o.halfUndone = b.halfUndone
        /\ o = [disk |-> o.disk, asked |-> o.asked, manifest |-> o.manifest, backups |-> o.backups, taken |-> o.taken,
                proc |-> o.proc, runs |-> o.runs, edits |-> o.edits, users |-> o.users, theirs |-> o.theirs,
                others |-> o.others, unrecorded |-> o.unrecorded, halfUndone |-> o.halfUndone]
    BY <1>6, <2>0
  <2>3. o.proc = [[b.proc EXCEPT !.open = @ \cup {p}] EXCEPT !.changes = Append(@, c)]
    BY <1>6, <2>0
  <2>4. /\ b.disk = s.disk /\ b.asked = s.asked /\ b.manifest = s.manifest /\ b.proc = s.proc
        /\ b.runs = s.runs /\ b.edits = s.edits /\ b.users = s.users /\ b.theirs = s.theirs
        /\ b.others = s.others /\ b.unrecorded = s.unrecorded /\ b.halfUndone = s.halfUndone
    BY <1>6
  <2>5. o.proc = [[s.proc EXCEPT !.open = @ \cup {p}] EXCEPT !.changes = Append(@, c)]
    BY <2>3, <2>4
  <2>6. o.proc = [op |-> s.proc.op, a |-> s.proc.a, hs |-> s.proc.hs, todo |-> s.proc.todo, changes |-> M0,
                   h |-> s.proc.h, open |-> s.proc.open \cup {p}]
    BY <2>1, <2>5 DEF M0
  <2> QED BY <2>2, <2>4, <2>6
<1>8. IsRecord(c) /\ c.h = s.proc.h /\ c.kind = "file" /\ c.path = p /\ c.json = {} /\ c.backup = IF f = None THEN None ELSE id
  BY DEF Change, IsRecord
<1> HIDE DEF c
<1>9. IsRecord(e) /\ e.h = s.proc.h /\ e.kind = "file" /\ e.path = p /\ e.backup = c.backup /\ e.after = g /\ e.json = json
  <2>1. /\ IsRecord(e) /\ e.h = c.h /\ e.kind = c.kind /\ e.path = c.path /\ e.backup = c.backup /\ e.after = g
        /\ e.json = c.json \cup IF step.how = "json" THEN {step.key} ELSE {}
    <3>1. IsRecord(c)
      BY <1>8
    <3> QED BY ONLY <3>1, CompletedIs
  <2> HIDE DEF e
  <2> QED BY <1>8, <2>1
<1>10. /\ IsList(M0) /\ Len(M0) = N + 1 /\ DOMAIN M0 = 1..(N + 1) /\ M0[N + 1] = c /\ \A i \in 1..N : M0[i] = L[i]
  <2> HIDE DEF L
  <2> QED BY <1>4, ListAppend
<1> HIDE DEF M0, e
<1>11. /\ IsList(M) /\ Len(M) = N + 1 /\ DOMAIN M = 1..(N + 1) /\ M[N + 1] = e /\ \A i \in 1..N : M[i] = L[i]
  <2>1. N + 1 \in DOMAIN M0 /\ \A i \in 1..N : i \in DOMAIN M0 \ {N + 1}
    BY <1>4, <1>10
  <2> HIDE DEF N, L
  <2>2. IsList(M) /\ Len(M) = Len(M0) /\ DOMAIN M = DOMAIN M0 /\ M[N + 1] = e /\ \A j \in DOMAIN M0 \ {N + 1} : M[j] = M0[j]
    BY <1>10, <2>1, ListExcept
  <2> QED BY <1>10, <2>1, <2>2
<1>12. LastOn(M0, p) = N + 1
  <2> HIDE DEF N, L, p
  <2>1. N + 1 \in OnPath(M0, p) /\ \A i \in OnPath(M0, p) : i <= N + 1
    BY <1>4, <1>8, <1>10 DEF OnPath
  <2>2. Latest(OnPath(M0, p), N + 1)
    BY <2>1 DEF Latest
  <2> QED BY <1>10, <2>2, LastIs
<1>13. /\ t.disk = [s.disk EXCEPT ![p] = g] /\ t.backups = b.backups /\ t.taken = b.taken
       /\ t = [disk |-> [s.disk EXCEPT ![p] = g], asked |-> s.asked, manifest |-> s.manifest, backups |-> b.backups, taken |-> b.taken,
               proc |-> t.proc, runs |-> s.runs, edits |-> s.edits, users |-> s.users, theirs |-> s.theirs,
               others |-> s.others, unrecorded |-> s.unrecorded, halfUndone |-> s.halfUndone]
       /\ t.proc = [op |-> s.proc.op, a |-> s.proc.a, hs |-> s.proc.hs, todo |-> s.proc.todo, changes |-> M,
                    h |-> s.proc.h, open |-> s.proc.open \cup {p}]
  <2> HIDE DEF o, b, N
  <2>1. /\ o.disk = s.disk /\ o.asked = s.asked /\ o.manifest = s.manifest /\ o.backups = b.backups /\ o.taken = b.taken
        /\ o.runs = s.runs /\ o.edits = s.edits /\ o.users = s.users /\ o.theirs = s.theirs /\ o.others = s.others
        /\ o.unrecorded = s.unrecorded /\ o.halfUndone = s.halfUndone
        /\ o.proc.op = s.proc.op /\ o.proc.a = s.proc.a /\ o.proc.hs = s.proc.hs /\ o.proc.todo = s.proc.todo
        /\ o.proc.h = s.proc.h /\ o.proc.open = s.proc.open \cup {p}
    BY <1>7
  <2>2. /\ o = [disk |-> o.disk, asked |-> o.asked, manifest |-> o.manifest, backups |-> o.backups, taken |-> o.taken,
                proc |-> o.proc, runs |-> o.runs, edits |-> o.edits, users |-> o.users, theirs |-> o.theirs,
                others |-> o.others, unrecorded |-> o.unrecorded, halfUndone |-> o.halfUndone]
        /\ o.proc = [op |-> o.proc.op, a |-> o.proc.a, hs |-> o.proc.hs, todo |-> o.proc.todo, changes |-> M0,
                     h |-> o.proc.h, open |-> o.proc.open]
    BY <1>7, <2>1
  <2>3. N + 1 \in DOMAIN M0 /\ IsRecord(M0[N + 1])
    BY <1>4, <1>8, <1>10
  <2>4. LastOn(M0, step.path) = N + 1
    BY <1>12
  <2>5. LET r == Logged(o, step, g)
        IN /\ r = [disk |-> [o.disk EXCEPT ![step.path] = g], asked |-> o.asked, manifest |-> o.manifest, backups |-> o.backups,
                   taken |-> o.taken, proc |-> r.proc, runs |-> o.runs, edits |-> o.edits, users |-> o.users, theirs |-> o.theirs,
                   others |-> o.others, unrecorded |-> o.unrecorded, halfUndone |-> o.halfUndone]
           /\ r.proc = [op |-> o.proc.op, a |-> o.proc.a, hs |-> o.proc.hs, todo |-> o.proc.todo,
                        changes |-> [M0 EXCEPT ![N + 1] = Completed(M0[N + 1], step, g)], h |-> o.proc.h, open |-> o.proc.open]
    BY ONLY <2>2, <2>3, <2>4, LoggedIs
  <2>6. [M0 EXCEPT ![N + 1] = Completed(M0[N + 1], step, g)] = M
    BY <1>10 DEF e
  <2> HIDE DEF t, M
  <2>7. /\ t = [disk |-> [s.disk EXCEPT ![p] = g], asked |-> s.asked, manifest |-> s.manifest, backups |-> b.backups, taken |-> b.taken,
               proc |-> t.proc, runs |-> s.runs, edits |-> s.edits, users |-> s.users, theirs |-> s.theirs,
               others |-> s.others, unrecorded |-> s.unrecorded, halfUndone |-> s.halfUndone]
        /\ t.proc = [op |-> s.proc.op, a |-> s.proc.a, hs |-> s.proc.hs, todo |-> s.proc.todo, changes |-> M,
                     h |-> s.proc.h, open |-> s.proc.open \cup {p}]
    BY <1>3, <2>1, <2>5, <2>6
  <2>8. t.disk = [s.disk EXCEPT ![p] = g] /\ t.backups = b.backups /\ t.taken = b.taken
    BY <2>7
  <2> QED BY <2>7, <2>8
<1> HIDE DEF t, o
<1>14. Edited(s, t, p, g) /\ t.proc.changes = M /\ t.proc.open = s.proc.open \cup {p}
  <2>1. Shape(s)
    BY <1>2 DEF AtFile
  <2> HIDE DEF M, p, b
  <2>2. t = With(s, [s.disk EXCEPT ![p] = g], t.backups, t.taken, t.proc)
    <3>1. t = [disk |-> [s.disk EXCEPT ![p] = g], asked |-> s.asked, manifest |-> s.manifest, backups |-> t.backups, taken |-> t.taken,
               proc |-> t.proc, runs |-> s.runs, edits |-> s.edits, users |-> s.users, theirs |-> s.theirs,
               others |-> s.others, unrecorded |-> s.unrecorded, halfUndone |-> s.halfUndone]
      BY ONLY <1>13
    <3>2. With(s, [s.disk EXCEPT ![p] = g], t.backups, t.taken, t.proc) =
              [disk |-> [s.disk EXCEPT ![p] = g], asked |-> s.asked, manifest |-> s.manifest, backups |-> t.backups, taken |-> t.taken,
               proc |-> t.proc, runs |-> s.runs, edits |-> s.edits, users |-> s.users, theirs |-> s.theirs,
               others |-> s.others, unrecorded |-> s.unrecorded, halfUndone |-> s.halfUndone]
      BY ONLY <2>1, StateWith
    <3> QED BY ONLY <3>1, <3>2
  <2>3. t.proc.changes = M /\ t.proc.open = s.proc.open \cup {p}
    BY <1>13
  <2>4. t.proc = [op |-> "configure", a |-> s.proc.a, hs |-> s.proc.hs, todo |-> s.proc.todo,
                  changes |-> t.proc.changes, h |-> s.proc.h, open |-> t.proc.open]
    BY <1>13, <2>3
  <2> QED BY <2>2, <2>3, <2>4 DEF Edited
<1> HIDE DEF M
<1>15. CopiedAtMost(s, t.backups, t.taken, p)
  <2>1. p = "rule" => f # TheRule
    BY <1>e, PathKinds DEF FileEdit, PutIn
  <2> HIDE DEF p
  <2>2. CopiedAtMost(s, Backup(s, p).backups, Backup(s, p).taken, p)
    BY <1>1, <2>1, CopiesAre
  <2> QED BY <2>2, <1>13
<1>16. Recording(s, t.proc.changes, p)
  <2>1. \A i \in DOMAIN M \ DOMAIN L : M[i].path = p
    <3> HIDE DEF N, L, p
    <3>1. \A i \in DOMAIN M \ DOMAIN L : i = N + 1
      BY <1>4, <1>11
    <3>2. M[N + 1].path = p
      BY <1>9, <1>11
    <3> QED BY <3>1, <3>2
  <2> QED BY <1>4, <1>11, <1>14, <2>1 DEF Recording
<1>17. EntryOk(e, t.backups, t.taken)
  <2>1. \A x \in s.backups : x.id \in 1..s.taken
    BY <1>2 DEF AtFile, Typed
  <2>2. \A x \in t.backups : x \in s.backups \/ (x.id = s.taken + 1 /\ x.path = p /\ x.content = f)
    BY <1>5, <1>13
  <2>3. t.taken \in Nat /\ (f # None => t.taken = s.taken + 1) /\ s.taken \in Nat
    BY <1>4, <1>5, <1>13
  <2>4. e.backup = IF f = None THEN None ELSE s.taken + 1
    BY <1>8, <1>9
  <2> HIDE DEF p, f, json
  <2> QED BY ONLY <1>9, <2>1, <2>2, <2>3, <2>4, <1>e, FirstRecord
<1>18. \A j \in DOMAIN t.proc.changes :
         (j \in DOMAIN L /\ t.proc.changes[j] = L[j]) \/ EntryOk(t.proc.changes[j], t.backups, t.taken)
  BY <1>4, <1>11, <1>14, <1>17
<1>19. /\ PathOk(p, g, A, own, th, sh, M, hf, ur)
       /\ Opening(p, g, A, own, th, M, low, hf)
  <2>1. /\ own \in Nat \cup {None} /\ th \in SUBSET Keys /\ sh \in BOOLEAN /\ hf \in BOOLEAN /\ ur \in BOOLEAN
        /\ PathOk(p, f, B, own, th, sh, L, hf, ur)
    BY <1>2 DEF AtFile
  <2>2. N \in Nat /\ low \in 0..N /\ id \in Nat
    BY <1>4
  <2>3. OnPath(M, p) = OnPath(L, p) \cup {N + 1} /\ \A i \in OnPath(L, p) : i \in 1..N /\ M[i] = L[i]
    BY <1>4, <1>9, <1>11 DEF OnPath
  <2>4. \A x \in B : x.id \in Nat /\ x.id # id
    BY <1>2, <1>4 DEF AtFile, Typed, Saved
  <2>5. \A i \in OnPath(L, p) : L[i].backup # id
    <3> SUFFICES ASSUME NEW i \in OnPath(L, p) PROVE L[i].backup # id
      OBVIOUS
    <3>1. EntryOk(L[i], s.backups, s.taken)
      BY <1>2 DEF AtFile, OnPath
    <3>2. L[i].backup = None \/ L[i].backup \in 1..s.taken
      BY <3>1 DEF EntryOk
    <3> QED BY <3>2, <1>4, NoneIsNoNumber
  <2>6. M[N + 1].after = g /\ M[N + 1].backup = IF f = None THEN None ELSE id
    BY <1>8, <1>9, <1>11
  <2>7. IF f = None THEN A = B ELSE \E x : A = B \cup {x} /\ x.id = id /\ x.content = f
    <3>1. CopyNow(s, p).id = id /\ CopyNow(s, p).content = f
      BY DEF CopyNow
    <3>2. IF f = None THEN A = B ELSE A = B \cup {CopyNow(s, p)}
      BY <1>5
    <3> HIDE DEF A, B, f, p, id
    <3> QED BY ONLY <3>1, <3>2
  <2>8. \/ PutIn(p, f, g, step.key, M[N + 1].json)
        \/ p = "rule" /\ g = TheRule /\ f # TheRule /\ M[N + 1].json = {}
    BY <1>e, <1>9, <1>11 DEF FileEdit
  <2> HIDE DEF f, B, A, own, th, sh, L, hf, ur, low, json, p, N, id
  <2>9. FirstBy(p, f, g, step.key, B, A, id, L, M, N)
    BY ONLY <2>3, <2>4, <2>5, <2>6, <2>7, <2>8, <1>1 DEF FirstBy
  <2> QED BY ONLY <2>1, <2>2, <2>9, FirstEdit
<1>20. /\ PathOk(p, g, Saved(t.backups, p), s.users[p], s.theirs[p], p \in s.others, t.proc.changes, s.halfUndone, s.unrecorded)
       /\ Opening(p, g, Saved(t.backups, p), s.users[p], s.theirs[p], t.proc.changes, Len(s.manifest), s.halfUndone)
  BY <1>13, <1>14, <1>19 DEF A, own, th, sh, hf, ur, low
<1>21. t.proc.open \subseteq s.proc.open \cup {p}
  BY <1>14
<1> HIDE DEF p, L
<1>22. Inv(t)
  BY <1>1, <1>14, <1>15, <1>16, <1>18, <1>20, <1>21, EditKeeps DEF L
<1> QED BY <1>22 DEF t

\* A step of configure keeps the invariant.
LEMMA ConfigureStepKeeps ==
  ASSUME Inv(u), ConfigureStep
  PROVE  Inv(u')
<1> DEFINE step == Head(u.proc.todo)
           f == u.disk[step.path]
           r == Attempt(At(u, step.path), step, u.proc.a)
           next == [u EXCEPT !.proc.todo = IF r.out = "refused" THEN <<>> ELSE Tail(@)]
<1>0. /\ u.proc.op = "configure" /\ Shape(u) /\ ProcOk(u) /\ Configuring(u) /\ IsList(u.proc.todo) /\ u.proc.todo # <<>>
      /\ IsRun(u.proc.a) /\ Typed(u.disk, u.backups, u.taken, u.users, u.theirs, u.others)
      /\ u' = IF r.out # "written" \/ u.proc.a.dry THEN next ELSE Edit(next, step, r.file)
  BY DEF ConfigureStep, Doing, Inv, ProcOk, Shape, CoreOf, Core
<1>1. /\ GoodStep(step, u.proc.h)
      /\ LET q == Tail(u.proc.todo) IN IsList(q) /\ \A i \in DOMAIN q : GoodStep(q[i], u.proc.h)
  <2> DEFINE todo == u.proc.todo
             q == Tail(todo)
  <2>1. \A i \in DOMAIN todo : GoodStep(todo[i], u.proc.h)
    BY <1>0 DEF Configuring
  <2>2. IsList(todo) /\ todo # <<>>
    BY <1>0
  <2> HIDE DEF todo
  <2>3. 1 \in DOMAIN todo /\ Head(todo) = todo[1] /\ DOMAIN todo = 1..Len(todo) /\ Len(todo) \in Nat
    BY <2>2, ListEmpty, ListIs
  <2>4. IsList(q) /\ DOMAIN q = 1..(Len(todo) - 1) /\ \A i \in 1..(Len(todo) - 1) : q[i] = todo[i + 1]
    BY <2>2, ListTail
  <2> HIDE DEF q
  <2>5. \A i \in DOMAIN q : GoodStep(q[i], u.proc.h)
    BY <2>1, <2>3, <2>4
  <2>6. GoodStep(Head(todo), u.proc.h)
    BY <2>1, <2>3
  <2> QED BY <2>4, <2>5, <2>6 DEF todo, q
<1> HIDE DEF r
<1>2. /\ next = [u EXCEPT !.proc = next.proc] /\ next.proc.todo = (IF r.out = "refused" THEN <<>> ELSE Tail(u.proc.todo))
      /\ next.proc.open = u.proc.open /\ next.proc.a = u.proc.a /\ next.proc.h = u.proc.h /\ next.disk = u.disk
      /\ next.proc = [op |-> "configure", a |-> u.proc.a, hs |-> next.proc.hs, todo |-> next.proc.todo,
                      changes |-> u.proc.changes, h |-> next.proc.h, open |-> next.proc.open]
  BY <1>0 DEF Shape
<1>3. Inv(next)
  <2>1. /\ IsList(next.proc.todo) /\ \A i \in DOMAIN next.proc.todo : GoodStep(next.proc.todo[i], next.proc.h)
        /\ next.proc.open \subseteq u.proc.open
    <3> HIDE DEF next
    <3>1. CASE r.out = "refused"
      BY <3>1, <1>2, EmptyList
    <3>2. CASE r.out # "refused"
      BY <3>2, <1>1, <1>2
    <3> QED BY <1>2, <3>1, <3>2
  <2> HIDE DEF next
  <2> QED BY ONLY <1>0, <1>2, <2>1, Inv(u), ConfigureMoves
<1>4. next.proc.op = "configure"
  BY <1>2
<1> HIDE DEF next
<1>5. CASE r.out # "written" \/ u.proc.a.dry
  BY <1>0, <1>3, <1>5
<1>6. CASE ~(r.out # "written" \/ u.proc.a.dry)
  <2>1. u' = Edit(next, step, r.file) /\ r.out = "written" /\ ~next.proc.a.dry
    BY <1>0, <1>2, <1>6
  <2>2. step.path \in Paths /\ (f = None \/ (IsFile(f) /\ Formed(step.path, f)))
    <3>1. step.path \in Paths
      BY <1>1, PathKinds DEF GoodStep, Settled, Paths
    <3> HIDE DEF step
    <3> QED BY <1>0, <3>1 DEF Typed
  <2>3. r = Attempt(Read(f), step, u.proc.a) /\ GoodStep(step, u.proc.h) /\ next.disk = u.disk
    BY <1>1, <1>2 DEF r, Read, At
  <2> HIDE DEF step, f
  <2>4. CASE step.how \in {"skill", "cli", "config"}
    <3>1. IsFile(r.file)
      BY <1>0, <2>1, <2>2, <2>3, <2>4, AttemptElsewhere
    <3>2. GoodStep(step, next.proc.h)
      BY <2>3, <1>2
    <3>3. Inv(Edit(next, step, r.file))
      BY ONLY <1>3, <1>4, <2>1, <2>4, <3>1, <3>2, EditElsewhere
    <3> QED BY <2>1, <3>3
  <2>5. CASE step.how \in {"json", "toml", "yaml", "file"}
    <3>1. FileEdit(step.path, u.proc.h, f, r.file, step.key, IF step.how = "json" THEN {step.key} ELSE {})
      <4>1. u.proc.a.value \in Ours
        BY <1>0 DEF IsRun
      <4>2. Attempt(Read(f), step, u.proc.a).out = "written"
        BY <2>1, <2>3
      <4>3. FileEdit(step.path, u.proc.h, f, Attempt(Read(f), step, u.proc.a).file, step.key, IF step.how = "json" THEN {step.key} ELSE {})
        BY ONLY <2>2, <2>3, <2>5, <4>1, <4>2, FileStep
      <4> QED BY <2>3, <4>3
    <3>2. FileEdit(step.path, next.proc.h, next.disk[step.path], r.file, step.key, IF step.how = "json" THEN {step.key} ELSE {})
      BY <3>1, <1>2, <2>3 DEF f
    <3>3. Inv(Edit(next, step, r.file))
      <4>0. EditsFile(next, step, r.file)
        BY <2>5, <3>2 DEF EditsFile
      <4>1. CASE step.path \in next.proc.open
        BY ONLY <1>3, <1>4, <2>1, <4>0, <4>1, EditAgain
      <4>2. CASE step.path \notin next.proc.open
        BY ONLY <1>3, <1>4, <2>1, <4>0, <4>2, EditFirst
      <4> QED BY <4>1, <4>2
    <3> QED BY <2>1, <3>3
  <2>6. step.how \in {"skill", "cli", "config"} \cup {"json", "toml", "yaml", "file"}
    BY <2>3 DEF GoodStep
  <2> QED BY <2>4, <2>5, <2>6
<1> QED BY <1>5, <1>6

\* A run of undo at its next record, the last that it has not looked at.
Popped(s) == [s.proc EXCEPT !.todo = Tail(@)]
Rest(L, n) == [i \in DOMAIN L \ {n} |-> L[i]]

----------------------------------------------------------------------------
(* Steps of undo                                                             *)

\* Where undo is: the records not undone yet, then the ones it keeps.
LEMMA UndoAt ==
  ASSUME NEW s, Inv(s), s.proc.op = "undo", s.proc.todo # <<>>
  PROVE  LET n == Len(s.proc.todo)
             m == Len(s.proc.changes)
             c == Head(s.proc.todo)
             L == Pending(s)
         IN /\ n \in Nat \ {0} /\ m \in Nat /\ IsList(L) /\ Len(L) = n + m /\ DOMAIN L = 1..(n + m)
            /\ L[n] = c /\ s.manifest[n] = c /\ n \in DOMAIN s.manifest
            /\ EntryOk(c, s.backups, s.taken) /\ c.path \in Paths
            /\ \A i \in DOMAIN L : EntryOk(L[i], s.backups, s.taken)
            /\ \A i \in DOMAIN L : i > n => i - n \in DOMAIN s.proc.changes /\ L[i] = s.proc.changes[i - n]
<1> DEFINE n == Len(s.proc.todo)
           m == Len(s.proc.changes)
           c == Head(s.proc.todo)
           L == Pending(s)
           todo == s.proc.todo
<1>1. Shape(s) /\ ProcOk(s) /\ Undoing(s) /\ IsList(todo) /\ IsList(s.manifest) /\ IsList(s.proc.changes) /\ CoreOf(s)
  BY DEF Inv, ProcOk, Shape
<1>2. /\ IsList(L) /\ n \in Nat /\ m \in Nat /\ Len(L) = n + m /\ DOMAIN L = 1..(n + m)
      /\ \A i \in 1..n : L[i] = s.manifest[i]
      /\ \A i \in 1..m : L[n + i] = s.proc.changes[i]
  BY <1>1, PendingIs
<1>3. /\ n \in Nat \ {0} /\ c = todo[1] /\ todo[1] = s.manifest[n] /\ n <= Len(s.manifest) /\ Len(s.manifest) \in Nat
      /\ DOMAIN s.manifest = 1..Len(s.manifest) /\ DOMAIN s.proc.changes = 1..m
  <2>1. n \in Nat \ {0} /\ c = todo[1] /\ n <= Len(s.manifest) /\ \A i \in 1..n : todo[i] = s.manifest[n + 1 - i]
    <3> HIDE DEF todo
    <3>1. Len(todo) \in Nat \ {0} /\ Head(todo) = todo[1]
      BY <1>1, ListEmpty DEF todo
    <3> QED BY <3>1, <1>1 DEF Undoing, todo
  <2>2. Len(s.manifest) \in Nat /\ DOMAIN s.manifest = 1..Len(s.manifest) /\ DOMAIN s.proc.changes = 1..m
    BY <1>1, ListIs
  <2> HIDE DEF n, todo, c
  <2>3. todo[1] = s.manifest[n + 1 - 1] /\ n + 1 - 1 = n
    BY <2>1
  <2> QED BY <2>1, <2>2, <2>3
<1> HIDE DEF n, m, c, L, todo
<1>4. n \in DOMAIN s.manifest /\ L[n] = c /\ s.manifest[n] = c
  BY <1>2, <1>3
<1>5. \A i \in DOMAIN L : i > n => i - n \in DOMAIN s.proc.changes /\ L[i] = s.proc.changes[i - n]
  <2> SUFFICES ASSUME NEW i \in DOMAIN L, i > n PROVE i - n \in 1..m /\ L[i] = s.proc.changes[i - n]
    BY <1>3
  <2>1. i - n \in 1..m /\ n + (i - n) = i
    BY <1>2
  <2> QED BY <2>1, <1>2
<1>6. \A i \in DOMAIN L : EntryOk(L[i], s.backups, s.taken)
  <2> SUFFICES ASSUME NEW i \in DOMAIN L PROVE L[i] \in Entries(s)
    BY <1>1 DEF CoreOf, Core
  <2>1. CASE i > n
    BY <1>5, <2>1 DEF Entries
  <2>2. CASE ~(i > n)
    <3>1. i \in 1..n
      BY <2>2, <1>2
    <3>2. L[i] = s.manifest[i] /\ i \in DOMAIN s.manifest
      BY <3>1, <1>2, <1>3
    <3> QED BY <3>2 DEF Entries
  <2> QED BY <2>1, <2>2
<1>7. EntryOk(c, s.backups, s.taken)
  BY <1>2, <1>3, <1>4, <1>6
<1>8. c.path \in Paths
  BY <1>7 DEF EntryOk
<1> QED BY <1>2, <1>3, <1>4, <1>5, <1>6, <1>7, <1>8 DEF n, m, c, L, todo

\* The program once the next record is taken.
LEMMA PoppedIs ==
  ASSUME NEW s, Inv(s), s.proc.op = "undo", s.proc.todo # <<>>
  PROVE  LET n == Len(s.proc.todo)
             proc == Popped(s)
             q == Tail(s.proc.todo)
         IN /\ proc = [op |-> "undo", a |-> s.proc.a, hs |-> s.proc.hs, todo |-> q, changes |-> s.proc.changes,
                       h |-> s.proc.h, open |-> s.proc.open]
            /\ proc.op = "undo" /\ proc.a = s.proc.a /\ proc.hs = s.proc.hs /\ proc.todo = q /\ proc.changes = s.proc.changes
            /\ IsList(q) /\ Len(q) = n - 1 /\ DOMAIN q = 1..(n - 1)
            /\ n - 1 \in Nat /\ n - 1 <= Len(s.manifest) /\ \A i \in 1..(n - 1) : q[i] = s.manifest[n - i]
<1> DEFINE n == Len(s.proc.todo)
           proc == Popped(s)
           todo == s.proc.todo
           q == Tail(todo)
<1>1. Shape(s) /\ Undoing(s) /\ IsList(todo) /\ IsList(s.manifest) /\ todo # <<>>
  BY DEF Inv, ProcOk, Shape
<1>2. proc = [op |-> "undo", a |-> s.proc.a, hs |-> s.proc.hs, todo |-> q, changes |-> s.proc.changes,
              h |-> s.proc.h, open |-> s.proc.open]
  <2>1. s.proc = [op |-> "undo", a |-> s.proc.a, hs |-> s.proc.hs, todo |-> s.proc.todo, changes |-> s.proc.changes,
                  h |-> s.proc.h, open |-> s.proc.open]
    BY <1>1 DEF Shape
  <2>2. proc = [s.proc EXCEPT !.todo = q]
    BY DEF Popped
  <2> HIDE DEF proc, q
  <2> QED BY ONLY <2>1, <2>2
<1> HIDE DEF proc
<1>3. proc.op = "undo" /\ proc.a = s.proc.a /\ proc.hs = s.proc.hs /\ proc.todo = q /\ proc.changes = s.proc.changes
  BY <1>2
<1>4. n <= Len(s.manifest) /\ \A i \in 1..n : todo[i] = s.manifest[n + 1 - i]
  BY <1>1 DEF Undoing
<1>5. n = Len(todo)
  OBVIOUS
<1> HIDE DEF n, todo
<1>6. IsList(q) /\ Len(q) = n - 1 /\ DOMAIN q = 1..(n - 1) /\ (\A i \in 1..(n - 1) : q[i] = todo[i + 1]) /\ n \in Nat \ {0}
      /\ Len(s.manifest) \in Nat
  BY <1>1, <1>5, ListTail, ListEmpty, ListIs
<1> HIDE DEF q
<1>7. \A i \in 1..(n - 1) : q[i] = s.manifest[n - i]
  <2> SUFFICES ASSUME NEW i \in 1..(n - 1) PROVE q[i] = s.manifest[n - i]
    OBVIOUS
  <2>1. i + 1 \in 1..n /\ n + 1 - (i + 1) = n - i
    BY <1>6
  <2> QED BY <2>1, <1>4, <1>6
<1>8. n - 1 \in Nat /\ n - 1 <= Len(s.manifest)
  BY <1>4, <1>6
<1> QED BY <1>2, <1>3, <1>6, <1>7, <1>8 DEF n, todo, q, proc

\* Undoing one record keeps the invariant, given what it does to the path.
LEMMA DropKeeps ==
  ASSUME NEW s, Inv(s), s.proc.op = "undo", s.proc.todo # <<>>, ~s.proc.a.dry, NEW c, c = Head(s.proc.todo),
         NEW g, g = None \/ (IsFile(g) /\ Formed(c.path, g)),
         NEW A \in SUBSET s.backups, \A b \in s.backups \ A : b.path = c.path,
         c.path \in Paths \ Settled =>
           PathOk(c.path, g, Saved(A, c.path), s.users[c.path], s.theirs[c.path], c.path \in s.others,
                  Rest(Pending(s), Len(s.proc.todo)), s.halfUndone, s.unrecorded)
  PROVE  Inv(With(s, [s.disk EXCEPT ![c.path] = g], A, s.taken, Popped(s)))
<1> DEFINE n == Len(s.proc.todo)
           m == Len(s.proc.changes)
           L == Pending(s)
           K == Rest(L, n)
           q == Tail(s.proc.todo)
           d == [s.disk EXCEPT ![c.path] = g]
           t == With(s, d, A, s.taken, Popped(s))
           M == Pending(t)
<1>0. Shape(s) /\ ProcOk(s) /\ Undoing(s) /\ CoreOf(s) /\ Records(s) /\ IsRun(s.proc.a)
      /\ Typed(s.disk, s.backups, s.taken, s.users, s.theirs, s.others)
  BY DEF Inv, ProcOk, CoreOf, Core
<1>1. /\ n \in Nat \ {0} /\ m \in Nat /\ IsList(L) /\ DOMAIN L = 1..(n + m) /\ L[n] = c /\ c.path \in Paths
      /\ \A i \in DOMAIN L : EntryOk(L[i], s.backups, s.taken)
  BY UndoAt
<1>2. /\ t = [disk |-> d, asked |-> s.asked, manifest |-> s.manifest, backups |-> A, taken |-> s.taken,
              proc |-> Popped(s), runs |-> s.runs, edits |-> s.edits, users |-> s.users, theirs |-> s.theirs,
              others |-> s.others, unrecorded |-> s.unrecorded, halfUndone |-> s.halfUndone]
  BY <1>0, StateWith
<1>3. /\ t.disk = d /\ t.asked = s.asked /\ t.manifest = s.manifest /\ t.backups = A /\ t.taken = s.taken /\ t.proc = Popped(s)
      /\ t.runs = s.runs /\ t.edits = s.edits /\ t.users = s.users /\ t.theirs = s.theirs /\ t.others = s.others
      /\ t.unrecorded = s.unrecorded /\ t.halfUndone = s.halfUndone
      /\ t = [disk |-> t.disk, asked |-> t.asked, manifest |-> t.manifest, backups |-> t.backups, taken |-> t.taken,
              proc |-> t.proc, runs |-> t.runs, edits |-> t.edits, users |-> t.users, theirs |-> t.theirs,
              others |-> t.others, unrecorded |-> t.unrecorded, halfUndone |-> t.halfUndone]
  <2> HIDE DEF t, d
  <2> QED BY <1>2
<1>4. /\ Popped(s) = [op |-> "undo", a |-> s.proc.a, hs |-> s.proc.hs, todo |-> q, changes |-> s.proc.changes,
                      h |-> s.proc.h, open |-> s.proc.open]
      /\ IsList(q) /\ Len(q) = n - 1 /\ DOMAIN q = 1..(n - 1)
      /\ n - 1 \in Nat /\ n - 1 <= Len(s.manifest) /\ \A i \in 1..(n - 1) : q[i] = s.manifest[n - i]
  BY <1>0, PoppedIs
<1> HIDE DEF t, q
<1>5. /\ t.proc.op = "undo" /\ t.proc.a = s.proc.a /\ t.proc.hs = s.proc.hs /\ t.proc.todo = q /\ t.proc.changes = s.proc.changes
      /\ t.proc = [op |-> t.proc.op, a |-> t.proc.a, hs |-> t.proc.hs, todo |-> t.proc.todo, changes |-> t.proc.changes,
                   h |-> t.proc.h, open |-> t.proc.open]
  BY <1>3, <1>4
<1>6. Shape(t)
  BY <1>0, <1>3, <1>4, <1>5 DEF Shape
<1>7. ProcOk(t)
  <2>1. Undoing(t)
    <3>1. \A i \in 1..(n - 1) : t.proc.todo[i] = t.manifest[(n - 1) + 1 - i]
      <4> SUFFICES ASSUME NEW i \in 1..(n - 1) PROVE q[i] = s.manifest[(n - 1) + 1 - i]
        BY <1>3, <1>5
      <4>1. (n - 1) + 1 - i = n - i
        BY <1>1
      <4> QED BY <4>1, <1>4
    <3>2. Len(t.proc.todo) = n - 1
      BY <1>4, <1>5
    <3> HIDE DEF n
    <3> QED BY <1>0, <1>3, <1>4, <1>5, <3>1, <3>2 DEF Undoing
  <2> QED BY <2>1, <1>0, <1>5 DEF ProcOk
<1>8. Records(t)
  BY <1>0, <1>3 DEF Records
<1>9. /\ DOMAIN M = 1..(n - 1 + m)
      /\ \A i \in 1..(n - 1) : M[i] = L[i]
      /\ \A i \in 1..m : M[n - 1 + i] = L[n + i]
  <2>1. LET k == Len(t.proc.todo)
            l == Len(t.proc.changes)
        IN /\ DOMAIN M = 1..(k + l) /\ \A i \in 1..k : M[i] = t.manifest[i]
           /\ \A i \in 1..l : M[k + i] = t.proc.changes[i]
    BY <1>5, <1>6, <1>7, PendingIs
  <2>2. Len(t.proc.todo) = n - 1 /\ Len(t.proc.changes) = m
    BY <1>4, <1>5
  <2>3. (\A i \in 1..n : L[i] = s.manifest[i]) /\ \A i \in 1..m : L[n + i] = s.proc.changes[i]
    BY <1>0, PendingIs
  <2> HIDE DEF n, m, L, M
  <2>4. \A i \in 1..(n - 1) : M[i] = L[i]
    BY <2>1, <2>2, <2>3, <1>1, <1>3
  <2> QED BY <2>1, <2>2, <2>3, <2>4, <1>5
<1> HIDE DEF L, M, n, m
<1>10. /\ DOMAIN K = (1..(n - 1 + m + 1)) \ {n} /\ n \in 1..(n - 1 + m + 1) /\ n - 1 + m \in Nat
       /\ \A i \in DOMAIN K : K[i] = L[i]
  <2>1. n - 1 + m + 1 = n + m /\ n \in 1..(n + m) /\ n - 1 + m \in Nat
    BY <1>1
  <2> QED BY <2>1, <1>1 DEF Rest
<1> HIDE DEF K
<1>11. \A i \in 1..(n - 1 + m) : M[i] = IF i < n THEN K[i] ELSE K[i + 1]
  <2> SUFFICES ASSUME NEW i \in 1..(n - 1 + m) PROVE M[i] = IF i < n THEN K[i] ELSE K[i + 1]
    OBVIOUS
  <2>1. CASE i < n
    <3>1. i \in 1..(n - 1) /\ i \in DOMAIN K
      BY <2>1, <1>1, <1>10
    <3> QED BY <2>1, <3>1, <1>9, <1>10
  <2>2. CASE ~(i < n)
    <3>1. i - (n - 1) \in 1..m /\ n - 1 + (i - (n - 1)) = i /\ n + (i - (n - 1)) = i + 1 /\ i + 1 \in DOMAIN K
      BY <2>2, <1>1, <1>10
    <3> QED BY <2>2, <3>1, <1>9, <1>10
  <2> QED BY <2>1, <2>2
<1>12. Typed(t.disk, t.backups, t.taken, t.users, t.theirs, t.others)
  <2>1. /\ s.users \in [Paths -> Nat \cup {None}] /\ s.theirs \in [Paths -> SUBSET Keys] /\ s.others \in SUBSET Paths /\ s.taken \in Nat
    BY <1>0 DEF Typed
  <2>2. /\ Typed(s.disk, s.backups, s.taken, s.users, s.theirs, s.others) /\ s.taken <= s.taken
        /\ \A b \in A : b \in s.backups
        /\ \A b1, b2 \in A : (b1 \notin s.backups /\ b2 \notin s.backups) => b1 = b2
        /\ c.path \in Paths /\ (g = None \/ (IsFile(g) /\ Formed(c.path, g)))
    BY <1>0, <1>1, <2>1
  <2>3. Typed([s.disk EXCEPT ![c.path] = g], A, s.taken, s.users, s.theirs, s.others)
    BY ONLY <2>1, <2>2, TypedOne
  <2> QED BY <1>3, <2>3
<1>13. \A e \in Entries(t) : EntryOk(e, t.backups, t.taken)
  <2>1. Entries(t) = Entries(s)
    BY <1>3, <1>5 DEF Entries
  <2> SUFFICES ASSUME NEW e \in Entries(s) PROVE EntryOk(e, A, s.taken)
    BY <2>1, <1>3
  <2>2. EntryOk(e, s.backups, s.taken) /\ s.taken \in Nat /\ \A b \in A : b \in s.backups /\ b.id \in Nat
    BY <1>0 DEF CoreOf, Core, Typed
  <2> QED BY <2>2, EntriesStay
<1>14. ASSUME NEW p \in Paths \ Settled
       PROVE  PathOk(p, t.disk[p], Saved(t.backups, p), t.users[p], t.theirs[p], p \in t.others, M, t.halfUndone, t.unrecorded)
  <2> DEFINE f == t.disk[p]
             B == Saved(A, p)
             own == s.users[p]
             th == s.theirs[p]
             sh == p \in s.others
             hf == s.halfUndone
             ur == s.unrecorded
  <2>1. PathOk(p, f, B, own, th, sh, K, hf, ur)
    <3>1. CASE p = c.path
      <4>1. f = g
        BY <3>1, <1>0, <1>1, <1>3 DEF Typed
      <4>2. PathOk(c.path, g, Saved(A, c.path), s.users[c.path], s.theirs[c.path], c.path \in s.others, K, hf, ur)
        BY <3>1 DEF K, L, n
      <4> QED BY <3>1, <4>1, <4>2
    <3>2. CASE p # c.path
      <4>1. f = s.disk[p]
        BY <3>2, <1>0, <1>1, <1>3 DEF Typed
      <4>2. B = Saved(s.backups, p)
        BY <3>2 DEF Saved
      <4>3. PathOk(p, s.disk[p], Saved(s.backups, p), own, th, sh, L, hf, ur)
        BY <1>0 DEF CoreOf, Core, L
      <4>4. PathOk(p, f, B, own, th, sh, L, hf, ur)
        BY <4>1, <4>2, <4>3
      <4>5. /\ OnPath(K, p) = OnPath(L, p) /\ OnPath(L, p) \subseteq Int
            /\ \A i \in OnPath(L, p) : K[i] = L[i]
        <5>1. \A i \in OnPath(L, p) : i \in DOMAIN K
          BY <3>2, <1>1, <1>10 DEF OnPath
        <5>2. \A i \in DOMAIN K : i \in DOMAIN L
          BY <1>1, <1>10
        <5> QED BY <5>1, <5>2, <1>1, <1>10 DEF OnPath
      <4>6. sh \in BOOLEAN /\ hf \in BOOLEAN /\ ur \in BOOLEAN
        BY <1>0 DEF Shape
      <4> HIDE DEF f, B, own, th, sh, hf, ur
      <4> QED BY ONLY <4>4, <4>5, <4>6, SameRecords
    <3> QED BY <3>1, <3>2
  <2>2. sh \in BOOLEAN /\ hf \in BOOLEAN /\ ur \in BOOLEAN
    BY <1>0 DEF Shape
  <2> HIDE DEF f, B, own, th, sh, hf, ur
  <2>3. PathOk(p, f, B, own, th, sh, M, hf, ur)
    <3> DEFINE N == n - 1 + m
    <3>1. /\ N \in Nat /\ n \in 1..(N + 1) /\ DOMAIN K = (1..(N + 1)) \ {n} /\ DOMAIN M = 1..N
          /\ \A i \in 1..N : M[i] = IF i < n THEN K[i] ELSE K[i + 1]
      BY <1>9, <1>10, <1>11
    <3> HIDE DEF N
    <3>2. Closes(K, M, n, N)
      BY ONLY <3>1 DEF Closes
    <3> QED BY ONLY <2>1, <2>2, <3>2, Closed
  <2> QED BY <2>3, <1>3 DEF f, B, own, th, sh, hf, ur
<1>15. CoreOf(t)
  BY <1>12, <1>13, <1>14 DEF CoreOf, Core, M
<1>16. Inv(t)
  BY <1>6, <1>7, <1>8, <1>15 DEF Inv
<1> QED BY <1>16 DEF t

\* The record of a file that undo looks at is the last of that file: those it
\* kept are of other agents, and no two agents have a file in common.
UndoneNow(s, c) ==
  /\ s.proc.op = "undo" /\ s.proc.todo # <<>> /\ c = Head(s.proc.todo) /\ ~s.proc.a.dry
  /\ ~(s.proc.hs # <<>> /\ ~Contains(s.proc.hs, c.h))

\* The record undone is the last of its path.
LEMMA UndoneIsLast ==
  ASSUME NEW s, Inv(s), NEW c, UndoneNow(s, c), c.kind = "file"
  PROVE  LET p == c.path
             L == Pending(s)
             n == Len(s.proc.todo)
             K == Rest(L, n)
         IN /\ p \in Watched /\ p \in Paths \ Settled /\ RecordOf(p, c, Saved(s.backups, p)) /\ L[n] = c
            /\ OnPath(L, p) \subseteq Int /\ Latest(OnPath(L, p), n) /\ OnPath(K, p) = OnPath(L, p) \ {n}
            /\ \A i \in OnPath(K, p) : K[i] = L[i]
            /\ \A b \in s.backups : b.id = c.backup => b \in Saved(s.backups, p)
<1> DEFINE p == c.path
           L == Pending(s)
           n == Len(s.proc.todo)
           K == Rest(L, n)
<1>0. s.proc.op = "undo" /\ s.proc.todo # <<>> /\ c = Head(s.proc.todo) /\ ~s.proc.a.dry /\ Undoing(s)
  BY DEF UndoneNow, Inv, ProcOk
<1>1. /\ n \in Nat \ {0} /\ Len(s.proc.changes) \in Nat /\ IsList(L) /\ DOMAIN L = 1..(n + Len(s.proc.changes)) /\ L[n] = c
      /\ EntryOk(c, s.backups, s.taken) /\ p \in Paths
      /\ \A i \in DOMAIN L : EntryOk(L[i], s.backups, s.taken)
      /\ \A i \in DOMAIN L : i > n => i - n \in DOMAIN s.proc.changes /\ L[i] = s.proc.changes[i - n]
  BY <1>0, UndoAt
<1>2. p \in Watched /\ p \in Paths \ Settled
  <2>1. p \in Watched
    BY <1>1 DEF EntryOk
  <2> HIDE DEF p
  <2> QED BY <2>1, PathKinds
<1>3. c.h = Owner(p) /\ RecordOf(p, c, Saved(s.backups, p)) /\ \A b \in s.backups : b.id = c.backup => b \in Saved(s.backups, p)
  BY <1>1, <1>2, RecordIs
<1> HIDE DEF L, n
<1>4. ASSUME NEW i \in OnPath(L, p), i > n  PROVE FALSE
  <2>1. i \in DOMAIN L /\ L[i].path = p
    BY <1>4 DEF OnPath
  <2>2. L[i].h = Owner(p)
    BY <1>1, <1>2, <2>1, RecordIs
  <2>3. i - n \in DOMAIN s.proc.changes /\ L[i] = s.proc.changes[i - n]
    BY <1>1, <1>4, <2>1
  <2>4. s.proc.hs # <<>> /\ ~Contains(s.proc.hs, s.proc.changes[i - n].h)
    BY <1>0, <2>3 DEF Undoing
  <2>5. s.proc.changes[i - n].h = c.h
    BY <1>3, <2>2, <2>3
  <2> QED BY <2>4, <2>5 DEF UndoneNow
<1>5. OnPath(L, p) \subseteq Int /\ n \in OnPath(L, p)
  BY <1>1 DEF OnPath
<1>6. Latest(OnPath(L, p), n)
  <2>1. \A i \in OnPath(L, p) : i <= n
    BY <1>1, <1>4, <1>5
  <2> QED BY <1>5, <2>1 DEF Latest
<1>7. OnPath(K, p) = OnPath(L, p) \ {n} /\ \A i \in OnPath(K, p) : K[i] = L[i]
  BY DEF OnPath, Rest
<1> QED BY <1>1, <1>2, <1>3, <1>5, <1>6, <1>7 DEF L, n

\* The state once the next record is taken.
LEMMA NextIs ==
  ASSUME NEW s, Shape(s), NEW d, NEW B
  PROVE  LET next == [s EXCEPT !.proc.todo = Tail(@)]
         IN /\ next = With(s, s.disk, s.backups, s.taken, Popped(s))
            /\ [next EXCEPT !.disk = d] = With(s, d, s.backups, s.taken, Popped(s))
            /\ [[next EXCEPT !.disk = d] EXCEPT !.backups = B] = With(s, d, B, s.taken, Popped(s))
            /\ next.disk = s.disk /\ next.backups = s.backups
<1> DEFINE next == [s EXCEPT !.proc.todo = Tail(@)]
<1>0. s = [disk |-> s.disk, asked |-> s.asked, manifest |-> s.manifest, backups |-> s.backups, taken |-> s.taken,
           proc |-> s.proc, runs |-> s.runs, edits |-> s.edits, users |-> s.users, theirs |-> s.theirs,
           others |-> s.others, unrecorded |-> s.unrecorded, halfUndone |-> s.halfUndone]
  BY DEF Shape
<1>a. next = [s EXCEPT !.proc = [s.proc EXCEPT !.todo = Tail(@)]]
  BY <1>0
<1>1. next.proc = Popped(s)
  <2>1. next.proc = [s.proc EXCEPT !.todo = Tail(@)]
    BY DEF Shape
  <2> QED BY <2>1 DEF Popped
<1>2. /\ next.disk = s.disk /\ next.asked = s.asked /\ next.manifest = s.manifest /\ next.backups = s.backups /\ next.taken = s.taken
      /\ next.runs = s.runs /\ next.edits = s.edits /\ next.users = s.users /\ next.theirs = s.theirs /\ next.others = s.others
      /\ next.unrecorded = s.unrecorded /\ next.halfUndone = s.halfUndone
      /\ next = [disk |-> next.disk, asked |-> next.asked, manifest |-> next.manifest, backups |-> next.backups, taken |-> next.taken,
              proc |-> next.proc, runs |-> next.runs, edits |-> next.edits, users |-> next.users, theirs |-> next.theirs,
              others |-> next.others, unrecorded |-> next.unrecorded, halfUndone |-> next.halfUndone]
  <2> HIDE DEF next
  <2> QED BY <1>0, <1>a
<1> HIDE DEF next
<1>3. next = [disk |-> s.disk, asked |-> s.asked, manifest |-> s.manifest, backups |-> s.backups, taken |-> s.taken,
              proc |-> Popped(s), runs |-> s.runs, edits |-> s.edits, users |-> s.users, theirs |-> s.theirs,
              others |-> s.others, unrecorded |-> s.unrecorded, halfUndone |-> s.halfUndone]
  BY <1>1, <1>2
<1>4. next = With(s, s.disk, s.backups, s.taken, Popped(s))
  BY <1>3, StateWith
<1>5. [next EXCEPT !.disk = d] = With(s, d, s.backups, s.taken, Popped(s))
  <2>1. [next EXCEPT !.disk = d] = [disk |-> d, asked |-> s.asked, manifest |-> s.manifest, backups |-> s.backups, taken |-> s.taken,
              proc |-> Popped(s), runs |-> s.runs, edits |-> s.edits, users |-> s.users, theirs |-> s.theirs,
              others |-> s.others, unrecorded |-> s.unrecorded, halfUndone |-> s.halfUndone]
    BY <1>3
  <2> QED BY <2>1, StateWith
<1>6. [[next EXCEPT !.disk = d] EXCEPT !.backups = B] = With(s, d, B, s.taken, Popped(s))
  <2> DEFINE x == [next EXCEPT !.disk = d]
  <2>2. x = [disk |-> d, asked |-> s.asked, manifest |-> s.manifest, backups |-> s.backups, taken |-> s.taken,
              proc |-> Popped(s), runs |-> s.runs, edits |-> s.edits, users |-> s.users, theirs |-> s.theirs,
              others |-> s.others, unrecorded |-> s.unrecorded, halfUndone |-> s.halfUndone]
    BY <1>3
  <2> HIDE DEF x
  <2>1. [x EXCEPT !.backups = B] = [disk |-> d, asked |-> s.asked, manifest |-> s.manifest, backups |-> B, taken |-> s.taken,
              proc |-> Popped(s), runs |-> s.runs, edits |-> s.edits, users |-> s.users, theirs |-> s.theirs,
              others |-> s.others, unrecorded |-> s.unrecorded, halfUndone |-> s.halfUndone]
    BY <2>2
  <2> QED BY <2>1, StateWith DEF x
<1> QED BY <1>2, <1>4, <1>5, <1>6 DEF next

\* Undoing an edited file keeps the invariant.
LEMMA UndoFileKeeps ==
  ASSUME NEW s, Inv(s), NEW c, UndoneNow(s, c), c.kind = "file"
  PROVE  Inv(UndoFile([s EXCEPT !.proc.todo = Tail(@)], c))
<1> DEFINE next == [s EXCEPT !.proc.todo = Tail(@)]
           t == UndoFile(next, c)
           p == c.path
           L == Pending(s)
           n == Len(s.proc.todo)
           K == Rest(L, n)
           f == s.disk[p]
           B == Saved(s.backups, p)
           own == s.users[p]
           th == s.theirs[p]
           sh == p \in s.others
           hf == s.halfUndone
           ur == s.unrecorded
<1> SUFFICES Inv(t)
  OBVIOUS
<1> HIDE DEF t
<1>0. /\ s.proc.op = "undo" /\ s.proc.todo # <<>> /\ c = Head(s.proc.todo) /\ ~s.proc.a.dry /\ Shape(s) /\ CoreOf(s)
      /\ Typed(s.disk, s.backups, s.taken, s.users, s.theirs, s.others)
  BY DEF UndoneNow, Inv, CoreOf, Core
<1>1. /\ p \in Watched /\ p \in Paths \ Settled /\ RecordOf(p, c, B) /\ L[n] = c
      /\ OnPath(L, p) \subseteq Int /\ Latest(OnPath(L, p), n) /\ OnPath(K, p) = OnPath(L, p) \ {n}
      /\ \A i \in OnPath(K, p) : K[i] = L[i]
      /\ \A b \in s.backups : b.id = c.backup => b \in B
  BY UndoneIsLast
<1>2. /\ PathOk(p, f, B, own, th, sh, L, hf, ur)
      /\ own \in Nat \cup {None} /\ th \in SUBSET Keys /\ sh \in BOOLEAN /\ hf \in BOOLEAN /\ ur \in BOOLEAN
      /\ (f = None \/ (IsFile(f) /\ Formed(p, f))) /\ p \in Paths
  <2>1. p \in Paths \ Settled /\ p \in Paths
    BY ONLY <1>1
  <2> HIDE DEF p
  <2>2. PathOk(p, f, B, own, th, sh, L, hf, ur)
    BY ONLY <1>0, <2>1 DEF CoreOf, Core
  <2>3. own \in Nat \cup {None} /\ th \in SUBSET Keys
    BY ONLY <1>0, <2>1 DEF Typed
  <2>4. f = None \/ (IsFile(f) /\ Formed(p, f))
    BY ONLY <1>0, <2>1 DEF Typed
  <2>5. sh \in BOOLEAN /\ hf \in BOOLEAN /\ ur \in BOOLEAN
    BY ONLY <1>0 DEF Shape
  <2> QED BY <2>1, <2>2, <2>3, <2>4, <2>5
<1>3. ASSUME NEW g, NEW A \in SUBSET s.backups, g = None \/ (IsFile(g) /\ Formed(p, g)), \A b \in s.backups \ A : b.path = p,
             PathOk(p, g, Saved(A, p), own, th, sh, K, hf, ur)
      PROVE  Inv(With(s, [s.disk EXCEPT ![p] = g], A, s.taken, Popped(s)))
  BY <1>0, <1>3, DropKeeps
<1>4. /\ next = With(s, s.disk, s.backups, s.taken, Popped(s)) /\ next.disk = s.disk /\ next.backups = s.backups
      /\ \A d : [next EXCEPT !.disk = d] = With(s, d, s.backups, s.taken, Popped(s))
      /\ \A d, A : [[next EXCEPT !.disk = d] EXCEPT !.backups = A] = With(s, d, A, s.taken, Popped(s))
  <2> HIDE DEF p, L, n, K, f, B
  <2>1. next = With(s, s.disk, s.backups, s.taken, Popped(s)) /\ next.disk = s.disk /\ next.backups = s.backups
    BY <1>0, NextIs
  <2>2. ASSUME NEW d PROVE [next EXCEPT !.disk = d] = With(s, d, s.backups, s.taken, Popped(s))
    BY <1>0, NextIs
  <2>3. ASSUME NEW d, NEW A PROVE [[next EXCEPT !.disk = d] EXCEPT !.backups = A] = With(s, d, A, s.taken, Popped(s))
    <3> DEFINE x == [next EXCEPT !.disk = d]
    <3>1. x = With(s, d, s.backups, s.taken, Popped(s))
      BY <2>2
    <3> HIDE DEF x
    <3>2. x = [disk |-> d, asked |-> s.asked, manifest |-> s.manifest, backups |-> s.backups, taken |-> s.taken,
               proc |-> Popped(s), runs |-> s.runs, edits |-> s.edits, users |-> s.users, theirs |-> s.theirs,
               others |-> s.others, unrecorded |-> s.unrecorded, halfUndone |-> s.halfUndone]
      BY ONLY <1>0, <3>1, StateWith
    <3>3. With(s, d, A, s.taken, Popped(s)) =
              [disk |-> d, asked |-> s.asked, manifest |-> s.manifest, backups |-> A, taken |-> s.taken,
               proc |-> Popped(s), runs |-> s.runs, edits |-> s.edits, users |-> s.users, theirs |-> s.theirs,
               others |-> s.others, unrecorded |-> s.unrecorded, halfUndone |-> s.halfUndone]
      BY ONLY <1>0, StateWith
    <3>4. [x EXCEPT !.backups = A] = With(s, d, A, s.taken, Popped(s))
      BY ONLY <3>2, <3>3
    <3> QED BY <3>4 DEF x
  <2> HIDE DEF next
  <2> QED BY <2>1, <2>2, <2>3
<1>5. s.disk = [s.disk EXCEPT ![p] = f]
  BY <1>0 DEF Typed
<1>6. L[n].json = c.json /\ L[n].after = c.after /\ L[n].backup = c.backup
  BY <1>1
<1>l. LastRecord(p, L, K, n, B)
  BY <1>1 DEF LastRecord
<1> HIDE DEF next
<1>7. ASSUME PathOk(p, f, B, own, th, sh, K, hf, ur)  PROVE Inv(next)
  <2>1. Inv(With(s, [s.disk EXCEPT ![p] = f], s.backups, s.taken, Popped(s)))
    BY <1>2, <1>3, <1>7
  <2> QED BY <2>1, <1>4, <1>5
<1>8. CASE f = None
  <2>1. t = next
    BY <1>4, <1>8 DEF t, UndoFile
  <2>2. PathOk(p, f, B, own, th, sh, K, hf, ur)
    <3> HIDE DEF p, L, n, K, f, B, own, th, sh, hf, ur
    <3> QED BY ONLY <1>l, <1>2, <1>8, ChangedSince
  <2> QED BY <2>1, <2>2, <1>7
<1>9. CASE f # None /\ f = c.after /\ c.backup # None
  <2> DEFINE kept == {b \in s.backups : b.id = c.backup}
  <2>1. t = RestoreBackup(next, c)
    BY <1>4, <1>9 DEF t, UndoFile
  <2>2. CASE kept = {}
    <3>1. t = next
      BY <2>1, <2>2, <1>4 DEF RestoreBackup
    <3>2. PathOk(p, f, B, own, th, sh, K, hf, ur)
      <4>1. n \in OnPath(L, p) /\ L[n].backup # None /\ \A b \in B : b.id # L[n].backup
        BY <2>2, <1>1, <1>6, <1>9 DEF Latest, Saved
      <4> HIDE DEF p, L, n, K, f, B, own, th, sh, hf, ur
      <4> QED BY ONLY <4>1, <1>2, CopyIsGone
    <3> QED BY <3>1, <3>2, <1>7
  <2>3. CASE kept # {}
    <3> DEFINE back == CHOOSE b \in kept : TRUE
               A == s.backups \ kept
    <3>1. back \in kept
      BY <2>3
    <3>2. t = [[next EXCEPT !.disk = [s.disk EXCEPT ![p] = back.content]] EXCEPT !.backups = A]
      <4>1. t = [next EXCEPT !.disk[p] = back.content, !.backups = @ \ kept]
        BY <2>1, <2>3, <1>4 DEF RestoreBackup
      <4> HIDE DEF back, kept, p
      <4>2. [next EXCEPT !.disk[p] = back.content] = [next EXCEPT !.disk = [s.disk EXCEPT ![p] = back.content]]
        BY <1>4
      <4>3. [next EXCEPT !.disk = [s.disk EXCEPT ![p] = back.content]].backups = s.backups
        <5>1. next = [disk |-> s.disk, asked |-> s.asked, manifest |-> s.manifest, backups |-> s.backups, taken |-> s.taken,
                      proc |-> Popped(s), runs |-> s.runs, edits |-> s.edits, users |-> s.users, theirs |-> s.theirs,
                      others |-> s.others, unrecorded |-> s.unrecorded, halfUndone |-> s.halfUndone]
          <6>1. next = With(s, s.disk, s.backups, s.taken, Popped(s))
            BY <1>4
          <6> QED BY ONLY <1>0, <6>1, StateWith
        <5> QED BY <5>1
      <4> QED BY <4>1, <4>2, <4>3
    <3> HIDE DEF back
    <3>3. back \in B /\ back \in s.backups /\ back.id = L[n].backup
      BY <1>1, <1>6, <3>1
    <3>4. \A b1, b2 \in s.backups : b1.id = b2.id => b1 = b2
      BY <1>0 DEF Typed
    <3>5. kept = {back} /\ Saved(A, p) = B \ {back}
      <4>1. kept = {back}
        BY <3>1, <3>4
      <4> QED BY <4>1 DEF Saved
    <3>6. /\ IsFile(back.content) /\ Formed(p, back.content)
          /\ \A b \in B : b.id \in Nat /\ IsFile(b.content) /\ (p = "rule" => b.content # TheRule)
      BY <1>0, <3>3 DEF Typed, Saved
    <3> DEFINE g == back.content
               BB == B \ {back}
    <3>7. PathOk(p, g, BB, own, th, sh, K, hf, ur)
      <4>1. f # None /\ f = L[n].after
        BY <1>1, <1>9, <1>6
      <4>2. \A b1, b2 \in B : b1.id = b2.id => b1 = b2
        BY <3>4 DEF Saved
      <4>3. \A b \in B : b.id \in Nat /\ IsFile(b.content) /\ (p = "rule" => b.content # TheRule)
        BY <3>6
      <4>4. CopyOf(p, B, back, L[n].backup, g, BB)
        BY <4>2, <4>3, <3>3 DEF CopyOf
      <4> HIDE DEF p, L, n, K, f, B, own, th, sh, hf, ur, g, BB
      <4>5. ComesBack(p, f, B, L, K, n, back, g, BB)
        BY ONLY <4>1, <4>4, <1>l DEF ComesBack
      <4> QED BY ONLY <4>5, <1>2, CopyComesBack
    <3>8. PathOk(p, back.content, Saved(A, p), own, th, sh, K, hf, ur)
      BY <3>5, <3>7
    <3>9. A \in SUBSET s.backups /\ \A b \in s.backups \ A : b.path = p
      BY <1>1 DEF Saved
    <3>10. Inv(With(s, [s.disk EXCEPT ![p] = back.content], A, s.taken, Popped(s)))
      BY <1>3, <3>6, <3>8, <3>9
    <3>11. t = With(s, [s.disk EXCEPT ![p] = back.content], A, s.taken, Popped(s))
      BY <3>2, <1>4
    <3> QED BY <3>10, <3>11
  <2> QED BY <2>2, <2>3
<1>10. ASSUME NEW g, t = [next EXCEPT !.disk[c.path] = g], g = None \/ (IsFile(g) /\ Formed(p, g)),
              PathOk(p, g, B, own, th, sh, K, hf, ur)
       PROVE  Inv(t)
  <2>1. t = With(s, [s.disk EXCEPT ![p] = g], s.backups, s.taken, Popped(s))
    <3>1. t = [next EXCEPT !.disk = [s.disk EXCEPT ![p] = g]]
      BY <1>10, <1>4
    <3> QED BY <3>1, <1>4
  <2>2. Inv(With(s, [s.disk EXCEPT ![p] = g], s.backups, s.taken, Popped(s)))
    BY <1>3, <1>10
  <2> QED BY <2>1, <2>2
<1>11. CASE f # None /\ f = c.after /\ c.backup = None
  <2>1. t = [next EXCEPT !.disk[c.path] = None]
    BY <1>4, <1>11 DEF t, UndoFile
  <2>2. PathOk(p, None, B, own, th, sh, K, hf, ur)
    <3>1. f # None /\ f = L[n].after /\ L[n].backup = None
      BY <1>1, <1>6, <1>11
    <3>2. \A b \in B : b.id \in Nat
      BY <1>0 DEF Typed, Saved
    <3> HIDE DEF p, L, n, K, f, B, own, th, sh, hf, ur
    <3> QED BY ONLY <3>1, <3>2, <1>l, <1>2, CreatedGoes
  <2> QED BY <2>1, <2>2, <1>10
<1>12. CASE f # None /\ f # c.after
  <2> DEFINE g == RemoveJson(StripBlocks(f), c.json)
  <2>1. t = [next EXCEPT !.disk[c.path] = g]
    BY <1>4, <1>12 DEF t, UndoFile
  <2>2. IsFile(g) /\ Formed(p, g) /\ Stripped(p, f, g, c)
    BY <1>1, <1>2, <1>12, StripLeaves DEF RecordOf
  <2>3. PathOk(p, g, B, own, th, sh, K, hf, ur)
    <3>1. f # None /\ f # L[n].after /\ Stripped(p, f, g, L[n])
      BY <1>1, <1>6, <1>12, <2>2
    <3> HIDE DEF p, L, n, K, f, B, own, th, sh, hf, ur, g
    <3> QED BY ONLY <3>1, <1>l, <1>2, ChangedSince
  <2> HIDE DEF g
  <2> QED BY <2>1, <2>2, <2>3, <1>10
<1> QED BY <1>8, <1>9, <1>11, <1>12

\* Undoing a skill or an entry of an agent's CLI keeps the invariant.
LEMMA UndoElsewhereKeeps ==
  ASSUME NEW s, Inv(s), NEW c, UndoneNow(s, c), c.kind # "file"
  PROVE  Inv(UndoChange([s EXCEPT !.proc.todo = Tail(@)], c)) /\ Inv([s EXCEPT !.proc.todo = Tail(@)])
<1> DEFINE next == [s EXCEPT !.proc.todo = Tail(@)]
           t == UndoChange(next, c)
           p == c.path
<1> SUFFICES Inv(t) /\ Inv(next)
  OBVIOUS
<1> HIDE DEF t
<1>0. /\ s.proc.op = "undo" /\ s.proc.todo # <<>> /\ c = Head(s.proc.todo) /\ ~s.proc.a.dry /\ Shape(s)
      /\ Typed(s.disk, s.backups, s.taken, s.users, s.theirs, s.others)
  BY DEF UndoneNow, Inv, CoreOf, Core
<1>1. EntryOk(c, s.backups, s.taken) /\ p \in Paths
  BY <1>0, UndoAt
<1>2. p \in Settled /\ c.kind \in {"dir", "cli"} /\ \A b \in s.backups : b.id = c.backup => b.path = p
  BY <1>1 DEF EntryOk
<1>3. ASSUME NEW g, NEW A \in SUBSET s.backups, g = None \/ (IsFile(g) /\ Formed(p, g)), \A b \in s.backups \ A : b.path = p
      PROVE  Inv(With(s, [s.disk EXCEPT ![p] = g], A, s.taken, Popped(s)))
  BY <1>0, <1>2, <1>3, DropKeeps
<1>4. /\ next = With(s, s.disk, s.backups, s.taken, Popped(s)) /\ next.disk = s.disk /\ next.backups = s.backups
      /\ \A d : [next EXCEPT !.disk = d] = With(s, d, s.backups, s.taken, Popped(s))
  <2> HIDE DEF p
  <2>1. next = With(s, s.disk, s.backups, s.taken, Popped(s)) /\ next.disk = s.disk /\ next.backups = s.backups
    BY <1>0, NextIs
  <2>2. ASSUME NEW d PROVE [next EXCEPT !.disk = d] = With(s, d, s.backups, s.taken, Popped(s))
    BY <1>0, NextIs
  <2> HIDE DEF next
  <2> QED BY <2>1, <2>2
<1> HIDE DEF next
<1>5. s.disk = [s.disk EXCEPT ![p] = s.disk[p]] /\ (s.disk[p] = None \/ (IsFile(s.disk[p]) /\ Formed(p, s.disk[p])))
  BY <1>0, <1>1 DEF Typed
<1>6. Inv(next)
  <2>1. Inv(With(s, [s.disk EXCEPT ![p] = s.disk[p]], s.backups, s.taken, Popped(s)))
    BY <1>3, <1>5
  <2> QED BY <2>1, <1>4, <1>5
<1>7. ASSUME NEW g, t = [next EXCEPT !.disk[p] = g], g = None \/ (IsFile(g) /\ Formed(p, g))
      PROVE  Inv(t)
  <2>1. t = With(s, [s.disk EXCEPT ![p] = g], s.backups, s.taken, Popped(s))
    <3>1. t = [next EXCEPT !.disk = [s.disk EXCEPT ![p] = g]]
      BY <1>7, <1>4
    <3> QED BY <3>1, <1>4
  <2>2. Inv(With(s, [s.disk EXCEPT ![p] = g], s.backups, s.taken, Popped(s)))
    BY <1>3, <1>7
  <2> QED BY <2>1, <2>2
<1>8. CASE c.kind = "cli"
  <2> DEFINE f == s.disk[p]
             g == IF f = None THEN None ELSE [f EXCEPT !.at["delegate"] = "none"]
  <2>1. t = [next EXCEPT !.disk[p] = g]
    BY <1>4, <1>8 DEF t, UndoChange, UndoCli
  <2>2. g = None \/ (IsFile(g) /\ Formed(p, g))
    <3>1. CASE f = None
      BY <3>1
    <3>2. CASE f # None
      <4>1. IsFile(f) /\ "delegate" \in Keys /\ "none" \in {"none", "theirs", "other"} \cup Ours
        BY <3>2, <1>5 DEF Keys
      <4> DEFINE h == [f EXCEPT !.at["delegate"] = "none"]
      <4>2. Put(f, "delegate", "none", {}, h)
        BY <4>1, EntryPut
      <4>3. IsFile(h)
        BY <4>2 DEF Put
      <4>4. p \notin JsonFiles \cup {"rule", "hermes.yaml", "config.toml"}
        BY <1>2, PathKinds DEF Forms, Watched
      <4>5. Formed(p, h)
        BY <4>4 DEF Formed
      <4> QED BY <3>2, <4>3, <4>5
    <3> QED BY <3>1, <3>2
  <2> HIDE DEF g
  <2> QED BY <2>1, <2>2, <1>6, <1>7
<1>9. CASE c.kind = "dir"
  <2> DEFINE kept == {b \in s.backups : b.id = c.backup}
             x == [next EXCEPT !.disk[p] = None]
  <2>1. t = RestoreBackup(x, c)
    BY <1>9 DEF t, UndoChange, UndoDir
  <2>2. x = With(s, [s.disk EXCEPT ![p] = None], s.backups, s.taken, Popped(s))
    <3>1. x = [next EXCEPT !.disk = [s.disk EXCEPT ![p] = None]]
      BY <1>4
    <3> QED BY <3>1, <1>4
  <2>3. /\ x = [disk |-> [s.disk EXCEPT ![p] = None], asked |-> s.asked, manifest |-> s.manifest, backups |-> s.backups, taken |-> s.taken,
                proc |-> Popped(s), runs |-> s.runs, edits |-> s.edits, users |-> s.users, theirs |-> s.theirs,
                others |-> s.others, unrecorded |-> s.unrecorded, halfUndone |-> s.halfUndone]
    <3> HIDE DEF x, p
    <3> QED BY ONLY <1>0, <2>2, StateWith
  <2>4. x.backups = s.backups /\ x.disk = [s.disk EXCEPT ![p] = None]
    <3> HIDE DEF x
    <3> QED BY <2>3
  <2>5. CASE kept = {}
    <3>1. t = x
      <4> HIDE DEF x
      <4> QED BY <2>1, <2>4, <2>5 DEF RestoreBackup
    <3> QED BY <3>1, <1>6, <1>7
  <2>6. CASE kept # {}
    <3> DEFINE back == CHOOSE b \in kept : TRUE
               A == s.backups \ kept
    <3>1. back \in kept
      BY <2>6
    <3>2. t = [x EXCEPT !.disk[p] = back.content, !.backups = @ \ kept]
      <4> HIDE DEF x
      <4> QED BY <2>1, <2>4, <2>6 DEF RestoreBackup
    <3> HIDE DEF back, x
    <3>3. t = [disk |-> [s.disk EXCEPT ![p] = back.content], asked |-> s.asked, manifest |-> s.manifest, backups |-> A, taken |-> s.taken,
               proc |-> Popped(s), runs |-> s.runs, edits |-> s.edits, users |-> s.users, theirs |-> s.theirs,
               others |-> s.others, unrecorded |-> s.unrecorded, halfUndone |-> s.halfUndone]
      <4>1. [[s.disk EXCEPT ![p] = None] EXCEPT ![p] = back.content] = [s.disk EXCEPT ![p] = back.content]
        BY <1>0 DEF Typed
      <4> HIDE DEF kept
      <4> DEFINE y == [x EXCEPT !.disk[p] = back.content]
      <4>2. y = [disk |-> [s.disk EXCEPT ![p] = back.content], asked |-> s.asked, manifest |-> s.manifest, backups |-> s.backups, taken |-> s.taken,
               proc |-> Popped(s), runs |-> s.runs, edits |-> s.edits, users |-> s.users, theirs |-> s.theirs,
               others |-> s.others, unrecorded |-> s.unrecorded, halfUndone |-> s.halfUndone]
        BY <2>3, <4>1
      <4>3. t = [y EXCEPT !.backups = @ \ kept]
        BY <3>2
      <4> HIDE DEF y
      <4> QED BY <4>2, <4>3
    <3>4. t = With(s, [s.disk EXCEPT ![p] = back.content], A, s.taken, Popped(s))
      <4> HIDE DEF A, p
      <4> QED BY ONLY <1>0, <3>3, StateWith
    <3>5. IsFile(back.content) /\ Formed(p, back.content)
      BY <1>0, <1>2, <3>1 DEF Typed
    <3>6. A \in SUBSET s.backups /\ \A b \in s.backups \ A : b.path = p
      BY <1>2
    <3>7. Inv(With(s, [s.disk EXCEPT ![p] = back.content], A, s.taken, Popped(s)))
      BY <1>3, <3>5, <3>6
    <3> QED BY <3>4, <3>7, <1>6
  <2> QED BY <2>5, <2>6
<1> QED BY <1>2, <1>6, <1>8, <1>9

\* A record of another agent, or of a dry run, is kept in its place.
LEMMA KeepsRecord ==
  ASSUME NEW s, Inv(s), s.proc.op = "undo", s.proc.todo # <<>>, NEW c, c = Head(s.proc.todo),
         (s.proc.hs # <<>> /\ ~Contains(s.proc.hs, c.h)) \/ s.proc.a.dry,
         NEW t, t = [s EXCEPT !.proc = t.proc],
         t.proc = [op |-> "undo", a |-> s.proc.a, hs |-> s.proc.hs, todo |-> Tail(s.proc.todo),
                   changes |-> <<c>> \o s.proc.changes, h |-> s.proc.h, open |-> s.proc.open]
  PROVE  Inv(t)
<1> DEFINE n == Len(s.proc.todo)
           m == Len(s.proc.changes)
           L == Pending(s)
           M == Pending(t)
           q == Tail(s.proc.todo)
           ch == s.proc.changes
           r == <<c>> \o ch
<1>0. /\ Shape(s) /\ ProcOk(s) /\ Undoing(s) /\ Records(s) /\ IsRun(s.proc.a) /\ IsList(ch)
  BY DEF Inv, ProcOk, Shape
<1>1. /\ n \in Nat \ {0} /\ m \in Nat /\ IsList(L) /\ Len(L) = n + m /\ DOMAIN L = 1..(n + m) /\ L[n] = c
      /\ s.manifest[n] = c /\ n \in DOMAIN s.manifest
  BY UndoAt
<1>2. /\ IsList(q) /\ Len(q) = n - 1 /\ DOMAIN q = 1..(n - 1)
      /\ n - 1 \in Nat /\ n - 1 <= Len(s.manifest) /\ \A i \in 1..(n - 1) : q[i] = s.manifest[n - i]
  BY PoppedIs
<1>3. IsList(r) /\ Len(r) = m + 1 /\ DOMAIN r = 1..(m + 1) /\ r[1] = c /\ \A i \in 1..m : r[i + 1] = ch[i]
  <2> HIDE DEF ch
  <2> QED BY <1>0, ListPut DEF m, ch
<1>d. DOMAIN ch = 1..m
  BY <1>0, ListIs
<1> HIDE DEF q, r
<1>4. /\ t.proc.op = "undo" /\ t.proc.a = s.proc.a /\ t.proc.hs = s.proc.hs /\ t.proc.todo = q /\ t.proc.changes = r
      /\ t.proc = [op |-> t.proc.op, a |-> t.proc.a, hs |-> t.proc.hs, todo |-> t.proc.todo, changes |-> t.proc.changes,
                   h |-> t.proc.h, open |-> t.proc.open]
  BY DEF q, r
<1>5. Unmoved(s, t) /\ t.unrecorded = s.unrecorded /\ t.manifest = s.manifest
  BY <1>0 DEF Shape, Unmoved
<1>6. Shape(t)
  BY <1>0, <1>2, <1>3, <1>4 DEF Shape
<1>7. ProcOk(t)
  <2>1. Undoing(t)
    <3>1. \A i \in 1..(n - 1) : t.proc.todo[i] = t.manifest[(n - 1) + 1 - i]
      <4> SUFFICES ASSUME NEW i \in 1..(n - 1) PROVE q[i] = s.manifest[(n - 1) + 1 - i]
        BY <1>4, <1>5
      <4>1. (n - 1) + 1 - i = n - i
        BY <1>1
      <4> QED BY <4>1, <1>2
    <3>2. Len(t.proc.todo) = n - 1 /\ Len(t.proc.changes) = m + 1
      BY <1>2, <1>3, <1>4
    <3>3. \A i \in DOMAIN r : i = 1 \/ (i - 1 \in DOMAIN ch /\ r[i] = ch[i - 1])
      <4> SUFFICES ASSUME NEW i \in 1..(m + 1), i # 1 PROVE i - 1 \in 1..m /\ r[i] = ch[i - 1]
        BY <1>3, <1>d
      <4>1. i - 1 \in 1..m /\ (i - 1) + 1 = i
        BY <1>1
      <4> QED BY <4>1, <1>3
    <3>4. \A i \in DOMAIN r : \E j \in DOMAIN s.manifest : r[i] = s.manifest[j]
      <4>1. \A i \in DOMAIN ch : \E j \in DOMAIN s.manifest : ch[i] = s.manifest[j]
        BY <1>0 DEF Undoing
      <4>2. r[1] = s.manifest[n] /\ n \in DOMAIN s.manifest
        BY ONLY <1>1, <1>3
      <4> HIDE DEF ch, n
      <4> SUFFICES ASSUME NEW i \in DOMAIN r PROVE \E j \in DOMAIN s.manifest : r[i] = s.manifest[j]
        OBVIOUS
      <4> QED BY ONLY <4>1, <4>2, <3>3, i \in DOMAIN r
    <3>5. \A i \in DOMAIN r : (s.proc.hs # <<>> /\ ~Contains(s.proc.hs, r[i].h)) \/ s.proc.a.dry
      <4> SUFFICES ASSUME NEW i \in DOMAIN r, ~s.proc.a.dry PROVE s.proc.hs # <<>> /\ ~Contains(s.proc.hs, r[i].h)
        OBVIOUS
      <4>1. CASE i = 1
        BY <4>1, <1>3
      <4>2. CASE i # 1
        <5>1. i - 1 \in DOMAIN ch /\ r[i] = ch[i - 1]
          BY <3>3, <4>2
        <5>2. (s.proc.hs # <<>> /\ ~Contains(s.proc.hs, ch[i - 1].h)) \/ s.proc.a.dry
          BY <1>0, <5>1 DEF Undoing
        <5> QED BY <5>1, <5>2
      <4> QED BY <4>1, <4>2
    <3>6. s.proc.a.dry => (n - 1) + (m + 1) = Len(s.manifest) /\ \A i \in DOMAIN r : r[i] = s.manifest[n - 1 + i]
      <4> SUFFICES ASSUME s.proc.a.dry
                   PROVE  (n - 1) + (m + 1) = Len(s.manifest) /\ \A i \in DOMAIN r : r[i] = s.manifest[n - 1 + i]
        OBVIOUS
      <4>1. n + m = Len(s.manifest) /\ \A i \in DOMAIN ch : ch[i] = s.manifest[n + i]
        BY <1>0 DEF Undoing
      <4>2. ASSUME NEW i \in DOMAIN r PROVE r[i] = s.manifest[n - 1 + i]
        <5>1. CASE i = 1
          BY <5>1, <1>1, <1>3
        <5>2. CASE i # 1
          <6>1. i - 1 \in DOMAIN ch /\ r[i] = ch[i - 1]
            BY <3>3, <5>2
          <6>2. n + (i - 1) = n - 1 + i
            BY <1>1, <1>3
          <6> QED BY <6>1, <6>2, <4>1
        <5> QED BY <5>1, <5>2
      <4> HIDE DEF n, m
      <4>3. (n - 1) + (m + 1) = n + m
        BY ONLY <1>1
      <4> QED BY <4>1, <4>2, <4>3
    <3> HIDE DEF n, m
    <3>7. /\ n - 1 <= Len(t.manifest) /\ Len(t.proc.todo) = n - 1 /\ Len(t.proc.changes) = m + 1
          /\ \A i \in DOMAIN t.proc.changes : \E j \in DOMAIN t.manifest : t.proc.changes[i] = t.manifest[j]
      <4>1. n - 1 <= Len(t.manifest)
        BY ONLY <1>1, <1>2, <1>5
      <4>2. \A i \in DOMAIN t.proc.changes : \E j \in DOMAIN t.manifest : t.proc.changes[i] = t.manifest[j]
        BY ONLY <3>4, <1>4, <1>5
      <4> QED BY ONLY <4>1, <4>2, <3>2
    <3>8. \A i \in DOMAIN t.proc.changes : (t.proc.hs # <<>> /\ ~Contains(t.proc.hs, t.proc.changes[i].h)) \/ t.proc.a.dry
      BY <1>4, <3>5
    <3>9. t.proc.a.dry => (n - 1) + (m + 1) = Len(t.manifest) /\ \A i \in DOMAIN t.proc.changes : t.proc.changes[i] = t.manifest[n - 1 + i]
      BY <1>4, <1>5, <3>6
    <3> QED BY ONLY <3>1, <3>7, <3>8, <3>9 DEF Undoing
  <2> QED BY <2>1, <1>0, <1>4 DEF ProcOk
<1>8. M = L
  <2>1. (\A i \in 1..n : L[i] = s.manifest[i]) /\ \A i \in 1..m : L[n + i] = ch[i]
    BY <1>0, PendingIs
  <2>2. LET k == Len(t.proc.todo)
            l == Len(t.proc.changes)
        IN /\ Len(M) = k + l /\ \A i \in 1..k : M[i] = t.manifest[i]
           /\ \A i \in 1..l : M[k + i] = t.proc.changes[i]
    BY <1>4, <1>6, <1>7, PendingIs
  <2>3. Len(t.proc.todo) = n - 1 /\ Len(t.proc.changes) = m + 1
    BY <1>2, <1>3, <1>4
  <2> HIDE DEF n, m, ch, L, M
  <2>4. Len(M) = Len(L)
    <3>1. Len(M) = Len(t.proc.todo) + Len(t.proc.changes)
      BY <2>2
    <3>2. (n - 1) + (m + 1) = n + m
      BY <1>1
    <3> QED BY ONLY <3>1, <3>2, <2>3, <1>1
  <2>5. ASSUME NEW i \in 1..Len(L) PROVE M[i] = L[i]
    <3>1. CASE i < n
      <4>1. i \in 1..(n - 1) /\ i \in 1..n
        BY <3>1, <1>1
      <4> QED BY <4>1, <2>1, <2>2, <2>3, <1>5
    <3>2. CASE i = n
      <4>1. 1 \in 1..(m + 1) /\ n - 1 + 1 = n
        BY <1>1
      <4>2. M[n - 1 + 1] = t.proc.changes[1]
        BY <4>1, <2>2, <2>3
      <4> QED BY <3>2, <4>1, <4>2, <1>1, <1>3, <1>4
    <3>3. CASE i > n
      <4>1. i - n \in 1..m /\ i - n + 1 \in 1..(m + 1) /\ n - 1 + (i - n + 1) = i /\ n + (i - n) = i
        BY <3>3, <1>1
      <4>2. M[n - 1 + (i - n + 1)] = r[i - n + 1]
        BY <4>1, <2>2, <2>3, <1>4
      <4>3. L[n + (i - n)] = ch[i - n] /\ r[i - n + 1] = ch[i - n]
        BY <4>1, <2>1, <1>3
      <4> QED BY <4>1, <4>2, <4>3
    <3> QED BY <3>1, <3>2, <3>3, <1>1
  <2>6. Pending(t) = Pending(s)
    BY <1>0, <1>6, <1>7, <2>4, <2>5, SamePending DEF L, M
  <2> QED BY <2>6 DEF L, M
<1>9. Entries(t) \subseteq Entries(s)
  <2> SUFFICES ASSUME NEW i \in DOMAIN r PROVE r[i] \in Entries(s)
    BY <1>4, <1>5 DEF Entries
  <2>1. CASE i = 1
    BY <2>1, <1>1, <1>3 DEF Entries
  <2>2. CASE i # 1
    <3>1. i - 1 \in 1..m /\ (i - 1) + 1 = i
      BY <2>2, <1>1, <1>3
    <3>2. r[i] = ch[i - 1] /\ i - 1 \in DOMAIN ch
      BY <3>1, <1>3, <1>d
    <3> QED BY <3>2 DEF Entries
  <2> QED BY <2>1, <2>2
<1> HIDE DEF M, L
<1> QED BY <1>5, <1>6, <1>7, <1>8, <1>9, ProcMoves DEF M, L

\* A step of undo keeps the invariant.
LEMMA UndoStepKeeps ==
  ASSUME Inv(u), UndoStep
  PROVE  Inv(u')
<1> DEFINE c == Head(u.proc.todo)
           next == [u EXCEPT !.proc.todo = Tail(@)]
<1>0. u.proc.op = "undo" /\ u.proc.todo # <<>> /\ Shape(u)
  BY DEF UndoStep, Doing, Inv
<1>1. PICK removed \in BOOLEAN :
        /\ (c.kind # "cli" => removed)
        /\ u' = IF KeepChange(c) THEN [next EXCEPT !.proc.changes = <<c>> \o @]
                ELSE IF removed THEN UndoChange(next, c) ELSE next
  BY DEF UndoStep
<1>2. KeepChange(c) <=> ((u.proc.hs # <<>> /\ ~Contains(u.proc.hs, c.h)) \/ u.proc.a.dry)
  BY DEF KeepChange
<1>3. CASE KeepChange(c)
  <2>1. u' = [next EXCEPT !.proc.changes = <<c>> \o @]
    BY <1>1, <1>3
  <2>2. /\ next = [u EXCEPT !.proc = next.proc]
        /\ next.proc = [op |-> "undo", a |-> u.proc.a, hs |-> u.proc.hs, todo |-> Tail(u.proc.todo),
                        changes |-> u.proc.changes, h |-> u.proc.h, open |-> u.proc.open]
    <3> HIDE DEF c
    <3> QED BY <1>0 DEF Shape
  <2> HIDE DEF next, c
  <2>3. /\ u' = [u EXCEPT !.proc = u'.proc]
        /\ u'.proc = [op |-> "undo", a |-> u.proc.a, hs |-> u.proc.hs, todo |-> Tail(u.proc.todo),
                      changes |-> <<c>> \o u.proc.changes, h |-> u.proc.h, open |-> u.proc.open]
    <3>1. next = [disk |-> u.disk, asked |-> u.asked, manifest |-> u.manifest, backups |-> u.backups, taken |-> u.taken,
                  proc |-> next.proc, runs |-> u.runs, edits |-> u.edits, users |-> u.users, theirs |-> u.theirs,
                  others |-> u.others, unrecorded |-> u.unrecorded, halfUndone |-> u.halfUndone]
      <4> DEFINE q == next.proc
      <4>1. next = [u EXCEPT !.proc = q]
        BY ONLY <2>2 DEF q
      <4>2. u = [disk |-> u.disk, asked |-> u.asked, manifest |-> u.manifest, backups |-> u.backups, taken |-> u.taken,
                  proc |-> u.proc, runs |-> u.runs, edits |-> u.edits, users |-> u.users, theirs |-> u.theirs,
                  others |-> u.others, unrecorded |-> u.unrecorded, halfUndone |-> u.halfUndone]
        BY <1>0 DEF Shape
      <4> HIDE DEF q
      <4>3. next = [disk |-> u.disk, asked |-> u.asked, manifest |-> u.manifest, backups |-> u.backups, taken |-> u.taken,
                  proc |-> q, runs |-> u.runs, edits |-> u.edits, users |-> u.users, theirs |-> u.theirs,
                  others |-> u.others, unrecorded |-> u.unrecorded, halfUndone |-> u.halfUndone]
        BY ONLY <4>1, <4>2
      <4> QED BY <4>3 DEF q
    <3>2. u'.proc = [next.proc EXCEPT !.changes = <<c>> \o @]
      BY ONLY <2>1, <3>1
    <3>3. u'.proc = [op |-> "undo", a |-> u.proc.a, hs |-> u.proc.hs, todo |-> Tail(u.proc.todo),
                     changes |-> <<c>> \o u.proc.changes, h |-> u.proc.h, open |-> u.proc.open]
      <4> DEFINE q == next.proc
                 x == <<c>> \o u.proc.changes
      <4>1. u'.proc = [q EXCEPT !.changes = <<c>> \o @]
        BY ONLY <3>2 DEF q
      <4>2. q = [op |-> "undo", a |-> u.proc.a, hs |-> u.proc.hs, todo |-> Tail(u.proc.todo),
                 changes |-> u.proc.changes, h |-> u.proc.h, open |-> u.proc.open]
        BY ONLY <2>2 DEF q
      <4> HIDE DEF q
      <4>3. q.changes = u.proc.changes
        BY ONLY <4>2
      <4>4. u'.proc = [q EXCEPT !.changes = x]
        BY ONLY <4>1, <4>3 DEF x
      <4> HIDE DEF x
      <4>5. u'.proc = [op |-> "undo", a |-> u.proc.a, hs |-> u.proc.hs, todo |-> Tail(u.proc.todo),
                       changes |-> x, h |-> u.proc.h, open |-> u.proc.open]
        BY ONLY <4>2, <4>4
      <4> QED BY ONLY <4>5 DEF x
    <3>4. u' = [disk |-> u.disk, asked |-> u.asked, manifest |-> u.manifest, backups |-> u.backups, taken |-> u.taken,
                proc |-> u'.proc, runs |-> u.runs, edits |-> u.edits, users |-> u.users, theirs |-> u.theirs,
                others |-> u.others, unrecorded |-> u.unrecorded, halfUndone |-> u.halfUndone]
      <4> DEFINE q == next.proc
                 x == [next.proc EXCEPT !.changes = <<c>> \o @]
      <4>1. u' = [next EXCEPT !.proc = x]
        BY ONLY <2>1, <3>1
      <4>2. next = [disk |-> u.disk, asked |-> u.asked, manifest |-> u.manifest, backups |-> u.backups, taken |-> u.taken,
                  proc |-> q, runs |-> u.runs, edits |-> u.edits, users |-> u.users, theirs |-> u.theirs,
                  others |-> u.others, unrecorded |-> u.unrecorded, halfUndone |-> u.halfUndone]
        BY ONLY <3>1 DEF q
      <4>3. u'.proc = x
        BY ONLY <3>2 DEF x
      <4> HIDE DEF q, x
      <4>4. u' = [disk |-> u.disk, asked |-> u.asked, manifest |-> u.manifest, backups |-> u.backups, taken |-> u.taken,
                  proc |-> x, runs |-> u.runs, edits |-> u.edits, users |-> u.users, theirs |-> u.theirs,
                  others |-> u.others, unrecorded |-> u.unrecorded, halfUndone |-> u.halfUndone]
        BY ONLY <4>1, <4>2
      <4> QED BY ONLY <4>3, <4>4
    <3>5. u' = [u EXCEPT !.proc = u'.proc]
      <4> DEFINE q == u'.proc
      <4>1. u' = [disk |-> u.disk, asked |-> u.asked, manifest |-> u.manifest, backups |-> u.backups, taken |-> u.taken,
                proc |-> q, runs |-> u.runs, edits |-> u.edits, users |-> u.users, theirs |-> u.theirs,
                others |-> u.others, unrecorded |-> u.unrecorded, halfUndone |-> u.halfUndone]
        BY ONLY <3>4 DEF q
      <4> HIDE DEF q
      <4>2. u' = [u EXCEPT !.proc = q]
        BY <4>1, <1>0 DEF Shape
      <4> QED BY <4>2 DEF q
    <3> QED BY ONLY <3>3, <3>5
  <2>4. (u.proc.hs # <<>> /\ ~Contains(u.proc.hs, c.h)) \/ u.proc.a.dry
    BY <1>2, <1>3
  <2>5. c = Head(u.proc.todo)
    BY DEF c
  <2> QED BY ONLY <1>0, <2>3, <2>4, <2>5, Inv(u), KeepsRecord
<1>4. CASE ~KeepChange(c)
  <2>1. UndoneNow(u, c)
    BY <1>0, <1>2, <1>4 DEF UndoneNow
  <2>2. u' = UndoChange(next, c) \/ (c.kind = "cli" /\ u' = next)
    BY <1>1, <1>4
  <2>3. CASE c.kind = "file"
    <3>1. u' = UndoFile(next, c)
      BY <2>2, <2>3 DEF UndoChange
    <3> HIDE DEF c
    <3>2. Inv(UndoFile(next, c))
      BY ONLY <2>1, <2>3, Inv(u), UndoFileKeeps
    <3> QED BY ONLY <3>1, <3>2
  <2>4. CASE c.kind # "file"
    <3> HIDE DEF c
    <3>1. Inv(UndoChange(next, c)) /\ Inv(next)
      BY ONLY <2>1, <2>4, Inv(u), UndoElsewhereKeeps
    <3> QED BY ONLY <2>2, <3>1
  <2> QED BY <2>3, <2>4
<1> QED BY <1>3, <1>4

----------------------------------------------------------------------------
(* Users and install-delegation                                              *)

\* Whoever changes one file, with or without a copy of what it was, while
\* nothing is recorded: another installer, or a user.
FileMoves(s, t, p, g, own, theirs) ==
  /\ t.disk = [s.disk EXCEPT ![p] = g] /\ t.users = [s.users EXCEPT ![p] = own] /\ t.theirs = [s.theirs EXCEPT ![p] = theirs]
  /\ t.asked = s.asked /\ t.manifest = s.manifest /\ t.halfUndone = s.halfUndone /\ t.unrecorded = s.unrecorded
  /\ t.others \subseteq Paths /\ \A q \in Paths \ {p} : q \in t.others <=> q \in s.others
  /\ s.proc.op \in {"none", "delegation"} /\ t.proc.op \in {"none", "delegation"}

\* A change of one path by somebody else keeps the invariant.
LEMMA FileMovesKeeps ==
  ASSUME NEW s, NEW t, Inv(s), Shape(t), ProcOk(t), NEW p \in Paths, NEW g, g = None \/ (IsFile(g) /\ Formed(p, g)),
         NEW own \in Nat \cup {None}, NEW theirs \in SUBSET Keys, FileMoves(s, t, p, g, own, theirs),
         CopiedAtMost(s, t.backups, t.taken, p),
         p \in Paths \ Settled => PathOk(p, g, Saved(t.backups, p), own, theirs, p \in t.others, s.manifest, s.halfUndone, s.unrecorded)
  PROVE  Inv(t)
<1>0. /\ Shape(s) /\ ProcOk(s) /\ CoreOf(s) /\ Records(s) /\ Typed(s.disk, s.backups, s.taken, s.users, s.theirs, s.others)
  BY DEF Inv, CoreOf, Core
<1>1. /\ t.disk = [s.disk EXCEPT ![p] = g] /\ t.users = [s.users EXCEPT ![p] = own] /\ t.theirs = [s.theirs EXCEPT ![p] = theirs]
      /\ t.asked = s.asked /\ t.manifest = s.manifest /\ t.halfUndone = s.halfUndone /\ t.unrecorded = s.unrecorded
      /\ t.others \in SUBSET Paths /\ \A q \in Paths \ {p} : q \in t.others <=> q \in s.others
  BY DEF FileMoves
<1>2. /\ s.disk = [q \in Paths |-> s.disk[q]] /\ s.users \in [Paths -> Nat \cup {None}] /\ s.theirs \in [Paths -> SUBSET Keys]
      /\ s.taken \in Nat
  BY <1>0 DEF Typed
<1>3. t.disk[p] = g /\ t.users[p] = own /\ t.theirs[p] = theirs
  BY <1>1, <1>2
<1>4. t.users \in [Paths -> Nat \cup {None}] /\ t.theirs \in [Paths -> SUBSET Keys]
  BY <1>1, <1>2
<1>5. \A q \in Paths \ {p} : SamePath(s, t, q)
  BY <1>1, <1>2 DEF SamePath, CopiedAtMost
<1>6. Pending(s) = s.manifest /\ Pending(t) = s.manifest
  <2>1. ASSUME NEW x, Shape(x), ProcOk(x), x.proc.op \in {"none", "delegation"}  PROVE Pending(x) = x.manifest
    <3>1. CASE x.proc.op = "none"
      BY <2>1, <3>1, PendingIs DEF Quiet
    <3>2. CASE x.proc.op = "delegation"
      BY <2>1, <3>2, PendingIs DEF ProcOk
    <3> QED BY <2>1, <3>1, <3>2
  <2> QED BY <2>1, <1>0, <1>1 DEF FileMoves
<1>7. Typed(t.disk, t.backups, t.taken, t.users, t.theirs, t.others)
  <2> DEFINE d == s.disk
             B == s.backups
             tk == s.taken
             us == s.users
             th == s.theirs
             ot == s.others
             A == t.backups
             t2 == t.taken
             us2 == t.users
             th2 == t.theirs
             ot2 == t.others
  <2>1. Typed(d, B, tk, us, th, ot) /\ us2 \in [Paths -> Nat \cup {None}] /\ th2 \in [Paths -> SUBSET Keys] /\ ot2 \in SUBSET Paths
        /\ t2 \in Nat /\ tk <= t2
        /\ (\A b \in A : b \in B \/ /\ b.id = tk + 1 /\ b.id <= t2 /\ b.path = p /\ b.content = d[p] /\ d[p] # None
                                    /\ p = "rule" => d[p] # TheRule)
        /\ \A b1, b2 \in A : (b1 \notin B /\ b2 \notin B) => b1 = b2
    BY <1>0, <1>1, <1>4 DEF CopiedAtMost
  <2> HIDE DEF d, B, tk, us, th, ot, A, t2, us2, th2, ot2
  <2>2. Typed([d EXCEPT ![p] = g], A, t2, us2, th2, ot2)
    BY <2>1, TypedOne
  <2> QED BY <2>2, <1>1 DEF d, A, t2, us2, th2, ot2
<1>8. \A c \in Entries(t) : EntryOk(c, t.backups, t.taken)
  <2>1. Entries(t) \subseteq Entries(s)
    <3>1. t.proc.changes = <<>> \/ t.proc.changes = s.manifest
      BY <1>1 DEF ProcOk, FileMoves
    <3> QED BY <3>1, <1>1, EmptyList DEF Entries
  <2> SUFFICES ASSUME NEW c \in Entries(s) PROVE EntryOk(c, t.backups, t.taken)
    BY <2>1
  <2>2. EntryOk(c, s.backups, s.taken) /\ s.taken \in Nat
    BY <1>0, <1>2 DEF CoreOf, Core
  <2>3. t.taken \in Nat /\ s.taken <= t.taken
    BY DEF CopiedAtMost
  <2>4. \A b \in t.backups : b \in s.backups \/ b.id \notin 1..s.taken
    BY <2>2 DEF CopiedAtMost
  <2>5. \A b \in t.backups : b.id \in Nat
    BY <1>7 DEF Typed
  <2> QED BY ONLY <2>2, <2>3, <2>4, <2>5, EntriesStay
<1>9. p \in Paths \ Settled => PathIn(t, p)
  BY <1>1, <1>3, <1>6 DEF PathIn
<1>10. \A q \in (Paths \ Settled) \ {p} :
         /\ SamePath(s, t, q) /\ OnPath(Pending(t), q) = OnPath(Pending(s), q)
         /\ \A i \in OnPath(Pending(s), q) : Pending(t)[i] = Pending(s)[i]
  BY <1>5, <1>6
<1>11. CoreOf(t)
  BY ONLY <1>0, <1>1, <1>7, <1>8, <1>9, <1>10, OnePath
<1> QED BY <1>0, <1>1, <1>11 DEF Inv, Records

\* Users, between two runs.
LEMMA UserDeletesKeeps ==
  ASSUME Inv(u), NEW p \in Paths, UserDeletes(p)
  PROVE  Inv(u')
<1> DEFINE others == u.others \ {p}
           disk == [u.disk EXCEPT ![p] = None]
           users == [u.users EXCEPT ![p] = None]
           theirs == [u.theirs EXCEPT ![p] = {}]
<1>0. /\ Shape(u) /\ ProcOk(u) /\ CoreOf(u) /\ Typed(u.disk, u.backups, u.taken, u.users, u.theirs, u.others)
      /\ u.proc.op = "none" /\ p \in Paths \ Settled
  BY DEF Inv, CoreOf, Core, UserDeletes, CanEdit, Quiet
<1>1. u' = [u EXCEPT !.edits = u.edits + 1, !.users = users, !.theirs = theirs, !.others = others, !.disk = disk]
  BY <1>0 DEF UserDeletes, Shape
<1>2. others \subseteq Paths /\ p \notin others /\ \A q \in Paths \ {p} : q \in others <=> q \in u.others
  BY <1>0 DEF Typed
<1> HIDE DEF others, disk, users, theirs
<1>3. /\ u'.edits = u.edits + 1 /\ u'.users = users /\ u'.theirs = theirs /\ u'.others = others /\ u'.disk = disk
      /\ u'.asked = u.asked /\ u'.manifest = u.manifest /\ u'.backups = u.backups /\ u'.taken = u.taken /\ u'.proc = u.proc
      /\ u'.runs = u.runs /\ u'.unrecorded = u.unrecorded /\ u'.halfUndone = u.halfUndone
      /\ u' = [disk |-> u'.disk, asked |-> u'.asked, manifest |-> u'.manifest, backups |-> u'.backups, taken |-> u'.taken,
               proc |-> u'.proc, runs |-> u'.runs, edits |-> u'.edits, users |-> u'.users, theirs |-> u'.theirs,
               others |-> u'.others, unrecorded |-> u'.unrecorded, halfUndone |-> u'.halfUndone]
  BY <1>0, <1>1 DEF Shape
<1>4. Shape(u')
  BY <1>0, <1>3 DEF Shape
<1>5. ProcOk(u')
  BY <1>0, <1>3 DEF ProcOk
<1>6. FileMoves(u, u', p, None, None, {})
  BY <1>0, <1>2, <1>3 DEF FileMoves, disk, users, theirs
<1>7. CopiedAtMost(u, u'.backups, u'.taken, p)
  BY <1>3, CopiesAre
<1>8. PathOk(p, None, Saved(u'.backups, p), None, {}, p \in u'.others, u.manifest, u.halfUndone, u.unrecorded)
  <2> DEFINE f == u.disk[p]
             B == Saved(u.backups, p)
             own == u.users[p]
             th == u.theirs[p]
             sh == p \in u.others
             L == u.manifest
             hf == u.halfUndone
             ur == u.unrecorded
  <2>1. Pending(u) = L
    BY <1>0, PendingIs DEF Quiet
  <2>2. PathOk(p, f, B, own, th, sh, L, hf, ur) /\ sh \in BOOLEAN /\ hf \in BOOLEAN /\ ur \in BOOLEAN /\ th \in SUBSET Keys
        /\ own \in Nat \cup {None}
    BY <1>0, <2>1 DEF CoreOf, Core, Typed, Shape
  <2>p. PathBefore(p, f, B, own, th, sh, L, hf, ur)
    BY <1>0, <2>2 DEF PathBefore
  <2> HIDE DEF f, B, own, th, sh, L, hf, ur
  <2>3. PathOk(p, None, B, None, {}, FALSE, L, hf, ur)
    BY ONLY <2>p, DeletedByUser
  <2>4. (p \in u'.others) = FALSE /\ Saved(u'.backups, p) = B
    BY <1>2, <1>3 DEF B
  <2> QED BY <2>3, <2>4 DEF L, hf, ur
<1>9. None \in Nat \cup {None} /\ {} \in SUBSET Keys
  OBVIOUS
<1> QED BY ONLY Inv(u), p \in Paths, <1>4, <1>5, <1>6, <1>7, <1>8, <1>9, FileMovesKeeps

\* Users edit a file.
LEMMA UserEditsKeeps ==
  ASSUME Inv(u), NEW p \in Paths, UserEdits(p)
  PROVE  Inv(u')
<1> DEFINE f == u.disk[p]
           text == 10 + u.edits
           parts == {k \in Keys : f.at[k] \in Ours} \cup (f.marks \cap {"generated"})
<1>0. /\ Shape(u) /\ ProcOk(u) /\ CoreOf(u) /\ Typed(u.disk, u.backups, u.taken, u.users, u.theirs, u.others)
      /\ u.proc.op = "none" /\ p \in Paths \ Settled /\ f # None /\ text \in Nat /\ text # 0
  <2>1. u.edits \in Nat
    BY DEF Inv, Shape
  <2>2. text \in Nat /\ text # 0
    BY <2>1
  <2> QED BY <2>2 DEF Inv, CoreOf, Core, UserEdits, CanEdit, Quiet
<1>1. PICK gone \in {{}} \cup {{k} : k \in parts}, comment \in BOOLEAN :
        u' = [u EXCEPT !.edits = @ + 1, !.users[p] = text, !.others = @ \ {p}, !.disk[p] = Touched(f, text, comment, gone)]
  BY DEF UserEdits
<1> DEFINE g == Touched(f, text, comment, gone)
           others == u.others \ {p}
           disk == [u.disk EXCEPT ![p] = g]
           users == [u.users EXCEPT ![p] = text]
<1>2. IsFile(f) /\ Formed(p, f)
  BY <1>0 DEF Typed
<1>3. u' = [u EXCEPT !.edits = u.edits + 1, !.users = users, !.others = others, !.disk = disk]
  BY <1>0, <1>1 DEF Shape
<1>4. IsFile(g) /\ Formed(p, g) /\ Fewer(f, g) /\ g.text = text /\ \A k \in Keys : f.at[k] = "theirs" => g.at[k] = "theirs"
  <2>1. gone = {} \/ \E k \in {q \in Keys : f.at[q] \in Ours} \cup (f.marks \cap {"generated"}) : gone = {k}
    OBVIOUS
  <2>2. text \in Nat /\ p \in Paths
    BY <1>0
  <2> HIDE DEF f, text, parts
  <2> QED BY ONLY <1>2, <2>1, <2>2, UserLeaves DEF g
<1> HIDE DEF g
<1>5. others \subseteq Paths /\ p \notin others /\ \A q \in Paths \ {p} : q \in others <=> q \in u.others
  BY <1>0 DEF Typed
<1>6. u.theirs = [u.theirs EXCEPT ![p] = u.theirs[p]] /\ u.theirs[p] \in SUBSET Keys
  BY <1>0 DEF Typed
<1> HIDE DEF others, disk, users
<1>7. /\ u'.edits = u.edits + 1 /\ u'.users = users /\ u'.theirs = u.theirs /\ u'.others = others /\ u'.disk = disk
      /\ u'.asked = u.asked /\ u'.manifest = u.manifest /\ u'.backups = u.backups /\ u'.taken = u.taken /\ u'.proc = u.proc
      /\ u'.runs = u.runs /\ u'.unrecorded = u.unrecorded /\ u'.halfUndone = u.halfUndone
      /\ u' = [disk |-> u'.disk, asked |-> u'.asked, manifest |-> u'.manifest, backups |-> u'.backups, taken |-> u'.taken,
               proc |-> u'.proc, runs |-> u'.runs, edits |-> u'.edits, users |-> u'.users, theirs |-> u'.theirs,
               others |-> u'.others, unrecorded |-> u'.unrecorded, halfUndone |-> u'.halfUndone]
  BY <1>0, <1>3 DEF Shape
<1>8. Shape(u')
  BY <1>0, <1>7 DEF Shape
<1>9. ProcOk(u')
  BY <1>0, <1>7 DEF ProcOk
<1>10. FileMoves(u, u', p, g, text, u.theirs[p])
  BY <1>0, <1>5, <1>6, <1>7 DEF FileMoves, disk, users
<1>11. CopiedAtMost(u, u'.backups, u'.taken, p)
  BY <1>7, CopiesAre
<1>12. PathOk(p, g, Saved(u'.backups, p), text, u.theirs[p], p \in u'.others, u.manifest, u.halfUndone, u.unrecorded)
  <2> DEFINE B == Saved(u.backups, p)
             own == u.users[p]
             th == u.theirs[p]
             sh == p \in u.others
             L == u.manifest
             hf == u.halfUndone
             ur == u.unrecorded
  <2>1. Pending(u) = L
    BY <1>0, PendingIs DEF Quiet
  <2>2. PathOk(p, f, B, own, th, sh, L, hf, ur) /\ sh \in BOOLEAN /\ hf \in BOOLEAN /\ ur \in BOOLEAN /\ th \in SUBSET Keys
        /\ own \in Nat \cup {None}
    BY <1>0, <2>1 DEF CoreOf, Core, Typed, Shape
  <2>3. g # TheRule
    BY <1>0, <1>4 DEF TheRule, Blank
  <2>p. PathBefore(p, f, B, own, th, sh, L, hf, ur) /\ UsersEdit(f, g, text)
    BY <1>0, <1>4, <2>2, <2>3 DEF PathBefore, UsersEdit
  <2> HIDE DEF f, B, text, own, th, sh, L, hf, ur
  <2>4. PathOk(p, g, B, text, th, FALSE, L, hf, ur)
    BY ONLY <2>p, EditedByUser
  <2>5. (p \in u'.others) = FALSE /\ Saved(u'.backups, p) = B
    BY <1>5, <1>7 DEF B
  <2> QED BY <2>4, <2>5 DEF th, L, hf, ur
<1>13. text \in Nat \cup {None} /\ u.theirs[p] \in SUBSET Keys /\ (g = None \/ (IsFile(g) /\ Formed(p, g)))
  BY <1>0, <1>4, <1>6
<1> HIDE DEF text
<1> QED BY ONLY Inv(u), p \in Paths, <1>8, <1>9, <1>10, <1>11, <1>12, <1>13, FileMovesKeeps

\* install-delegation, from one thing it installs to the next.
LEMMA DelegationKeeps ==
  ASSUME Inv(u), NEW a \in u.asked, Delegation(a)
  PROVE  Inv(u')
<1> DEFINE steps == ToolSteps(Head(a.hs), a)
           refused == \E i \in DOMAIN steps : ToolAttempt(At(u, steps[i].path), steps[i], a).out = "refused"
           proc == [op |-> "delegation", a |-> a, hs |-> <<>>, todo |-> steps, changes |-> u.manifest, h |-> None, open |-> {}]
<1>0. Shape(u) /\ ProcOk(u) /\ Quiet(u) /\ u.proc.op = "none" /\ u.proc.changes = <<>> /\ IsRun(a) /\ a.op = "delegation"
  BY DEF Inv, Delegation, ProcOk, Records, Quiet
<1>1. IsList(steps) /\ steps # <<>> /\ \A i \in DOMAIN steps : GoodTool(steps[i])
  <2>1. Head(a.hs) \in AgentTools
    BY <1>0 DEF IsRun
  <2> QED BY <2>1, ToolStepsGood
<1>2. u' = [u EXCEPT !.runs = u.runs + 1, !.proc = IF refused THEN AtRest ELSE proc]
  BY <1>0 DEF Delegation, Shape
<1> HIDE DEF steps, refused
<1>3. /\ proc.op = "delegation" /\ proc.a = a /\ proc.todo = steps /\ proc.changes = u.manifest
      /\ proc = [op |-> proc.op, a |-> proc.a, hs |-> proc.hs, todo |-> proc.todo, changes |-> proc.changes,
                 h |-> proc.h, open |-> proc.open]
  OBVIOUS
<1> HIDE DEF proc
<1>4. /\ Unmoved(u, u') /\ u'.unrecorded = u.unrecorded /\ u'.manifest = u.manifest /\ u'.runs = u.runs + 1 /\ u'.edits = u.edits
      /\ u'.proc = (IF refused THEN AtRest ELSE proc)
      /\ u' = [disk |-> u'.disk, asked |-> u'.asked, manifest |-> u'.manifest, backups |-> u'.backups, taken |-> u'.taken,
               proc |-> u'.proc, runs |-> u'.runs, edits |-> u'.edits, users |-> u'.users, theirs |-> u'.theirs,
               others |-> u'.others, unrecorded |-> u'.unrecorded, halfUndone |-> u'.halfUndone]
  BY <1>0, <1>2 DEF Shape, Unmoved
<1>5. /\ IsList(u'.proc.changes) /\ IsList(u'.proc.todo) /\ u'.proc.op \in {"none", "delegation"}
      /\ u'.proc.op = "none" => u'.proc.changes = <<>>
      /\ u'.proc.op = "delegation" => u'.proc = proc
      /\ u'.proc = [op |-> u'.proc.op, a |-> u'.proc.a, hs |-> u'.proc.hs, todo |-> u'.proc.todo, changes |-> u'.proc.changes,
                    h |-> u'.proc.h, open |-> u'.proc.open]
  <2>1. CASE refused
    <3>1. u'.proc = AtRest
      BY <2>1, <1>4
    <3> QED BY <3>1, AtRestIs, EmptyList
  <2>2. CASE ~refused
    <3>1. u'.proc = proc
      BY <2>2, <1>4
    <3>2. IsList(u.manifest)
      BY <1>0 DEF Shape
    <3> QED BY <3>1, <3>2, <1>1, <1>3
  <2> QED BY <2>1, <2>2
<1>6. Shape(u')
  BY <1>0, <1>4, <1>5 DEF Shape, Unmoved
<1>7. ProcOk(u')
  BY <1>0, <1>1, <1>3, <1>4, <1>5 DEF ProcOk
<1>8. Pending(u') = Pending(u)
  <2>1. Pending(u) = u.manifest
    BY <1>0, PendingIs
  <2>2. CASE u'.proc.op = "none"
    BY <2>1, <2>2, <1>4, <1>6, <1>7, PendingIs DEF Quiet
  <2>3. CASE u'.proc.op = "delegation"
    <3>1. Pending(u') = u'.proc.changes
      BY ONLY <2>3, <1>6, <1>7, PendingIs
    <3>2. u'.proc.changes = u.manifest
      BY <2>3, <1>3, <1>5
    <3> QED BY ONLY <2>1, <3>1, <3>2
  <2> QED BY <2>2, <2>3, <1>5
<1>9. Entries(u') \subseteq Entries(u)
  BY <1>3, <1>4, <1>5, EmptyList DEF Entries
<1> QED BY ONLY Inv(u), <1>4, <1>6, <1>7, <1>8, <1>9, ProcMoves

Onward(s) == IF Len(s.proc.todo) = 1 THEN AtRest ELSE [s.proc EXCEPT !.todo = Tail(@)]

\* install-delegation goes on or ends.
LEMMA OnwardIs ==
  ASSUME NEW s, Inv(s), s.proc.op = "delegation", NEW proc, proc = Onward(s) \/ proc = AtRest
  PROVE  /\ IsList(proc.changes) /\ IsList(proc.todo) /\ proc.op \in {"none", "delegation"}
         /\ proc.op = "none" => proc.changes = <<>>
         /\ proc.op = "delegation" =>
              /\ proc.a = s.proc.a /\ proc.todo # <<>> /\ (\A i \in DOMAIN proc.todo : GoodTool(proc.todo[i]))
              /\ proc.changes = s.manifest
         /\ proc = [op |-> proc.op, a |-> proc.a, hs |-> proc.hs, todo |-> proc.todo, changes |-> proc.changes,
                    h |-> proc.h, open |-> proc.open]
<1>0. Shape(s) /\ s.proc.todo # <<>> /\ (\A i \in DOMAIN s.proc.todo : GoodTool(s.proc.todo[i])) /\ s.proc.changes = s.manifest
  BY DEF Inv, ProcOk
<1>1. CASE proc = AtRest
  BY <1>1, AtRestIs, EmptyList
<1>2. CASE Len(s.proc.todo) # 1 /\ proc = [s.proc EXCEPT !.todo = Tail(@)]
  <2> DEFINE q == s.proc.todo
             r == Tail(s.proc.todo)
  <2>1. IsList(q) /\ q # <<>> /\ \A i \in DOMAIN q : GoodTool(q[i])
    BY <1>0 DEF Shape
  <2>2. /\ IsList(r) /\ Len(r) = Len(q) - 1 /\ DOMAIN r = 1..(Len(q) - 1) /\ Len(q) \in Nat \ {0}
        /\ \A i \in DOMAIN r : i + 1 \in DOMAIN q /\ r[i] = q[i + 1]
    <3> HIDE DEF q
    <3>1. Len(q) \in Nat \ {0} /\ DOMAIN q = 1..Len(q)
      BY <2>1, ListEmpty, ListIs
    <3>2. IsList(Tail(q)) /\ Len(Tail(q)) = Len(q) - 1 /\ \A i \in 1..(Len(q) - 1) : Tail(q)[i] = q[i + 1]
      BY <2>1, <3>1, ListTail
    <3>3. DOMAIN Tail(q) = 1..(Len(q) - 1)
      BY <3>2, ListIs
    <3>4. \A i \in 1..(Len(q) - 1) : i + 1 \in DOMAIN q
      BY <3>1
    <3> QED BY <3>1, <3>2, <3>3, <3>4 DEF q
  <2>3. /\ proc = [op |-> "delegation", a |-> s.proc.a, hs |-> s.proc.hs, todo |-> r, changes |-> s.proc.changes,
                   h |-> s.proc.h, open |-> s.proc.open]
    BY <1>0, <1>2 DEF Shape
  <2>4. Len(q) # 1
    BY <1>2
  <2> HIDE DEF q, r
  <2>5. r # <<>>
    BY <2>2, <2>4, EmptyList
  <2> QED BY <2>1, <2>2, <2>3, <2>5, <1>0 DEF Shape
<1> QED BY <1>1, <1>2 DEF Onward

\* A step of it, whichever file it changes.
TouchedAt(s, t, B, taken, proc, p, g, own, others) ==
  /\ t.disk = [s.disk EXCEPT ![p] = g] /\ t.users = [s.users EXCEPT ![p] = own] /\ t.others = others
  /\ t.theirs = s.theirs /\ t.asked = s.asked /\ t.manifest = s.manifest /\ t.backups = B /\ t.taken = taken /\ t.proc = proc
  /\ t.halfUndone = s.halfUndone /\ t.unrecorded = s.unrecorded /\ t.runs = s.runs /\ t.edits = s.edits
  /\ t = [disk |-> t.disk, asked |-> t.asked, manifest |-> t.manifest, backups |-> t.backups, taken |-> t.taken,
          proc |-> t.proc, runs |-> t.runs, edits |-> t.edits, users |-> t.users, theirs |-> t.theirs,
          others |-> t.others, unrecorded |-> t.unrecorded, halfUndone |-> t.halfUndone]

\* A step of install-delegation on one path.
ToolMoves(s, t, p, g, own, others, B, taken, proc) ==
  /\ TouchedAt(s, t, B, taken, proc, p, g, own, others)
  /\ s.proc.op = "delegation" /\ (proc = Onward(s) \/ proc = AtRest)
  /\ p \in Paths /\ (g = None \/ (IsFile(g) /\ Formed(p, g))) /\ own \in Nat \cup {None}
  /\ others = s.others \/ others = s.others \cup {p} \/ others = s.others \ {p}
  /\ CopiedAtMost(s, B, taken, p)
  /\ p \in Paths \ Settled =>
       PathOk(p, g, Saved(B, p), own, s.theirs[p], p \in others, s.manifest, s.halfUndone, s.unrecorded)

\* Such a step keeps the invariant.
LEMMA ToolStepKeeps ==
  ASSUME NEW s, NEW t, Inv(s), NEW p, NEW g, NEW own, NEW others, NEW B, NEW taken, NEW proc,
         ToolMoves(s, t, p, g, own, others, B, taken, proc)
  PROVE  Inv(t)
<1>a. /\ t.disk = [s.disk EXCEPT ![p] = g] /\ t.users = [s.users EXCEPT ![p] = own]
      /\ t.theirs = s.theirs /\ t.asked = s.asked /\ t.manifest = s.manifest
      /\ t.halfUndone = s.halfUndone /\ t.unrecorded = s.unrecorded /\ t.runs = s.runs /\ t.edits = s.edits
      /\ t.others = s.others \/ t.others = s.others \cup {p} \/ t.others = s.others \ {p}
      /\ t = [disk |-> t.disk, asked |-> t.asked, manifest |-> t.manifest, backups |-> t.backups, taken |-> t.taken,
              proc |-> t.proc, runs |-> t.runs, edits |-> t.edits, users |-> t.users, theirs |-> t.theirs,
              others |-> t.others, unrecorded |-> t.unrecorded, halfUndone |-> t.halfUndone]
      /\ t.proc = Onward(s) \/ t.proc = AtRest
  BY DEF ToolMoves, TouchedAt
<1>b. /\ s.proc.op = "delegation" /\ p \in Paths /\ (g = None \/ (IsFile(g) /\ Formed(p, g))) /\ own \in Nat \cup {None}
      /\ CopiedAtMost(s, t.backups, t.taken, p)
      /\ p \in Paths \ Settled =>
           PathOk(p, g, Saved(t.backups, p), own, s.theirs[p], p \in t.others, s.manifest, s.halfUndone, s.unrecorded)
  <2>1. t.backups = B /\ t.taken = taken /\ t.others = others
    BY DEF ToolMoves, TouchedAt
  <2> QED BY <2>1 DEF ToolMoves
<1> USE <1>a, <1>b
<1>0. Shape(s) /\ ProcOk(s) /\ Typed(s.disk, s.backups, s.taken, s.users, s.theirs, s.others) /\ IsRun(s.proc.a)
  BY DEF Inv, CoreOf, Core, ProcOk
<1>1. /\ IsList(t.proc.changes) /\ IsList(t.proc.todo) /\ t.proc.op \in {"none", "delegation"}
      /\ t.proc.op = "none" => t.proc.changes = <<>>
      /\ t.proc.op = "delegation" =>
           /\ t.proc.a = s.proc.a /\ t.proc.todo # <<>> /\ (\A i \in DOMAIN t.proc.todo : GoodTool(t.proc.todo[i]))
           /\ t.proc.changes = s.manifest
      /\ t.proc = [op |-> t.proc.op, a |-> t.proc.a, hs |-> t.proc.hs, todo |-> t.proc.todo, changes |-> t.proc.changes,
                 h |-> t.proc.h, open |-> t.proc.open]
  <2> DEFINE pr == t.proc
  <2>1. pr = Onward(s) \/ pr = AtRest
    OBVIOUS
  <2> HIDE DEF pr
  <2>2. /\ IsList(pr.changes) /\ IsList(pr.todo) /\ pr.op \in {"none", "delegation"}
        /\ pr.op = "none" => pr.changes = <<>>
        /\ pr.op = "delegation" =>
              /\ pr.a = s.proc.a /\ pr.todo # <<>> /\ (\A i \in DOMAIN pr.todo : GoodTool(pr.todo[i]))
              /\ pr.changes = s.manifest
        /\ pr = [op |-> pr.op, a |-> pr.a, hs |-> pr.hs, todo |-> pr.todo, changes |-> pr.changes,
                    h |-> pr.h, open |-> pr.open]
    BY ONLY <2>1, Inv(s), s.proc.op = "delegation", OnwardIs
  <2> QED BY ONLY <2>2 DEF pr
<1>2. Shape(t)
  BY <1>0, <1>1 DEF Shape
<1>3. ProcOk(t)
  BY <1>0, <1>1 DEF ProcOk
<1>4. s.theirs = [s.theirs EXCEPT ![p] = s.theirs[p]] /\ s.theirs[p] \in SUBSET Keys
  BY <1>0 DEF Typed
<1>5. t.others \subseteq Paths /\ \A q \in Paths \ {p} : q \in t.others <=> q \in s.others
  BY <1>0 DEF Typed
<1>6. FileMoves(s, t, p, g, own, s.theirs[p])
  BY <1>1, <1>4, <1>5 DEF FileMoves
<1> DEFINE th == s.theirs[p]
<1>7. /\ FileMoves(s, t, p, g, own, th) /\ th \in SUBSET Keys /\ (g = None \/ (IsFile(g) /\ Formed(p, g)))
      /\ p \in Paths \ Settled =>
           PathOk(p, g, Saved(t.backups, p), own, th, p \in t.others, s.manifest, s.halfUndone, s.unrecorded)
  BY <1>4, <1>6
<1> HIDE DEF th
<1> QED BY ONLY Inv(s), <1>2, <1>3, <1>7, p \in Paths, own \in Nat \cup {None}, CopiedAtMost(s, t.backups, t.taken, p), FileMovesKeeps

\* A backup does not look at the program's own state.
LEMMA BackupMoved ==
  ASSUME NEW s, Shape(s), NEW proc, NEW p \in Paths
  PROVE  LET n == [s EXCEPT !.proc = proc]
             b == Backup(s, p)
         IN /\ n = With(s, s.disk, s.backups, s.taken, proc)
            /\ Backup(n, p) = With(s, s.disk, b.backups, b.taken, proc)
<1> DEFINE n == [s EXCEPT !.proc = proc]
           b == Backup(s, p)
<1>1. n = With(s, s.disk, s.backups, s.taken, proc)
  <2>1. n = [disk |-> s.disk, asked |-> s.asked, manifest |-> s.manifest, backups |-> s.backups, taken |-> s.taken,
             proc |-> proc, runs |-> s.runs, edits |-> s.edits, users |-> s.users, theirs |-> s.theirs,
             others |-> s.others, unrecorded |-> s.unrecorded, halfUndone |-> s.halfUndone]
    BY DEF Shape
  <2> HIDE DEF n
  <2> QED BY ONLY <2>1, Shape(s), StateWith
<1>2. n = [disk |-> s.disk, asked |-> s.asked, manifest |-> s.manifest, backups |-> s.backups, taken |-> s.taken,
           proc |-> proc, runs |-> s.runs, edits |-> s.edits, users |-> s.users, theirs |-> s.theirs,
           others |-> s.others, unrecorded |-> s.unrecorded, halfUndone |-> s.halfUndone]
  BY DEF Shape
<1> HIDE DEF n
<1>3. CASE s.disk[p] = None
  <2>1. Backup(n, p) = n /\ b = s
    BY <1>2, <1>3 DEF Backup
  <2> QED BY <2>1, <1>1 DEF n
<1>4. CASE s.disk[p] # None
  <2> DEFINE new == [id |-> s.taken + 1, path |-> p, content |-> s.disk[p]]
             B == s.backups \cup {new}
             k == s.taken + 1
  <2>1. Backup(n, p) = [n EXCEPT !.taken = k, !.backups = B] /\ b = [s EXCEPT !.taken = k, !.backups = B]
    BY <1>2, <1>4 DEF Backup
  <2> HIDE DEF B, k, b
  <2>2. b.backups = B /\ b.taken = k
    BY <2>1 DEF Shape
  <2>3. [n EXCEPT !.taken = k, !.backups = B] =
           [disk |-> s.disk, asked |-> s.asked, manifest |-> s.manifest, backups |-> B, taken |-> k,
           proc |-> proc, runs |-> s.runs, edits |-> s.edits, users |-> s.users, theirs |-> s.theirs,
           others |-> s.others, unrecorded |-> s.unrecorded, halfUndone |-> s.halfUndone]
    <3> DEFINE x == [n EXCEPT !.taken = k]
    <3>1. x = [disk |-> s.disk, asked |-> s.asked, manifest |-> s.manifest, backups |-> s.backups, taken |-> k,
               proc |-> proc, runs |-> s.runs, edits |-> s.edits, users |-> s.users, theirs |-> s.theirs,
               others |-> s.others, unrecorded |-> s.unrecorded, halfUndone |-> s.halfUndone]
      BY ONLY <1>2
    <3> HIDE DEF x
    <3>2. [x EXCEPT !.backups = B] =
           [disk |-> s.disk, asked |-> s.asked, manifest |-> s.manifest, backups |-> B, taken |-> k,
           proc |-> proc, runs |-> s.runs, edits |-> s.edits, users |-> s.users, theirs |-> s.theirs,
           others |-> s.others, unrecorded |-> s.unrecorded, halfUndone |-> s.halfUndone]
      BY ONLY <3>1
    <3> QED BY ONLY <3>2 DEF x
  <2>4. Backup(n, p) = With(s, s.disk, B, k, proc)
    BY ONLY <2>1, <2>3, Shape(s), StateWith
  <2> QED BY <2>2, <2>4, <1>1 DEF n, b
<1> QED BY <1>3, <1>4

\* The state after a step of install-delegation.
Touches(base, p, g, own, others) == [base EXCEPT !.disk[p] = g, !.users[p] = own, !.others = others]

\* What DelegationStep's record update makes of a state.
LEMMA TouchesIs ==
  ASSUME NEW s, Shape(s), NEW B, NEW taken, NEW proc, NEW p \in Paths, NEW g, NEW own, NEW others, NEW t,
         t = Touches(With(s, s.disk, B, taken, proc), p, g, own, others)
  PROVE  TouchedAt(s, t, B, taken, proc, p, g, own, others)
<1> DEFINE w == With(s, s.disk, B, taken, proc)
           disk == [s.disk EXCEPT ![p] = g]
           users == [s.users EXCEPT ![p] = own]
<1>1. w = [disk |-> s.disk, asked |-> s.asked, manifest |-> s.manifest, backups |-> B, taken |-> taken,
           proc |-> proc, runs |-> s.runs, edits |-> s.edits, users |-> s.users, theirs |-> s.theirs,
           others |-> s.others, unrecorded |-> s.unrecorded, halfUndone |-> s.halfUndone]
  BY StateWith
<1> HIDE DEF w
<1>2. t = [w EXCEPT !.disk = disk, !.users = users, !.others = others]
  BY <1>1 DEF Touches, w
<1> HIDE DEF disk, users
<1>3. t = [disk |-> disk, asked |-> s.asked, manifest |-> s.manifest, backups |-> B, taken |-> taken,
           proc |-> proc, runs |-> s.runs, edits |-> s.edits, users |-> users, theirs |-> s.theirs,
           others |-> others, unrecorded |-> s.unrecorded, halfUndone |-> s.halfUndone]
  BY ONLY <1>1, <1>2
<1>4. t.disk = disk /\ t.users = users
  BY ONLY <1>3
<1> QED BY <1>3, <1>4 DEF disk, users, TouchedAt

\* install-delegation on a skill or a file of an agent's CLI.
LEMMA ToolOnSettled ==
  ASSUME NEW step, GoodTool(step), step.path \in Settled, NEW a, NEW f, f = None \/ IsFile(f),
         ToolAttempt(Read(f), step, a).out = "written"
  PROVE  LET g == ToolAttempt(Read(f), step, a).file IN IsFile(g) /\ Formed(step.path, g) /\ g.text \in Nat
<1> DEFINE base == Read(f)
           p == step.path
           g == ToolAttempt(base, step, a).file
<1>0. IsFile(base)
  BY BlankIsFile DEF Read
<1>1. /\ p \notin JsonFiles /\ p \notin {"rule", "hermes.yaml", "config.toml"}
      /\ (step.how = "skill" /\ step.key = "skill") \/ (step.how = "cli" /\ step.key = "delegate")
  BY DEF GoodTool, Settled, Skills, Registry, JsonFiles
<1>2. Formed(p, g)
  BY <1>1 DEF Formed
<1>3. IsFile(g)
  <2>1. CASE step.how = "skill"
    <3>1. ToolAttempt(base, step, a) =
            CASE base = Written(Blank, "skill", "v1").file -> Current(base)
              [] base # Written(Blank, "skill", "v1").file /\ ~(base = Blank) /\ ~a.force -> Refused(base)
              [] OTHER -> [out |-> "written", file |-> Written(Blank, "skill", "v1").file]
      BY <2>1 DEF ToolAttempt
    <3>2. g = Written(Blank, "skill", "v1").file
      <4> HIDE DEF base
      <4>1. ToolAttempt(base, step, a).out = "written"
        BY DEF base
      <4> QED BY <3>1, <4>1 DEF Current, Refused
    <3>3. Put(Blank, "skill", "v1", {}, [Blank EXCEPT !.at["skill"] = "v1"])
      <4>1. "skill" \in Keys /\ "v1" \in {"none", "theirs", "other"} \cup Ours /\ {} \in SUBSET Keys
        BY DEF Keys, Ours
      <4> QED BY <4>1, BlankIsFile, EntryPut
    <3> QED BY <3>2, <3>3 DEF Put, Written
  <2>2. CASE step.how = "cli" /\ step.key = "delegate"
    <3>1. ToolAttempt(base, step, a) =
            CASE ~(base.at["delegate"] = "none") /\ ~a.force -> Refused(base)
              [] OTHER -> [out |-> "written", file |-> [base EXCEPT !.at["delegate"] = "other"]]
      BY <2>2 DEF ToolAttempt
    <3>2. g = [base EXCEPT !.at["delegate"] = "other"]
      <4> HIDE DEF base
      <4>1. ToolAttempt(base, step, a).out = "written"
        BY DEF base
      <4> QED BY <3>1, <4>1 DEF Refused
    <3>3. Put(base, "delegate", "other", {}, [base EXCEPT !.at["delegate"] = "other"])
      <4>1. "delegate" \in Keys /\ "other" \in {"none", "theirs", "other"} \cup Ours /\ {} \in SUBSET Keys
        BY DEF Keys
      <4> HIDE DEF base
      <4> QED BY <4>1, <1>0, EntryPut
    <3> QED BY <3>2, <3>3 DEF Put
  <2> QED BY <2>1, <2>2, <1>1
<1>4. g.text \in Nat
  BY <1>3 DEF IsFile, FilesSaying
<1> QED BY <1>2, <1>3, <1>4

\* install-delegation on the rule.
LEMMA ToolOnRule ==
  ASSUME NEW step, GoodTool(step), step.path = "rule", NEW a, NEW f, ToolAttempt(Read(f), step, a).out = "written"
  PROVE  step.how = "file" /\ ToolAttempt(Read(f), step, a).file = TheRule /\ f # TheRule
<1> DEFINE base == Read(f)
<1>1. step.how = "file"
  BY DEF GoodTool, Skills, Registry, JsonFiles
<1>2. Written(Blank, "rule", "v1").file = TheRule
  BY DEF Written, TheRule
<1>3. ToolAttempt(base, step, a) =
        CASE base = TheRule -> Current(base)
          [] base # TheRule /\ ~(base = Blank) /\ ~a.force -> Refused(base)
          [] OTHER -> [out |-> "written", file |-> TheRule]
  BY <1>1, <1>2 DEF ToolAttempt
<1>4. ToolAttempt(base, step, a).file = TheRule /\ base # TheRule
  <2>1. ToolAttempt(base, step, a).out = "written"
    OBVIOUS
  <2> HIDE DEF base
  <2> QED BY <2>1, <1>3 DEF Current, Refused
<1>5. f # TheRule
  BY <1>4, RuleFacts DEF Read
<1> QED BY <1>1, <1>4, <1>5

\* A step of install-delegation keeps the invariant.
LEMMA DelegationStepKeeps ==
  ASSUME Inv(u), DelegationStep
  PROVE  Inv(u')
<1> DEFINE step == Head(u.proc.todo)
           p == step.path
           f == u.disk[p]
           r == ToolAttempt(At(u, p), step, u.proc.a)
           g == r.file
           saves == step.how # "cli" /\ (step.how = "json" => At(u, p).at[step.key] # "none")
           adopts == step.how = "file" \/ Unclaimed(p)
           proc == Onward(u)
           next == [u EXCEPT !.proc = proc]
           own == u.users[p]
           th == u.theirs[p]
           sh == p \in u.others
           L == u.manifest
           B == Saved(u.backups, p)
           own2 == IF adopts THEN own ELSE g.text
           others2 == IF adopts THEN u.others \cup {p} ELSE u.others \ {p}
           b == Backup(u, p)
           A == IF saves THEN b.backups ELSE u.backups
           taken == IF saves THEN b.taken ELSE u.taken
<1>0. /\ Shape(u) /\ ProcOk(u) /\ CoreOf(u) /\ Typed(u.disk, u.backups, u.taken, u.users, u.theirs, u.others)
      /\ u.proc.op = "delegation" /\ u.proc.todo # <<>> /\ \A i \in DOMAIN u.proc.todo : GoodTool(u.proc.todo[i])
  BY DEF Inv, CoreOf, Core, DelegationStep, Doing, ProcOk
<1>1. GoodTool(step)
  <2> DEFINE q == u.proc.todo
  <2>1. IsList(q) /\ q # <<>> /\ \A i \in DOMAIN q : GoodTool(q[i])
    BY <1>0 DEF Shape
  <2> HIDE DEF q
  <2>2. 1 \in DOMAIN q /\ Head(q) = q[1]
    BY <2>1, ListEmpty
  <2>3. GoodTool(Head(q))
    BY ONLY <2>1, <2>2
  <2> QED BY ONLY <2>3 DEF q
<1>2. At(u, p) = Read(f)
  BY DEF At, Read
<1>3. u' = IF r.out # "written" THEN next
           ELSE [(IF saves THEN Backup(next, p) ELSE next)
                   EXCEPT !.disk[p] = g, !.users[p] = IF adopts THEN @ ELSE g.text,
                          !.others = IF adopts THEN @ \cup {p} ELSE @ \ {p}]
  <2>1. next = [u EXCEPT !.proc = IF Len(u.proc.todo) = 1 THEN AtRest ELSE [u.proc EXCEPT !.todo = Tail(@)]]
    BY DEF Onward
  <2> QED BY <2>1 DEF DelegationStep, Onward
<1> HIDE DEF step, r, saves, adopts, proc
<1>p. p \in Paths
  BY <1>1 DEF GoodTool, Paths, Settled, Skills, Registry, JsonFiles
<1> HIDE DEF p
<1>4. /\ next = With(u, u.disk, u.backups, u.taken, proc)
      /\ Backup(next, p) = With(u, u.disk, b.backups, b.taken, proc)
  BY ONLY <1>0, <1>p, BackupMoved
<1>5. CASE r.out # "written"
  <2>1. u' = next
    BY <1>3, <1>5
  <2>2. f = None \/ (IsFile(f) /\ Formed(p, f))
    BY <1>0, <1>p DEF Typed
  <2>3. /\ u'.proc = proc /\ Unmoved(u, u') /\ u'.unrecorded = u.unrecorded /\ u'.manifest = u.manifest /\ u'.runs = u.runs
        /\ u'.edits = u.edits
        /\ u' = [disk |-> u'.disk, asked |-> u'.asked, manifest |-> u'.manifest, backups |-> u'.backups, taken |-> u'.taken,
               proc |-> u'.proc, runs |-> u'.runs, edits |-> u'.edits, users |-> u'.users, theirs |-> u'.theirs,
               others |-> u'.others, unrecorded |-> u'.unrecorded, halfUndone |-> u'.halfUndone]
    <3>1. u' = [u EXCEPT !.proc = proc]
      BY <2>1
    <3> QED BY ONLY <3>1, <1>0 DEF Shape, Unmoved
  <2>4. /\ IsList(u'.proc.changes) /\ IsList(u'.proc.todo) /\ u'.proc.op \in {"none", "delegation"}
        /\ u'.proc.op = "none" => u'.proc.changes = <<>>
        /\ u'.proc.op = "delegation" =>
             /\ u'.proc.a = u.proc.a /\ u'.proc.todo # <<>> /\ (\A i \in DOMAIN u'.proc.todo : GoodTool(u'.proc.todo[i]))
             /\ u'.proc.changes = u.manifest
        /\ u'.proc = [op |-> u'.proc.op, a |-> u'.proc.a, hs |-> u'.proc.hs, todo |-> u'.proc.todo, changes |-> u'.proc.changes,
                    h |-> u'.proc.h, open |-> u'.proc.open]
    <3> DEFINE x == u'.proc
    <3>1. x = Onward(u) \/ x = AtRest
      BY <2>3 DEF proc
    <3> HIDE DEF x
    <3>2. /\ IsList(x.changes) /\ IsList(x.todo) /\ x.op \in {"none", "delegation"}
          /\ x.op = "none" => x.changes = <<>>
          /\ x.op = "delegation" =>
               /\ x.a = u.proc.a /\ x.todo # <<>> /\ (\A i \in DOMAIN x.todo : GoodTool(x.todo[i]))
               /\ x.changes = u.manifest
          /\ x = [op |-> x.op, a |-> x.a, hs |-> x.hs, todo |-> x.todo, changes |-> x.changes,
                     h |-> x.h, open |-> x.open]
      BY ONLY <3>1, <1>0, Inv(u), OnwardIs
    <3> QED BY ONLY <3>2 DEF x
  <2>5. Shape(u')
    BY ONLY <1>0, <2>3, <2>4 DEF Shape, Unmoved
  <2>6. ProcOk(u')
    BY ONLY <1>0, <2>3, <2>4 DEF ProcOk
  <2>7. Pending(u') = Pending(u)
    <3>1. Pending(u) = u.manifest
      BY <1>0, PendingIs DEF ProcOk
    <3>2. CASE u'.proc.op = "none"
      BY ONLY <3>1, <3>2, <2>3, <2>5, <2>6, PendingIs DEF Quiet
    <3>3. CASE u'.proc.op = "delegation"
      BY ONLY <3>1, <3>3, <2>3, <2>4, <2>5, <2>6, PendingIs
    <3> QED BY ONLY <3>2, <3>3, <2>4
  <2>8. Entries(u') \subseteq Entries(u)
    BY ONLY <2>3, <2>4, EmptyList DEF Entries
  <2> QED BY ONLY Inv(u), <2>3, <2>5, <2>6, <2>7, <2>8, ProcMoves
<1>6. CASE r.out = "written"
  <2>1. /\ p \in Paths \ Settled => PathBefore(p, f, B, own, th, sh, L, u.halfUndone, u.unrecorded)
        /\ f = None \/ (IsFile(f) /\ Formed(p, f))
        /\ th \in SUBSET Keys /\ own \in Nat \cup {None} /\ u.taken \in Nat
    <3>1. Pending(u) = u.manifest
      BY <1>0, PendingIs DEF ProcOk
    <3> QED BY <3>1, <1>0, <1>p DEF CoreOf, Core, Typed, Shape, PathBefore
  <2>2. /\ CopiedAtMost(u, u.backups, u.taken, p)
        /\ (p = "rule" => f # TheRule) => CopiedAtMost(u, b.backups, b.taken, p)
        /\ B \subseteq Saved(b.backups, p)
        /\ \A x \in Saved(b.backups, p) : x \in B \/ x.id = u.taken + 1
        /\ f # None => \E x \in Saved(b.backups, p) : x.content = f
    <3>1. /\ CopiedAtMost(u, u.backups, u.taken, p)
          /\ (p = "rule" => f # TheRule) => CopiedAtMost(u, b.backups, b.taken, p)
      BY ONLY Inv(u), <1>p, CopiesAre
    <3>2. IF f = None THEN Saved(b.backups, p) = B ELSE Saved(b.backups, p) = B \cup {CopyNow(u, p)}
      BY ONLY <1>0, <1>p, Copied
    <3>3. CopyNow(u, p).id = u.taken + 1 /\ CopyNow(u, p).content = f
      BY DEF CopyNow
    <3>4. /\ B \subseteq Saved(b.backups, p)
          /\ \A x \in Saved(b.backups, p) : x \in B \/ x.id = u.taken + 1
          /\ f # None => \E x \in Saved(b.backups, p) : x.content = f
      <4> DEFINE new == CopyNow(u, p)
                 C == Saved(b.backups, p)
                 k == u.taken + 1
      <4>1. (IF f = None THEN C = B ELSE C = B \cup {new}) /\ new.id = k /\ new.content = f
        BY ONLY <3>2, <3>3 DEF new, C, k
      <4> HIDE DEF new, C, B, f, k
      <4>2. /\ B \subseteq C
            /\ \A x \in C : x \in B \/ x.id = k
            /\ f # None => \E x \in C : x.content = f
        BY ONLY <4>1
      <4> QED BY ONLY <4>2 DEF C, k
    <3> QED BY ONLY <3>1, <3>4
  <2>3. ToolAttempt(Read(f), step, u.proc.a).out = "written" /\ g = ToolAttempt(Read(f), step, u.proc.a).file
    BY <1>2, <1>6 DEF r
  <2>t. u' = Touches(With(u, u.disk, A, taken, proc), p, g, own2, others2)
    <3> DEFINE base == IF saves THEN Backup(next, p) ELSE next
    <3>1. base = With(u, u.disk, A, taken, proc)
      BY <1>4
    <3>2. u' = [base EXCEPT !.disk[p] = g, !.users[p] = IF adopts THEN @ ELSE g.text,
                          !.others = IF adopts THEN @ \cup {p} ELSE @ \ {p}]
      BY <1>3, <1>6
    <3>3. base.users = u.users /\ base.others = u.others
      <4>1. With(u, u.disk, A, taken, proc).users = u.users /\ With(u, u.disk, A, taken, proc).others = u.others
        <5> HIDE DEF A, taken
        <5> QED BY <1>0, StateWith
      <4> HIDE DEF base, A, taken
      <4> QED BY <3>1, <4>1
    <3> HIDE DEF base, g
    <3>4. u' = [base EXCEPT !.disk[p] = g, !.users[p] = own2, !.others = others2]
      BY ONLY <3>2, <3>3 DEF own2, own, others2
    <3> HIDE DEF own2, others2, A, taken
    <3> QED BY ONLY <3>1, <3>4 DEF Touches
  <2> HIDE DEF A, taken, own2, others2, g, next
  <2>4. TouchedAt(u, u', A, taken, proc, p, g, own2, others2)
    BY ONLY <2>t, <1>0, <1>p, TouchesIs
  <2>5. ASSUME g = None \/ (IsFile(g) /\ Formed(p, g)), own2 \in Nat \cup {None}, CopiedAtMost(u, A, taken, p),
               p \in Paths \ Settled => PathOk(p, g, Saved(A, p), own2, th, p \in others2, L, u.halfUndone, u.unrecorded)
        PROVE  Inv(u')
    <3>1. others2 = u.others \/ others2 = u.others \cup {p} \/ others2 = u.others \ {p}
      BY DEF others2
    <3>2. proc = Onward(u)
      BY DEF proc
    <3>3. ToolMoves(u, u', p, g, own2, others2, A, taken, proc)
      BY ONLY <2>4, <2>5, <3>1, <3>2, <1>0, <1>p DEF ToolMoves, th, L
    <3> QED BY ONLY <3>3, Inv(u), ToolStepKeeps
  <2>c. (p = "rule" => f # TheRule) => CopiedAtMost(u, A, taken, p)
    BY ONLY <2>2 DEF A, taken
  <2>d. /\ B \subseteq Saved(A, p)
        /\ \A x \in Saved(A, p) : x \in B \/ x.id = u.taken + 1
        /\ (saves /\ f # None) => \E x \in Saved(A, p) : x.content = f
    BY ONLY <2>2 DEF A, B
  <2>k. p \in Settled \/ p \in Forms \/ p = "rule"
    BY ONLY <1>1 DEF p, GoodTool, Forms, Settled
  <2>6. CASE p \in Settled
    <3>1. IsFile(g) /\ Formed(p, g) /\ g.text \in Nat
      BY ONLY <1>1, <2>1, <2>3, <2>6, ToolOnSettled DEF p
    <3>2. own2 \in Nat \cup {None} /\ p # "rule"
      BY <3>1, <2>1, <2>6 DEF own2, Settled, Skills, Registry
    <3> QED BY ONLY <2>5, <2>6, <2>c, <3>1, <3>2
  <2>7. CASE p \in Forms
    <3>1. /\ step.key = "delegate" /\ g.at["delegate"] = "other" /\ \A k \in Keys \ {"delegate"} : g.at[k] = Read(f).at[k]
          /\ IsFile(g) /\ Formed(p, g) /\ g.text = Read(f).text
          /\ f # None => Fewer(f, g)
          /\ f = None => ~HasOurs(g)
          /\ step.how = "yaml" => Read(f).at["delegate"] = "none"
      BY ONLY <1>1, <2>1, <2>3, <2>7, ToolPuts DEF p
    <3>2. p # "rule" /\ p \in Paths \ Settled /\ step.how # "file"
      <4>1. step.how = "file" => p = "rule"
        BY ONLY <1>1 DEF p, GoodTool
      <4> QED BY <4>1, <2>7, PathKinds
    <3>3. adopts <=> (own = None /\ f # None)
      BY <3>2 DEF adopts, Unclaimed
    <3>4. g # None /\ g.text \in Nat /\ None \notin Nat
      BY <3>1, FileThere, NoneIsNoNumber DEF IsFile, FilesSaying
    <3>5. own2 = (IF own = None /\ f # None THEN own ELSE g.text) /\ own2 \in Nat \cup {None}
      BY <3>3, <3>4 DEF own2
    <3>6. (p \in others2) <=> (own = None /\ f # None)
      BY <3>3 DEF others2
    <3>7. \A x \in Saved(A, p) : x \in B \/ \A i \in OnPath(L, p) : L[i].backup # x.id
      <4>1. ASSUME NEW i \in OnPath(L, p)  PROVE L[i].backup # u.taken + 1
        <5>1. EntryOk(L[i], u.backups, u.taken)
          BY <1>0 DEF OnPath, CoreOf, Core, Entries
        <5>2. L[i].backup = None \/ L[i].backup \in 1..u.taken
          BY <5>1 DEF EntryOk
        <5> HIDE DEF L
        <5> QED BY <5>2, <2>1, NoneIsNoNumber
      <4> QED BY <4>1, <2>d
    <3>8. \A k \in th : (f # None /\ f.at[k] = "theirs" /\ p # "config.toml") =>
            (g # None /\ g.at[k] = "theirs") \/ \E x \in Saved(A, p) : x.content.at[k] = "theirs"
      <4> SUFFICES ASSUME NEW k \in th, f # None, f.at[k] = "theirs", p # "config.toml"
                   PROVE  g.at[k] = "theirs" \/ \E x \in Saved(A, p) : x.content.at[k] = "theirs"
        BY <3>4
      <4>0. Read(f) = f /\ k \in Keys
        BY <2>1 DEF Read
      <4>1. CASE k # "delegate"
        BY <4>0, <4>1, <3>1
      <4>2. CASE k = "delegate"
        <5>1. step.how = "json"
          <6>1. step.how \in {"json", "yaml", "cli"} /\ (step.how = "cli" => p \in {"config.toml", Registry})
            BY ONLY <1>1, <2>7, <3>2 DEF p, GoodTool, Settled
          <6>2. p # Registry
            BY <3>2 DEF Settled
          <6>3. step.how # "yaml"
            BY <3>1, <4>0, <4>2
          <6> QED BY <6>1, <6>2, <6>3
        <5>2. saves
          BY <5>1, <4>0, <4>2, <3>1, <1>2 DEF saves
        <5> QED BY <5>2, <2>d
      <4> QED BY <4>1, <4>2
    <3>9. ToolsEdit(p, f, g, B, Saved(A, p), own, th, sh, L, own2, p \in others2)
      <4>1. f # None => g.text = f.text
        BY <3>1 DEF Read
      <4>2. f = None => g.text = 0
        BY <3>1, BlankIsFile DEF Read
      <4>3. (p \in others2) <=> ((own = None /\ f # None) \/ (sh /\ own2 = None))
        BY <3>4, <3>5, <3>6
      <4>4. (p \in others2) \in BOOLEAN
        OBVIOUS
      <4> HIDE DEF f, B, own, th, sh, L
      <4> QED BY ONLY <2>7, <2>d, <3>1, <3>4, <3>5, <3>7, <3>8, <4>1, <4>2, <4>3, <4>4 DEF ToolsEdit
    <3>10. PathOk(p, g, Saved(A, p), own2, th, p \in others2, L, u.halfUndone, u.unrecorded)
      <4>1. PathBefore(p, f, B, own, th, sh, L, u.halfUndone, u.unrecorded)
        BY <2>1, <3>2
      <4> HIDE DEF f, B, own, th, sh, L
      <4> QED BY ONLY <3>9, <4>1, OthersEdit
    <3> QED BY ONLY <2>5, <2>c, <3>1, <3>2, <3>5, <3>10
  <2>8. CASE p = "rule"
    <3>1. step.how = "file" /\ g = TheRule /\ f # TheRule
      BY ONLY <1>1, <2>3, <2>8, ToolOnRule DEF p
    <3>2. adopts /\ saves
      BY <3>1 DEF adopts, saves
    <3>3. own2 = own /\ own2 \in Nat \cup {None} /\ (p \in others2) = TRUE
      BY <2>1, <3>2 DEF own2, others2
    <3>4. IsFile(g) /\ Formed(p, g)
      <4>1. Put(Blank, "rule", "v1", {}, [Blank EXCEPT !.at["rule"] = "v1"])
        <5>1. "rule" \in Keys /\ "v1" \in {"none", "theirs", "other"} \cup Ours /\ {} \in SUBSET Keys
          BY DEF Keys, Ours
        <5> QED BY <5>1, BlankIsFile, EntryPut
      <4>2. IsFile(g) /\ g.marks = {}
        BY <3>1, <4>1, BlankIsFile DEF Put, TheRule
      <4> QED BY <4>2, <2>8, <3>1, RuleFacts, PathKinds DEF Formed
    <3>5. RuleEdit(f, B, Saved(A, p))
      BY <2>d, <3>1, <3>2 DEF RuleEdit
    <3>6. PathOk(p, g, Saved(A, p), own2, th, p \in others2, L, u.halfUndone, u.unrecorded)
      <4>1. p \in Paths \ Settled
        BY <2>8 DEF Paths, Settled, Skills, Registry
      <4>2. PathBefore("rule", f, B, own, th, sh, L, u.halfUndone, u.unrecorded)
        BY <2>1, <2>8, <4>1
      <4> HIDE DEF f, B, own, th, sh, L
      <4>3. PathOk("rule", TheRule, Saved(A, p), own, th, TRUE, L, u.halfUndone, u.unrecorded)
        BY ONLY <3>5, <4>2, OthersRule
      <4> QED BY <4>3, <2>8, <3>1, <3>3
    <3> QED BY ONLY <2>5, <2>c, <3>1, <3>3, <3>4, <3>6
  <2> QED BY <2>6, <2>7, <2>8, <2>k
<1> QED BY <1>5, <1>6

\* The agent's own CLI took the entry out and did not put it back.
LEMMA DelegationCliFailsKeeps ==
  ASSUME Inv(u), DelegationCliFails
  PROVE  Inv(u')
<1> DEFINE step == Head(u.proc.todo)
           p == step.path
           f == u.disk[p]
           g == IF f = None THEN None ELSE [f EXCEPT !.at["delegate"] = "none"]
           own == u.users[p]
           th == u.theirs[p]
           sh == p \in u.others
           L == u.manifest
           B == Saved(u.backups, p)
           others2 == IF Unclaimed(p) THEN u.others \cup {p} ELSE u.others
<1>0. /\ Shape(u) /\ ProcOk(u) /\ CoreOf(u) /\ Typed(u.disk, u.backups, u.taken, u.users, u.theirs, u.others)
      /\ u.proc.op = "delegation" /\ u.proc.todo # <<>> /\ \A i \in DOMAIN u.proc.todo : GoodTool(u.proc.todo[i])
  BY DEF Inv, CoreOf, Core, DelegationCliFails, Doing, ProcOk
<1>1. GoodTool(step) /\ step.how = "cli"
  <2> DEFINE q == u.proc.todo
  <2>1. IsList(q) /\ q # <<>> /\ \A i \in DOMAIN q : GoodTool(q[i])
    BY <1>0 DEF Shape
  <2> HIDE DEF q
  <2>2. 1 \in DOMAIN q /\ Head(q) = q[1]
    BY <2>1, ListEmpty
  <2>3. GoodTool(Head(q))
    BY ONLY <2>1, <2>2
  <2>4. step.how = "cli"
    BY DEF DelegationCliFails
  <2> QED BY <2>3, <2>4 DEF q
<1>2. p \in {"config.toml", Registry}
  BY ONLY <1>1 DEF GoodTool
<1>3. u' = [u EXCEPT !.proc = AtRest, !.others = others2, !.disk = [u.disk EXCEPT ![p] = g]]
  <2>1. u' = [u EXCEPT !.proc = AtRest, !.others = IF Unclaimed(p) THEN @ \cup {p} ELSE @,
                !.disk[p] = IF @ = None THEN None ELSE [@ EXCEPT !.at["delegate"] = "none"]]
    BY DEF DelegationCliFails
  <2> HIDE DEF step
  <2> QED BY <2>1, <1>0 DEF Shape
<1> HIDE DEF step
<1>p. p \in Paths /\ p # "rule" /\ (p # Registry => p \in Forms /\ p \in Paths \ Settled)
  BY <1>2 DEF Paths, Settled, Skills, Registry, Forms
<1> HIDE DEF p
<1>4. f = None \/ (IsFile(f) /\ Formed(p, f))
  BY <1>0, <1>p DEF Typed
<1>5. /\ own \in Nat \cup {None} /\ th \in SUBSET Keys /\ u.taken \in Nat
      /\ p \in Paths \ Settled => PathBefore(p, f, B, own, th, sh, L, u.halfUndone, u.unrecorded)
  <2>1. Pending(u) = u.manifest
    BY <1>0, PendingIs DEF ProcOk
  <2> QED BY <2>1, <1>0, <1>p DEF CoreOf, Core, Typed, Shape, PathBefore
<1>6. f # None => Put(f, "delegate", "none", {}, g)
  <2>1. "delegate" \in Keys /\ "none" \in {"none", "theirs", "other"} \cup Ours /\ {} \in SUBSET Keys
    BY DEF Keys
  <2> HIDE DEF f
  <2> QED BY <2>1, <1>4, EntryPut
<1>7. g = None \/ (IsFile(g) /\ Formed(p, g))
  <2> SUFFICES ASSUME f # None PROVE IsFile(g) /\ Formed(p, g)
    OBVIOUS
  <2>1. Formed(p, f) /\ Put(f, "delegate", "none", {}, g)
    BY <1>4, <1>6
  <2> HIDE DEF f, g
  <2>2. \A n \in Keys : g.at[n] \in Ours => f.at[n] \in Ours
    BY <2>1 DEF Put, Ours
  <2>3. IsFile(g) /\ g.marks = f.marks
    BY <2>1 DEF Put
  <2>4. p \notin JsonFiles /\ p \notin {"rule", "hermes.yaml"}
    BY ONLY <1>2 DEF p, Registry, JsonFiles
  <2> QED BY <2>1, <2>2, <2>3, <2>4 DEF Formed
<1>8. CopiedAtMost(u, u.backups, u.taken, p)
  BY <1>p, CopiesAre
<1>9. TouchedAt(u, u', u.backups, u.taken, AtRest, p, g, own, others2)
  <2> DEFINE disk == [u.disk EXCEPT ![p] = g]
  <2>1. u' = [u EXCEPT !.proc = AtRest, !.others = others2, !.disk = disk]
    BY <1>3
  <2>2. u.users = [u.users EXCEPT ![p] = own]
    BY <1>0, <1>p DEF Typed
  <2> HIDE DEF disk, others2
  <2>3. /\ u'.disk = disk /\ u'.users = u.users /\ u'.others = others2
        /\ u'.theirs = u.theirs /\ u'.asked = u.asked /\ u'.manifest = u.manifest /\ u'.backups = u.backups /\ u'.taken = u.taken
        /\ u'.proc = AtRest
        /\ u'.halfUndone = u.halfUndone /\ u'.unrecorded = u.unrecorded /\ u'.runs = u.runs /\ u'.edits = u.edits
        /\ u' = [disk |-> u'.disk, asked |-> u'.asked, manifest |-> u'.manifest, backups |-> u'.backups, taken |-> u'.taken,
                proc |-> u'.proc, runs |-> u'.runs, edits |-> u'.edits, users |-> u'.users, theirs |-> u'.theirs,
                others |-> u'.others, unrecorded |-> u'.unrecorded, halfUndone |-> u'.halfUndone]
    BY ONLY <2>1, <1>0 DEF Shape
  <2> QED BY ONLY <2>2, <2>3 DEF TouchedAt, disk
<1>10. p \in Paths \ Settled => PathOk(p, g, B, own, th, p \in others2, L, u.halfUndone, u.unrecorded)
  <2> SUFFICES ASSUME p \in Paths \ Settled PROVE PathOk(p, g, B, own, th, p \in others2, L, u.halfUndone, u.unrecorded)
    OBVIOUS
  <2>1. PathBefore(p, f, B, own, th, sh, L, u.halfUndone, u.unrecorded) /\ p \in Forms /\ p = "config.toml"
    BY <1>2, <1>5, <1>p DEF Settled
  <2>2. CASE f = None
    <3>1. (p \in others2) = sh /\ g = f
      BY <2>2 DEF Unclaimed
    <3> HIDE DEF f, g, B, own, th, L
    <3> QED BY <2>1, <3>1 DEF PathBefore
  <2>3. CASE f # None
    <3>1. Put(f, "delegate", "none", {}, g) /\ IsFile(g) /\ g # None /\ None \notin Nat /\ g.text \in Nat
      BY <1>6, <1>7, <2>3, FileThere, NoneIsNoNumber DEF Put, IsFile, FilesSaying
    <3>2. (p \in others2) <=> (own = None \/ sh)
      BY <2>3 DEF Unclaimed
    <3>b. (p \in others2) \in BOOLEAN
      OBVIOUS
    <3> HIDE DEF f, g, B, own, th, L, others2, sh
    <3>3. Fewer(f, g) /\ g.text = f.text
      <4>1. \A k \in Names : g.at[k] \in Ours => f.at[k] \in Ours
        BY <3>1, PathKinds DEF Put, Ours, Names
      <4>2. g.marks = f.marks /\ g.plain = f.plain /\ g.text = f.text
        BY <3>1 DEF Put
      <4> QED BY <3>1, <4>1, <4>2 DEF Fewer
    <3>4. (sh => own = None) /\ (own # None => f.text = own)
      BY <2>1, <2>3 DEF PathBefore, PathOk, TextKept
    <3>5. own = (IF own = None /\ f # None THEN own ELSE g.text)
      BY <2>3, <3>3, <3>4
    <3>6. (p \in others2) <=> ((own = None /\ f # None) \/ (sh /\ own = None))
      BY <2>3, <3>2, <3>4
    <3>7. ToolsEdit(p, f, g, B, B, own, th, sh, L, own, p \in others2)
      BY ONLY <2>1, <2>3, <3>1, <3>3, <3>5, <3>6, <3>b DEF ToolsEdit
    <3> QED BY ONLY <2>1, <3>7, OthersEdit
  <2> QED BY <2>2, <2>3
<1>11. ToolMoves(u, u', p, g, own, others2, u.backups, u.taken, AtRest)
  <2>1. others2 = u.others \/ others2 = u.others \cup {p}
    OBVIOUS
  <2> HIDE DEF others2, g, f
  <2> QED BY ONLY <1>0, <1>5, <1>7, <1>8, <1>9, <1>10, <1>p, <2>1 DEF ToolMoves, th, L, B
<1> QED BY ONLY <1>11, Inv(u), ToolStepKeeps

----------------------------------------------------------------------------
(* What undo restores                                                        *)

\* What an installer finds is in order.
LEMMA StartHolds ==
  ASSUME SettingsInit
  PROVE  Inv(u)
<1>1. PICK home \in Homes : u = SettingsStart(home)
  BY DEF SettingsInit
<1>2. /\ home.disk = [p \in Paths |-> home.disk[p]] /\ \A a \in home.asked : IsRun(a)
      /\ \A p \in Paths : home.disk[p] # None =>
           /\ IsFile(home.disk[p]) /\ home.disk[p].marks \subseteq {"generated"}
           /\ p \notin Settled => \A k \in Keys : home.disk[p].at[k] \in {"none", "theirs"}
  BY HomesFound
<1> DEFINE d == home.disk
           us == [p \in Paths |-> IF home.disk[p] = None THEN None ELSE home.disk[p].text]
           th == [p \in Paths |-> IF home.disk[p] = None THEN {} ELSE {k \in Keys : home.disk[p].at[k] = "theirs"}]
<1>3. u = [disk |-> d, asked |-> home.asked, manifest |-> <<>>, backups |-> {}, taken |-> 0, proc |-> AtRest, runs |-> 0,
           edits |-> 0, users |-> us, theirs |-> th, others |-> {}, unrecorded |-> FALSE, halfUndone |-> FALSE]
  BY <1>1 DEF SettingsStart
<1>d. \A p \in Paths : us[p] = (IF d[p] = None THEN None ELSE d[p].text)
                       /\ th[p] = (IF d[p] = None THEN {} ELSE {k \in Keys : d[p].at[k] = "theirs"})
  OBVIOUS
<1>e. \A p \in Paths : d[p] # None => d[p].text \in Nat
  BY <1>2 DEF IsFile, FilesSaying
<1>f. us \in [Paths -> Nat \cup {None}] /\ th \in [Paths -> SUBSET Keys]
  BY <1>e
<1> HIDE DEF d, us, th
<1>4. /\ u.disk = d /\ u.asked = home.asked /\ u.manifest = <<>> /\ u.backups = {} /\ u.taken = 0 /\ u.proc = AtRest /\ u.runs = 0
      /\ u.edits = 0 /\ u.users = us /\ u.theirs = th /\ u.others = {} /\ u.unrecorded = FALSE /\ u.halfUndone = FALSE
      /\ u = [disk |-> u.disk, asked |-> u.asked, manifest |-> u.manifest, backups |-> u.backups, taken |-> u.taken,
              proc |-> u.proc, runs |-> u.runs, edits |-> u.edits, users |-> u.users, theirs |-> u.theirs,
              others |-> u.others, unrecorded |-> u.unrecorded, halfUndone |-> u.halfUndone]
  BY <1>3
<1>5. Shape(u)
  <2>1. /\ IsList(u.manifest) /\ IsList(u.proc.changes) /\ IsList(u.proc.todo)
        /\ u.unrecorded \in BOOLEAN /\ u.halfUndone \in BOOLEAN /\ u.runs \in Nat /\ u.edits \in Nat
    <3>1. u.manifest = <<>> /\ u.proc = AtRest /\ u.unrecorded = FALSE /\ u.halfUndone = FALSE /\ u.runs = 0 /\ u.edits = 0
      BY ONLY <1>4
    <3>2. u.proc.changes = <<>> /\ u.proc.todo = <<>>
      BY ONLY <3>1, AtRestIs
    <3>3. IsList(u.manifest) /\ IsList(u.proc.changes) /\ IsList(u.proc.todo)
      BY ONLY <3>1, <3>2, EmptyList, Zenon
    <3>4. u.unrecorded \in BOOLEAN /\ u.halfUndone \in BOOLEAN
      BY ONLY <3>1, Zenon
    <3> QED BY ONLY <3>1, <3>3, <3>4
  <2>2. u.proc = [op |-> u.proc.op, a |-> u.proc.a, hs |-> u.proc.hs, todo |-> u.proc.todo, changes |-> u.proc.changes,
                  h |-> u.proc.h, open |-> u.proc.open]
    BY ONLY <1>4, AtRestIs
  <2> QED BY ONLY <1>4, <2>1, <2>2 DEF Shape
<1>6. ProcOk(u) /\ Records(u)
  BY <1>2, <1>4, AtRestIs DEF ProcOk, Records
<1>7. Pending(u) = <<>> /\ Entries(u) = {}
  <2>1. Quiet(u)
    BY <1>4, AtRestIs DEF Quiet
  <2>2. Pending(u) = <<>>
    BY <2>1, <1>4, <1>5, <1>6, PendingIs
  <2> QED BY <2>2, <1>4, AtRestIs, EmptyList DEF Entries
<1>8. ASSUME NEW p \in Paths \ Settled, d[p] # None
      PROVE  /\ IsFile(d[p]) /\ d[p].marks \cap Keys = {} /\ ~HasOurs(d[p]) /\ d[p] # TheRule
             /\ \A k \in Keys : d[p].at[k] \notin Ours
  <2>1. IsFile(d[p]) /\ d[p].marks \subseteq {"generated"} /\ \A k \in Keys : d[p].at[k] \in {"none", "theirs"}
    BY <1>2, <1>8 DEF d
  <2>2. "generated" \notin Keys /\ "rule" \in Keys
    BY DEF Keys
  <2>3. \A k \in Keys : d[p].at[k] \notin Ours
    BY <2>1 DEF Ours
  <2>4. ~HasOurs(d[p])
    BY <2>3 DEF HasOurs, Names
  <2>5. TheRule.at["rule"] \in Ours
    BY <2>2 DEF TheRule, Blank, Ours
  <2> QED BY <2>1, <2>2, <2>3, <2>4, <2>5
<1>9. Typed(d, {}, 0, us, th, {})
  <2>1. d = [p \in Paths |-> d[p]]
    BY <1>2 DEF d
  <2>2. ASSUME NEW p \in Paths, d[p] # None  PROVE IsFile(d[p]) /\ Formed(p, d[p])
    <3>1. CASE p \in Settled
      <4>1. p \notin JsonFiles /\ p \notin {"rule", "hermes.yaml", "config.toml"}
        BY <3>1 DEF Settled, Skills, Registry, JsonFiles
      <4>2. IsFile(d[p])
        BY <2>2, <1>2 DEF d
      <4> QED BY <4>1, <4>2 DEF Formed
    <3>2. CASE p \notin Settled
      <4>1. IsFile(d[p]) /\ d[p].marks \cap Keys = {} /\ ~HasOurs(d[p]) /\ \A k \in Keys : d[p].at[k] \notin Ours
        BY <2>2, <3>2, <1>8
      <4> QED BY <4>1 DEF Formed
    <3> QED BY <3>1, <3>2
  <2> QED BY <2>1, <2>2, <1>f DEF Typed
<1>10. ASSUME NEW p \in Paths \ Settled
       PROVE  PathOk(p, d[p], Saved({}, p), us[p], th[p], p \in {}, <<>>, FALSE, FALSE)
  <2> DEFINE f == d[p]
             B == Saved({}, p)
             own == us[p]
             t == th[p]
             I == OnPath(<<>>, p)
  <2>1. B = {} /\ I = {}
    BY EmptyList DEF Saved, OnPath
  <2>2. /\ own = (IF f = None THEN None ELSE f.text) /\ t = (IF f = None THEN {} ELSE {k \in Keys : f.at[k] = "theirs"})
        /\ f # None => f.text \in Nat /\ ~HasOurs(f) /\ f # TheRule /\ \A k \in Keys : f.at[k] \notin Ours
        /\ None \notin Nat
    BY <1>8, <1>d, <1>e, NoneIsNoNumber
  <2> HIDE DEF f, B, own, t, I
  <2>3. TextKept(p, f, B, own)
    BY <2>2 DEF TextKept, Holds
  <2>4. TheirsKept(p, f, B, t, <<>>) /\ Recorded(p, B, <<>>)
    BY <2>1, <2>2 DEF TheirsKept, Recorded, I
  <2>5. FormTracked(f, B, own, FALSE, <<>>, I)
    <3>1. Covered(f, <<>>, I)
      BY <2>2 DEF Covered, Names
    <3>2. Accounted(f, B, <<>>, I)
      BY <2>1, <3>1 DEF Accounted
    <3>3. Younger(f, B, <<>>, I)
      BY <2>1, <3>2 DEF Younger
    <3> QED BY <2>2, <3>2, <3>3 DEF FormTracked
  <2>6. RuleTracked(f, B, own, FALSE, <<>>, I)
    BY <2>2 DEF RuleTracked
  <2>7. (p \in {}) = FALSE
    OBVIOUS
  <2>8. PathOk(p, f, B, own, t, FALSE, <<>>, FALSE, FALSE)
    BY <2>3, <2>4, <2>5, <2>6 DEF PathOk, I
  <2> QED BY <2>7, <2>8 DEF f, B, own, t
<1>11. CoreOf(u)
  <2>1. Core(d, {}, 0, us, th, {}, <<>>, {}, FALSE, FALSE)
    BY <1>9, <1>10 DEF Core
  <2> QED BY <2>1, <1>4, <1>7 DEF CoreOf
<1> QED BY <1>5, <1>6, <1>11 DEF Inv

\* The invariant says what UndoRestores asks.
LEMMA InvGivesRestores ==
  ASSUME Inv(u)
  PROVE  UndoRestores
<1>0. Shape(u) /\ ProcOk(u) /\ CoreOf(u) /\ Typed(u.disk, u.backups, u.taken, u.users, u.theirs, u.others)
  BY DEF Inv, CoreOf, Core
<1>1. \A p \in Paths \ Settled : PathIn(u, p)
  BY <1>0 DEF CoreOf, Core, PathIn
<1>2. \A p \in Paths \ Settled : p \in Forms \/ p = "rule" \/ p \in InstallerFiles
  BY DEF Paths, Settled, Skills, Registry, Forms, JsonFiles, InstallerFiles
<1>3. \A p \in Paths : /\ \A b \in Saved(u.backups, p) : b.content \in Versions(p)
                       /\ u.disk[p] # None => u.disk[p] \in Versions(p)
  BY DEF Saved, Versions
<1>4. KeptSomewhere
  <2> SUFFICES ASSUME NEW p \in Paths \ Settled
               PROVE  /\ u.users[p] # None => \E v \in Versions(p) : v.text = u.users[p]
                      /\ (~u.halfUndone /\ p # "config.toml") =>
                           \A k \in u.theirs[p] : \E v \in Versions(p) : v.at[k] = "theirs"
    BY DEF KeptSomewhere
  <2>1. TextKept(p, u.disk[p], Saved(u.backups, p), u.users[p])
    BY <1>1 DEF PathIn, PathOk
  <2>2. u.users[p] # None => \E v \in Versions(p) : v.text = u.users[p]
    BY <2>1, <1>2, <1>3 DEF TextKept, Holds
  <2>3. ASSUME ~u.halfUndone, p # "config.toml", NEW k \in u.theirs[p]  PROVE \E v \in Versions(p) : v.at[k] = "theirs"
    <3>1. TheirsKept(p, u.disk[p], Saved(u.backups, p), u.theirs[p], Pending(u))
      BY <1>1, <2>3 DEF PathIn, PathOk
    <3>2. (u.disk[p] # None /\ u.disk[p].at[k] = "theirs") \/ \E b \in Saved(u.backups, p) : b.content.at[k] = "theirs"
      BY <3>1, <2>3 DEF TheirsKept
    <3> QED BY <3>2, <1>3
  <2> QED BY <2>2, <2>3
<1>5. ASSUME Quiet(u), u.manifest = <<>>, ~u.unrecorded, ~u.halfUndone  PROVE NothingOfOurs
  <2> SUFFICES ASSUME NEW p \in Paths \ (Settled \cup InstallerFiles)
               PROVE  LET file == u.disk[p]
                      IN /\ p \notin u.others =>
                              /\ u.users[p] # None => (file # None /\ file.text = u.users[p])
                              /\ file # None => u.users[p] # None
                         /\ (file # None /\ file.plain) => \A k \in Keys \ {"rule"} : file.at[k] \notin Ours
    BY DEF NothingOfOurs
  <2> DEFINE f == u.disk[p]
             B == Saved(u.backups, p)
             own == u.users[p]
             sh == p \in u.others
             L == Pending(u)
             I == OnPath(L, p)
  <2>1. L = <<>> /\ I = {}
    BY <1>0, <1>5, PendingIs, EmptyList DEF OnPath
  <2>2. TextKept(p, f, B, own) /\ (p \in Forms => FormTracked(f, B, own, sh, L, I)) /\ (p = "rule" => RuleTracked(f, B, own, sh, L, I))
    <3>1. PathOk(p, f, B, own, u.theirs[p], sh, L, u.halfUndone, u.unrecorded)
      BY <1>1 DEF PathIn
    <3> HIDE DEF f, B, own, sh, L, I
    <3> QED BY <3>1, <1>5 DEF PathOk, I
  <2>3. (p = "rule" /\ f # None) => ~HasOurs(f)
    BY <1>0 DEF Typed, Formed
  <2>4. p \in Forms \/ p = "rule"
    BY <1>2
  <2> HIDE DEF f, B, own, sh, L, I
  <2>5. CASE p \in Forms
    <3>1. Covered(f, L, {}) /\ ((own # None /\ ~sh) => f # None) /\ ~Grown(f, B, L, {})
      BY <2>1, <2>2, <2>5 DEF FormTracked, Accounted, Grown
    <3>2. (own # None /\ ~sh) => f # None /\ f.text = own
      BY <3>1, <2>2, <2>5 DEF TextKept
    <3>3. (~sh /\ f # None) => own # None
      BY <2>1, <2>2, <2>5, <3>1 DEF FormTracked
    <3>4. (f # None /\ f.plain) => \A k \in Keys \ {"rule"} : f.at[k] \notin Ours
      BY <3>1 DEF Covered, Names
    <3> QED BY <3>2, <3>3, <3>4 DEF f, own, sh
  <2>6. CASE p = "rule"
    <3>1. RuleTracked(f, B, own, sh, L, {})
      BY <2>1, <2>2, <2>6
    <3>2. (own # None /\ ~sh) => f # None /\ f.text = own
      BY <3>1 DEF RuleTracked, Latest
    <3>3. (~sh /\ f # None) => own # None
      BY <3>1 DEF RuleTracked, Latest
    <3>4. f # None => \A k \in Keys \ {"rule"} : f.at[k] \notin Ours
      BY <2>3, <2>6 DEF HasOurs, Names
    <3> QED BY <3>2, <3>3, <3>4 DEF f, own, sh
  <2> QED BY <2>4, <2>5, <2>6
<1> QED BY <1>4, <1>5 DEF UndoRestores

\* Whatever is configured, forced, killed, undone and edited, in any order, by
\* any number of runs and edits, in any home an installer may find: what users
\* wrote and had under the router's names is in their file or a copy of it, and
\* with nothing left to undo nothing of configure is left either.
THEOREM UndoIsSafe == SettingsInit /\ [][SettingsNext]_u => []UndoRestores
<1>1. SettingsInit => Inv(u)
  BY StartHolds
<1>2. Inv(u) /\ [SettingsNext]_u => Inv(u)'
  <2> SUFFICES ASSUME Inv(u), [SettingsNext]_u PROVE Inv(u')
    BY DEF Inv, Shape, CoreOf, ProcOk, Records
  <2>1. CASE \E a \in u.asked : Begin(a)
    BY <2>1, BeginKeeps
  <2>2. CASE \E a \in u.asked : Delegation(a)
    BY <2>2, DelegationKeeps
  <2>3. CASE NextHarness
    BY <2>3, NextHarnessKeeps
  <2>4. CASE ConfigureStep
    BY <2>4, ConfigureStepKeeps
  <2>5. CASE CliFails
    BY <2>5, CliFailsKeeps
  <2>6. CASE SaveManifest
    BY <2>6, SaveManifestKeeps
  <2>7. CASE Abort
    BY <2>7, AbortKeeps
  <2>8. CASE UndoStep
    BY <2>8, UndoStepKeeps
  <2>9. CASE FinishUndo
    BY <2>9, FinishUndoKeeps
  <2>10. CASE DelegationStep
    BY <2>10, DelegationStepKeeps
  <2>11. CASE DelegationCliFails
    BY <2>11, DelegationCliFailsKeeps
  <2>12. CASE \E path \in Paths : UserEdits(path)
    BY <2>12, UserEditsKeeps
  <2>13. CASE \E path \in Paths : UserDeletes(path)
    BY <2>13, UserDeletesKeeps
  <2>14. CASE UNCHANGED u
    BY <2>14
  <2> QED BY <2>1, <2>2, <2>3, <2>4, <2>5, <2>6, <2>7, <2>8, <2>9, <2>10, <2>11, <2>12, <2>13, <2>14 DEF SettingsNext
<1>3. Inv(u) => UndoRestores
  BY InvGivesRestores
<1> QED BY <1>1, <1>2, <1>3, PTL

----------------------------------------------------------------------------
(* What the installer decides, for every machine, key and answer             *)

\* Among finitely many members there is one with the greatest value.
LEMMA GreatestExists ==
  ASSUME NEW S, IsFiniteSet(S), S # {}, NEW f, \A m \in S : f[m] \in Int
  PROVE  \E m \in S : \A a \in S : f[a] <= f[m]
<1> DEFINE D(a) == {b \in S : f[b] >= f[a]}
           F == {D(a) : a \in S}
<1>1. IsWellFoundedOn(StrictSubsetOrdering(S), SUBSET S)
  BY FS_StrictSubsetOrderingWellFounded, FS_FiniteSubsetsOfFinite
<1>2. F \subseteq SUBSET S /\ F # {}
  OBVIOUS
<1>3. PICK X \in F : \A Y \in F : ~(<<Y, X>> \in StrictSubsetOrdering(S))
  <2> HIDE DEF F
  <2> QED
    BY <1>1, <1>2, WFMin
<1>4. PICK m \in S : X = D(m)
  BY <1>3
<1>5. ASSUME NEW a \in S, ~(f[a] <= f[m]) PROVE FALSE
  <2>1. D(a) \subseteq D(m) /\ m \in D(m) /\ m \notin D(a)
    BY <1>5
  <2>2. D(a) \in F /\ D(a) \subseteq S /\ D(m) \subseteq S /\ D(a) # D(m)
    BY <2>1
  <2> HIDE DEF D
  <2>3. <<D(a), X>> \in StrictSubsetOrdering(S)
    BY <1>4, <2>1, <2>2 DEF StrictSubsetOrdering
  <2> QED
    BY <1>3, <2>2, <2>3
<1> QED
  BY <1>5

\* The memory of a card is a size or unknown, its vendor one of a few words.
Size == Nat \cup {None}
Makers == {"nvidia", "amd", "apple", "intel", "other"}

\* What the probes of any machine may say.
IsBox(m) ==
  /\ m.ram \in Size
  /\ m.cards = None \/ m.cards \in Seq([vendor : Makers, vram : Size])
  /\ m.nvidia = None \/ m.nvidia \in Seq(Size)
  /\ m.rocm = None \/ m.rocm \in Seq(Size)

\* What the installer makes of it: only Apple's cards share the memory.
IsCard(g, ram) ==
  /\ g.vram \in Size /\ g.unified \in BOOLEAN
  /\ g.unified => g.vendor = "apple" /\ g.vram = ram

IsMachine(hw) ==
  /\ hw.ram \in Size /\ DOMAIN hw.gpus \subseteq Nat /\ IsFiniteSet(DOMAIN hw.gpus)
  /\ \A i \in DOMAIN hw.gpus : IsCard(hw.gpus[i], hw.ram)

Cards(ram) == {g \in [vendor : Makers, vram : Size, unified : BOOLEAN] : IsCard(g, ram)}

LEMMA OneCard ==
  ASSUME NEW ram, NEW vendor \in Makers, NEW size \in Size, NEW unified \in BOOLEAN,
         unified => vendor = "apple" /\ size = ram
  PROVE  GPU(vendor, size, unified) \in Cards(ram)
BY DEF GPU, Cards, IsCard

LEMMA SomeCards ==
  ASSUME NEW ram, NEW T, NEW s \in Seq(T), NEW f, f = [i \in DOMAIN s |-> f[i]],
         \A i \in DOMAIN s : s[i] \in T => f[i] \in Cards(ram)
  PROVE  f \in Seq(Cards(ram))
<1>1. DOMAIN s = 1..Len(s) /\ Len(s) \in Nat /\ \A i \in 1..Len(s) : s[i] \in T
  OBVIOUS
<1>2. f \in [1..Len(s) -> Cards(ram)]
  BY <1>1
<1> QED
  BY <1>1, <1>2

LEMMA DetectedMachine ==
  ASSUME NEW m, IsBox(m)
  PROVE  IsMachine(Detect(m))
<1> DEFINE system == CASE m.os = "linux" \/ m.cards = None -> <<>>
                       [] m.os = "macos" /\ m.cards # None -> ParseSystemProfiler(m.cards, m.ram)
                       [] OTHER -> ParseWindowsCim(m.cards)
           smi == IF m.nvidia = None THEN <<>> ELSE ParseNvidiaSmi(m.nvidia)
           rocm == IF m.os # "linux" \/ m.rocm = None THEN <<>> ELSE ParseRocmSmi(m.rocm)
           all == system \o smi \o rocm
           replaced == IF m.nvidia = None THEN {} ELSE {i \in DOMAIN system : system[i].vendor = "nvidia"}
           hw == Detect(m)
           Adapter == [vendor : Makers, vram : Size]
<1>0. <<>> \in Seq(Cards(m.ram))
  OBVIOUS
<1>1. system \in Seq(Cards(m.ram))
  <2>1. ASSUME m.cards # None PROVE ParseSystemProfiler(m.cards, m.ram) \in Seq(Cards(m.ram))
    <3> DEFINE f == ParseSystemProfiler(m.cards, m.ram)
    <3>1. m.cards \in Seq(Adapter) /\ m.ram \in Size
      BY <2>1 DEF IsBox
    <3>2. ASSUME NEW i \in DOMAIN m.cards, m.cards[i] \in Adapter PROVE f[i] \in Cards(m.ram)
      <4>1. m.cards[i].vendor \in Makers /\ m.cards[i].vram \in Size
        BY <3>2
      <4>2. f[i] = IF m.cards[i].vendor = "apple" THEN GPU("apple", m.ram, TRUE)
                   ELSE GPU(m.cards[i].vendor, m.cards[i].vram, FALSE)
        BY DEF ParseSystemProfiler
      <4>3. "apple" \in Makers /\ TRUE \in BOOLEAN /\ FALSE \in BOOLEAN
        BY DEF Makers
      <4>4. CASE m.cards[i].vendor = "apple"
        BY <3>1, <4>2, <4>3, <4>4, OneCard
      <4>5. CASE m.cards[i].vendor # "apple"
        BY <4>1, <4>2, <4>3, <4>5, OneCard
      <4> QED
        BY <4>4, <4>5
    <3>3. f = [i \in DOMAIN m.cards |-> f[i]]
      BY DEF ParseSystemProfiler
    <3> HIDE DEF f, Adapter
    <3>4. f \in Seq(Cards(m.ram))
      BY <3>1, <3>2, <3>3, SomeCards
    <3> QED
      BY <3>4 DEF f
  <2>2. ASSUME m.cards # None PROVE ParseWindowsCim(m.cards) \in Seq(Cards(m.ram))
    <3> DEFINE f == ParseWindowsCim(m.cards)
    <3>1. m.cards \in Seq(Adapter)
      BY <2>2 DEF IsBox
    <3>2. ASSUME NEW i \in DOMAIN m.cards, m.cards[i] \in Adapter PROVE f[i] \in Cards(m.ram)
      <4>1. m.cards[i].vendor \in Makers /\ m.cards[i].vram \in Size
        BY <3>2
      <4>2. f[i] = GPU(m.cards[i].vendor, m.cards[i].vram, FALSE)
        BY DEF ParseWindowsCim
      <4> QED
        BY <4>1, <4>2, OneCard
    <3>3. f = [i \in DOMAIN m.cards |-> f[i]]
      BY DEF ParseWindowsCim
    <3> HIDE DEF f, Adapter
    <3>4. f \in Seq(Cards(m.ram))
      BY <3>1, <3>2, <3>3, SomeCards
    <3> QED
      BY <3>4 DEF f
  <2> QED
    BY <1>0, <2>1, <2>2
<1>2. smi \in Seq(Cards(m.ram))
  <2>1. CASE m.nvidia # None
    <3> DEFINE f == ParseNvidiaSmi(m.nvidia)
    <3>1. m.nvidia \in Seq(Size)
      BY <2>1 DEF IsBox
    <3>2. ASSUME NEW i \in DOMAIN m.nvidia, m.nvidia[i] \in Size PROVE f[i] \in Cards(m.ram)
      <4>1. f[i] = GPU("nvidia", m.nvidia[i], FALSE) /\ "nvidia" \in Makers
        BY DEF ParseNvidiaSmi, Makers
      <4> QED
        BY <3>2, <4>1, OneCard
    <3>3. f = [i \in DOMAIN m.nvidia |-> f[i]]
      BY DEF ParseNvidiaSmi
    <3> HIDE DEF f
    <3>4. f \in Seq(Cards(m.ram))
      BY <3>1, <3>2, <3>3, SomeCards
    <3> QED
      BY <2>1, <3>4 DEF f
  <2> QED
    BY <1>0, <2>1
<1>3. rocm \in Seq(Cards(m.ram))
  <2>1. CASE m.rocm # None
    <3> DEFINE f == ParseRocmSmi(m.rocm)
    <3>1. m.rocm \in Seq(Size)
      BY <2>1 DEF IsBox
    <3>2. ASSUME NEW i \in DOMAIN m.rocm, m.rocm[i] \in Size PROVE f[i] \in Cards(m.ram)
      <4>1. f[i] = GPU("amd", m.rocm[i], FALSE) /\ "amd" \in Makers
        BY DEF ParseRocmSmi, Makers
      <4> QED
        BY <3>2, <4>1, OneCard
    <3>3. f = [i \in DOMAIN m.rocm |-> f[i]]
      BY DEF ParseRocmSmi
    <3> HIDE DEF f
    <3>4. f \in Seq(Cards(m.ram))
      BY <3>1, <3>2, <3>3, SomeCards
    <3> QED
      BY <1>0, <2>1, <3>4 DEF f
  <2> QED
    BY <1>0, <2>1
<1>4. hw.ram = m.ram /\ hw.gpus = Restrict(all, DOMAIN all \ replaced)
  BY DEF Detect, ParseMeminfo
<1> HIDE DEF system, smi, rocm, hw, replaced
<1>5. all \in Seq(Cards(m.ram))
  BY <1>1, <1>2, <1>3
<1> HIDE DEF all
<1>6. DOMAIN all = 1..Len(all) /\ Len(all) \in Nat /\ \A i \in DOMAIN all : all[i] \in Cards(m.ram)
  BY <1>5
<1>7. DOMAIN hw.gpus \subseteq 1..Len(all) /\ \A i \in DOMAIN hw.gpus : hw.gpus[i] = all[i]
  BY <1>4, <1>6 DEF Restrict
<1>8. IsFiniteSet(DOMAIN hw.gpus) /\ DOMAIN hw.gpus \subseteq Nat
  <2>1. 1 \in Int /\ Len(all) \in Int
    BY <1>6
  <2>2. IsFiniteSet(1..Len(all))
    BY <2>1, FS_Interval
  <2> QED
    BY <2>2, <1>6, <1>7, FS_Subset
<1>9. \A i \in DOMAIN hw.gpus : IsCard(hw.gpus[i], hw.ram)
  BY <1>4, <1>6, <1>7 DEF Cards
<1> QED
  BY <1>4, <1>8, <1>9 DEF IsMachine, IsBox, hw

\* The memory of the largest card of a vendor, or nothing.
LEMMA LargestCard ==
  ASSUME NEW hw, IsMachine(hw), NEW vendor,
         NEW C, C = {j \in DOMAIN hw.gpus : hw.gpus[j].vendor = vendor /\ Sized(hw.gpus[j].vram)}
  PROVE  LET most == IF {hw.gpus[i].vram : i \in C} = {} THEN 0 ELSE Max({hw.gpus[i].vram : i \in C})
         IN most \in Nat /\ \A i \in C : hw.gpus[i].vram <= most
<1> DEFINE S == {hw.gpus[i].vram : i \in C}
           f == [i \in C |-> hw.gpus[i].vram]
<1>1. \A i \in C : hw.gpus[i].vram \in Nat
  BY DEF IsMachine, IsCard, Size, Sized
<1>2. CASE C = {}
  BY <1>2
<1>3. CASE C # {}
  <2>1. IsFiniteSet(C)
    BY FS_Subset DEF IsMachine
  <2>2. PICK m \in C : \A a \in C : f[a] <= f[m]
    <3>1. \A i \in C : f[i] \in Int
      BY <1>1
    <3> HIDE DEF f
    <3> QED
      BY <1>3, <2>1, <3>1, GreatestExists
  <2>3. hw.gpus[m].vram \in S /\ \A a \in S : hw.gpus[m].vram >= a
    BY <1>1, <2>2
  <2>4. S # {} /\ S \subseteq Nat
    BY <1>1, <2>3
  <2> HIDE DEF S
  <2>5. Max(S) \in S /\ \A a \in S : Max(S) >= a
    BY <2>3 DEF Max
  <2> QED
    BY <2>4, <2>5 DEF S
<1> QED
  BY <1>2, <1>3

LEMMA NoDevice == None \notin {"cuda", "rocm", "metal", "cpu", "browser"}
BY ModelSizes

Vendor(device) == IF device = "cuda" THEN "nvidia" ELSE IF device = "rocm" THEN "amd" ELSE "apple"

LEMMA MemoryOfCards ==
  ASSUME NEW hw, IsMachine(hw), NEW device \in {"cuda", "rocm", "metal"}
  PROVE  /\ Memory(hw, device) \in Nat
         /\ \A i \in DOMAIN hw.gpus : hw.gpus[i].vendor = Vendor(device) /\ Sized(hw.gpus[i].vram)
                                      => hw.gpus[i].vram <= Memory(hw, device)
<1> DEFINE C == {j \in DOMAIN hw.gpus : hw.gpus[j].vendor = Vendor(device) /\ Sized(hw.gpus[j].vram)}
           most == IF {hw.gpus[i].vram : i \in C} = {} THEN 0 ELSE Max({hw.gpus[i].vram : i \in C})
<1>2. Memory(hw, device) = most
  BY NoDevice DEF Memory, Vendor
<1>3. most \in Nat /\ \A i \in C : hw.gpus[i].vram <= most
  BY LargestCard
<1> QED
  BY <1>2, <1>3

LEMMA NvidiaMemory ==
  ASSUME NEW hw
  PROVE  NvidiaVram(hw) = Memory(hw, "cuda")
BY NoDevice DEF Memory, NvidiaVram

LEMMA RamCounts ==
  ASSUME NEW hw, IsMachine(hw)
  PROVE  Ram(hw) \in Nat /\ Memory(hw, "cpu") = Ram(hw) /\ Memory(hw, None) = Ram(hw)
BY DEF Ram, Memory, IsMachine, Size

LEMMA LeastIsOne ==
  ASSUME NEW S, IsFiniteSet(S), S # {}, S \subseteq Nat
  PROVE  Min(S) \in S
<1> DEFINE f == [a \in S |-> -a]
<1>1. \A a \in S : f[a] \in Int
  OBVIOUS
<1>2. PICK m \in S : \A a \in S : f[a] <= f[m]
  <2> HIDE DEF f
  <2> QED
    BY <1>1, GreatestExists
<1>3. \A a \in S : m <= a
  BY <1>2
<1> QED
  BY <1>3 DEF Min

\* The machine has the memory the first model was picked for.
LEMMA BonsaiFits ==
  ASSUME NEW hw, IsMachine(hw)
  PROVE  LET b == PickBonsai(hw)
         IN /\ b.gb \in Nat /\ b.gb <= Memory(hw, b.device)
            /\ b.fits \in BOOLEAN /\ (b.fits => b.device \in {"metal", "cuda", "cpu"})
            /\ ~b.fits => b.device = None /\ b.gb = 0
            /\ b.device = "metal" => BonsaiFiles.big.unified <= Ram(hw) /\ b.gb = BonsaiFiles.big.gb
<1> DEFINE big == BonsaiFiles.big
           smallPack == BonsaiFiles.small
           apple == \E i \in DOMAIN hw.gpus : hw.gpus[i].vendor = "apple" /\ hw.gpus[i].unified
                                               /\ Sized(hw.gpus[i].vram) /\ hw.gpus[i].vram >= big.unified
           n == NvidiaVram(hw)
           b == PickBonsai(hw)
           pick(gb, device) == [fits |-> TRUE, gb |-> gb, device |-> device]
<1>0. b = IF apple THEN pick(big.gb, "metal")
          ELSE IF n >= big.vram THEN pick(big.gb, "cuda")
          ELSE IF n >= smallPack.vram THEN pick(smallPack.gb, "cuda")
          ELSE IF Ram(hw) >= smallPack.ram THEN pick(smallPack.gb, "cpu")
          ELSE [fits |-> FALSE, gb |-> 0, device |-> None]
  BY DEF PickBonsai
<1>1. /\ big.gb \in Nat /\ smallPack.gb \in Nat /\ big.vram \in Nat /\ big.unified \in Nat
      /\ smallPack.vram \in Nat /\ smallPack.ram \in Nat
      /\ smallPack.gb <= smallPack.vram /\ smallPack.gb <= smallPack.ram
      /\ big.gb <= big.vram /\ big.gb <= big.unified
  BY ModelSizes
<1>2. n = Memory(hw, "cuda") /\ n \in Nat
  BY NvidiaMemory, MemoryOfCards
<1>3. Ram(hw) \in Nat /\ Memory(hw, "cpu") = Ram(hw) /\ Memory(hw, None) = Ram(hw)
  BY RamCounts
<1>9. b = PickBonsai(hw)
  OBVIOUS
<1> HIDE DEF n, b
<1>4. CASE apple
  <2>1. PICK i \in DOMAIN hw.gpus : hw.gpus[i].vendor = "apple" /\ hw.gpus[i].unified
                                    /\ Sized(hw.gpus[i].vram) /\ hw.gpus[i].vram >= big.unified
    BY <1>4
  <2>2. hw.gpus[i].vram = hw.ram /\ hw.gpus[i].vram \in Nat /\ Ram(hw) = hw.ram
    BY <2>1 DEF IsMachine, IsCard, Size, Sized, Ram
  <2>3. hw.gpus[i].vram <= Memory(hw, "metal") /\ Memory(hw, "metal") \in Nat
    BY <2>1, MemoryOfCards DEF Vendor
  <2>4. b = [fits |-> TRUE, gb |-> big.gb, device |-> "metal"]
    BY <1>0, <1>4 DEF apple
  <2> QED
    BY <1>1, <1>9, <2>1, <2>2, <2>3, <2>4, NoDevice
<1>5. CASE ~apple /\ n >= big.vram
  <2>1. b = [fits |-> TRUE, gb |-> big.gb, device |-> "cuda"]
    <3> HIDE DEF apple
    <3> QED
      BY <1>0, <1>1, <1>2, <1>5
  <2>2. b.gb \in Nat /\ b.gb <= Memory(hw, b.device)
    <3> HIDE DEF apple
    <3> QED
      BY <1>1, <1>2, <1>5, <2>1
  <2>3. b.fits \in BOOLEAN /\ (b.fits => b.device \in {"metal", "cuda", "cpu"}) /\ b.device # "metal"
    BY <2>1, NoDevice
  <2>4. ~b.fits => b.device = None /\ b.gb = 0
    BY <2>1
  <2> QED
    BY <1>9, <2>2, <2>3, <2>4
<1>6. CASE ~apple /\ ~(n >= big.vram) /\ n >= smallPack.vram
  <2>1. b = [fits |-> TRUE, gb |-> smallPack.gb, device |-> "cuda"]
    <3> HIDE DEF apple
    <3> QED
      BY <1>0, <1>1, <1>2, <1>6
  <2>2. b.gb \in Nat /\ b.gb <= Memory(hw, b.device)
    <3> HIDE DEF apple
    <3> QED
      BY <1>1, <1>2, <1>6, <2>1
  <2>3. b.fits \in BOOLEAN /\ (b.fits => b.device \in {"metal", "cuda", "cpu"}) /\ b.device # "metal"
    BY <2>1, NoDevice
  <2>4. ~b.fits => b.device = None /\ b.gb = 0
    BY <2>1
  <2> QED
    BY <1>9, <2>2, <2>3, <2>4
<1>7. CASE ~apple /\ ~(n >= big.vram) /\ ~(n >= smallPack.vram) /\ Ram(hw) >= smallPack.ram
  <2>1. b = [fits |-> TRUE, gb |-> smallPack.gb, device |-> "cpu"]
    <3> HIDE DEF apple
    <3> QED
      BY <1>0, <1>1, <1>2, <1>7
  <2>2. b.gb \in Nat /\ b.gb <= Memory(hw, b.device)
    <3> HIDE DEF apple
    <3> QED
      BY <1>1, <1>3, <1>7, <2>1
  <2>3. b.fits \in BOOLEAN /\ (b.fits => b.device \in {"metal", "cuda", "cpu"}) /\ b.device # "metal"
    BY <2>1, NoDevice
  <2>4. ~b.fits => b.device = None /\ b.gb = 0
    BY <2>1
  <2> QED
    BY <1>9, <2>2, <2>3, <2>4
<1>8. CASE ~apple /\ ~(n >= big.vram) /\ ~(n >= smallPack.vram) /\ ~(Ram(hw) >= smallPack.ram)
  <2>1. b = [fits |-> FALSE, gb |-> 0, device |-> None]
    <3> HIDE DEF apple
    <3> QED
      BY <1>0, <1>1, <1>2, <1>3, <1>8
  <2>2. b.gb \in Nat /\ b.gb <= Memory(hw, b.device)
    <3> HIDE DEF apple
    <3> QED
      BY <1>1, <1>3, <1>8, <2>1
  <2>3. b.fits \in BOOLEAN /\ (b.fits => b.device \in {"metal", "cuda", "cpu"}) /\ b.device # "metal"
    BY <2>1, NoDevice
  <2>4. ~b.fits => b.device = None /\ b.gb = 0
    BY <2>1
  <2> QED
    BY <1>9, <2>2, <2>3, <2>4
<1> QED
  <2> HIDE DEF apple
  <2> QED
    BY <1>1, <1>2, <1>4, <1>5, <1>6, <1>7, <1>8, <1>9

\* A tier whose needs cover what it takes.
NeedsCover(needs, gb) ==
  needs # None => \A kind \in {"vram", "unified", "ram"} : needs[kind] = None \/ (needs[kind] \in Nat /\ gb <= needs[kind])

\* What is kept free on a card stays free beside a tier that is put on it.
LEMMA CardFits ==
  ASSUME NEW hw, IsMachine(hw), NEW i \in DOMAIN hw.gpus, NEW needs, NEW gb \in Nat, NEW r \in Nat,
         needs # None, NeedsCover(needs, gb), FitsCard(needs, hw.gpus[i], r) # None
  PROVE  LET d == FitsCard(needs, hw.gpus[i], r) IN d \in {"cuda", "rocm", "metal"} /\ gb + r <= Memory(hw, d)
<1> DEFINE g == hw.gpus[i]
           d == FitsCard(needs, g, r)
<1>1. Sized(g.vram) /\ g.vram \in Nat /\ (g.unified => g.vendor = "apple")
  BY DEF FitsCard, IsMachine, IsCard, Size, Sized
<1>2. \/ d = "metal" /\ g.vendor = "apple" /\ needs.unified # None /\ g.vram - r >= needs.unified
      \/ d = "cuda" /\ g.vendor = "nvidia" /\ needs.vram # None /\ g.vram - r >= needs.vram
      \/ d = "rocm" /\ g.vendor = "amd" /\ needs.vram # None /\ g.vram - r >= needs.vram
  BY <1>1 DEF FitsCard
<1>3. /\ needs.unified # None => needs.unified \in Nat /\ gb <= needs.unified
      /\ needs.vram # None => needs.vram \in Nat /\ gb <= needs.vram
  BY DEF NeedsCover
<1>4. gb + r <= g.vram
  BY <1>1, <1>2, <1>3
<1>5. d \in {"cuda", "rocm", "metal"} /\ g.vendor = Vendor(d)
  BY <1>2 DEF Vendor
<1>6. g.vram <= Memory(hw, d) /\ Memory(hw, d) \in Nat
  <2> HIDE DEF d
  <2> QED
    BY <1>1, <1>5, MemoryOfCards
<1> QED
  BY <1>1, <1>4, <1>5, <1>6

LEMMA DeviceFits ==
  ASSUME NEW hw, IsMachine(hw), NEW needs, NEW gb \in Nat, NEW r \in Nat, NEW q \in Nat, NeedsCover(needs, gb)
  PROVE  LET d == DeviceFor(needs, hw, r, q)
         IN /\ d \in {"cuda", "rocm", "metal"} => gb + r <= Memory(hw, d)
            /\ d = "cpu" => gb + q <= Ram(hw)
            /\ d \in {"cuda", "rocm", "metal", "cpu", "browser", None}
<1> DEFINE cards == {i \in DOMAIN hw.gpus : FitsCard(needs, hw.gpus[i], r) # None}
           d == DeviceFor(needs, hw, r, q)
<1>1. CASE needs = None
  BY <1>1 DEF DeviceFor
<1>2. CASE needs # None /\ cards # {}
  <2>1. Min(cards) \in cards
    <3>1. cards \subseteq Nat /\ IsFiniteSet(cards)
      BY FS_Subset DEF IsMachine
    <3> HIDE DEF cards
    <3> QED
      BY <1>2, <3>1, LeastIsOne
  <2>2. PICK i \in cards : i = Min(cards)
    BY <2>1
  <2>3. d = FitsCard(needs, hw.gpus[i], r)
    BY <1>2, <2>2 DEF DeviceFor
  <2>4. d \in {"cuda", "rocm", "metal"} /\ gb + r <= Memory(hw, d)
    BY <1>2, <2>2, <2>3, CardFits
  <2> QED
    BY <2>4
<1>3. CASE needs # None /\ cards = {} /\ needs.vendors = None /\ needs.ram # None /\ Ram(hw) - q >= needs.ram
  <2>1. d = "cpu"
    BY <1>3 DEF DeviceFor
  <2>2. needs.ram \in Nat /\ gb <= needs.ram /\ Ram(hw) \in Nat
    BY <1>3, RamCounts DEF NeedsCover
  <2> QED
    BY <1>3, <2>1, <2>2
<1>4. CASE needs # None /\ cards = {} /\ ~(needs.vendors = None /\ needs.ram # None /\ Ram(hw) - q >= needs.ram)
  <2>1. d = None
    BY <1>4 DEF DeviceFor
  <2> QED
    BY <2>1, NoDevice
<1> QED
  BY <1>1, <1>2, <1>3, <1>4

\* What is kept free for the first model where it runs is enough for it.
LEMMA ReservedIsEnough ==
  ASSUME NEW hw, IsMachine(hw)
  PROVE  LET b == PickBonsai(hw)
         IN /\ Reserved(b, "gpu") \in Nat /\ Reserved(b, "ram") \in Nat
            /\ b.device \in {"cuda", "metal"} => b.gb <= Reserved(b, "gpu")
            /\ b.device = "cpu" => b.gb <= Reserved(b, "ram")
<1> DEFINE b == PickBonsai(hw)
<1>1. b.gb \in Nat /\ b.fits \in BOOLEAN /\ (~b.fits => b.device = None)
  BY BonsaiFits
<1> HIDE DEF b
<1>2. CASE ~b.fits
  <2>1. Reserved(b, "gpu") = 0 /\ Reserved(b, "ram") = 0 /\ b.device = None
    BY <1>1, <1>2 DEF Reserved
  <2> QED
    BY <2>1, NoDevice DEF b
<1>3. CASE b.fits /\ b.device = "cpu"
  <2>1. Reserved(b, "gpu") = 0 /\ Reserved(b, "ram") = b.gb + 20
    BY <1>3 DEF Reserved
  <2> QED
    BY <1>1, <1>3, <2>1 DEF b
<1>4. CASE b.fits /\ b.device # "cpu"
  <2>1. Reserved(b, "gpu") = b.gb + 15 /\ Reserved(b, "ram") = 0
    BY <1>4 DEF Reserved
  <2> QED
    BY <1>1, <1>4, <2>1 DEF b
<1> QED
  BY <1>1, <1>2, <1>3, <1>4

\* The second pick is a tier on a device it fits on, or nothing.
LEMMA JevPick ==
  ASSUME NEW hw, NEW b
  PROVE  LET j == PickJev(hw, b)
             device(t) == DeviceFor(t.needs, hw, Reserved(b, "gpu"), Reserved(b, "ram"))
         IN \/ j.gb = 0 /\ j.device = None
            \/ \E i \in DOMAIN JevTiers : j.gb = JevTiers[i].gb /\ j.device = device(JevTiers[i]) /\ j.device # None
<1> DEFINE device(t) == DeviceFor(t.needs, hw, Reserved(b, "gpu"), Reserved(b, "ram"))
           among(devices) == {i \in DOMAIN JevTiers : JevTiers[i].commercial /\ JevTiers[i].default
                                                       /\ device(JevTiers[i]) \in devices}
           fast == among({"cuda", "metal", "rocm"})
           slow == among({"cpu", "browser"})
           pick(i) == [id |-> JevTiers[i].id, gb |-> JevTiers[i].gb, gguf |-> JevTiers[i].gguf, device |-> device(JevTiers[i])]
           j == PickJev(hw, b)
<1>1. \A devices : among(devices) \subseteq Nat /\ IsFiniteSet(among(devices))
  <2>1. DOMAIN JevTiers = 1..Len(JevTiers) /\ Len(JevTiers) \in Nat
    BY ModelSizes
  <2>2. IsFiniteSet(1..Len(JevTiers)) /\ 1..Len(JevTiers) \subseteq Nat
    BY <2>1, FS_Interval
  <2> QED
    BY <2>1, <2>2, FS_Subset
<1>2. j = CASE fast # {} -> pick(Min(fast))
            [] fast = {} /\ slow # {} -> pick(Min(slow))
            [] OTHER -> [id |-> None, gb |-> 0, gguf |-> FALSE, device |-> None]
  BY DEF PickJev
<1>3. /\ fast # {} => Min(fast) \in fast
      /\ slow # {} => Min(slow) \in slow
  <2> HIDE DEF among
  <2> QED
    BY <1>1, LeastIsOne
<1>4. \A i \in fast \cup slow : i \in DOMAIN JevTiers /\ device(JevTiers[i]) # None
  BY NoDevice
<1>9. j = PickJev(hw, b)
  OBVIOUS
<1> HIDE DEF fast, slow, j
<1>5. ASSUME NEW i \in fast \cup slow, j = pick(i)
      PROVE  i \in DOMAIN JevTiers /\ j.gb = JevTiers[i].gb /\ j.device = device(JevTiers[i]) /\ j.device # None
  BY <1>4, <1>5
<1>6. CASE fast # {}
  BY <1>2, <1>3, <1>5, <1>6, <1>9
<1>7. CASE fast = {} /\ slow # {}
  BY <1>2, <1>3, <1>5, <1>7, <1>9
<1>8. CASE fast = {} /\ slow = {}
  BY <1>2, <1>8, <1>9
<1> QED
  BY <1>6, <1>7, <1>8

\* What is recommended fits the machine's memory, each alone and both together.
LEMMA RecommendationFits ==
  ASSUME NEW hw, IsMachine(hw)
  PROVE  PicksFit(hw, Recommend(hw).bonsai, Recommend(hw).jev)
<1> DEFINE b == PickBonsai(hw)
           j == PickJev(hw, b)
           r == Reserved(b, "gpu")
           q == Reserved(b, "ram")
<1>1. Recommend(hw).bonsai = b /\ Recommend(hw).jev = j
  BY DEF Recommend, Beside
<1>2. /\ b.gb \in Nat /\ b.gb <= Memory(hw, b.device) /\ (b.device = "metal" => BonsaiFiles.big.unified <= Ram(hw) /\ b.gb = BonsaiFiles.big.gb)
      /\ b.device \in {"metal", "cuda", "cpu", None}
      /\ b.device = None => b.gb = 0
  BY BonsaiFits, NoDevice
<1>3. r \in Nat /\ q \in Nat /\ (b.device \in {"cuda", "metal"} => b.gb <= r) /\ (b.device = "cpu" => b.gb <= q)
  BY ReservedIsEnough
<1>4. \/ j.gb = 0 /\ j.device = None
      \/ \E i \in DOMAIN JevTiers : j.gb = JevTiers[i].gb /\ j.device # None
                                    /\ j.device = DeviceFor(JevTiers[i].needs, hw, r, q)
  BY JevPick
<1>5. Ram(hw) \in Nat /\ Memory(hw, "cpu") = Ram(hw) /\ Memory(hw, None) = Ram(hw)
  BY RamCounts
<1>6. \A device \in {"cuda", "rocm", "metal"} : Memory(hw, device) \in Nat
  BY MemoryOfCards
<1> HIDE DEF b, j, r, q
<1>7. CASE j.gb = 0 /\ j.device = None
  <2>1. j.device # "cpu" /\ j.device # "browser" /\ Memory(hw, j.device) \in Nat
    BY <1>5, <1>7, NoDevice
  <2>2. j.gb <= Memory(hw, j.device)
    BY <1>7, <2>1
  <2>3. j.device = b.device => j.gb + b.gb <= Memory(hw, j.device)
    BY <1>2, <1>7, <2>1
  <2>4. b.gb <= Memory(hw, b.device)
    BY <1>2
  <2> QED
    BY <1>1, <2>1, <2>2, <2>3, <2>4 DEF PicksFit
<1>8. ASSUME NEW i \in DOMAIN JevTiers, j.gb = JevTiers[i].gb, j.device # None,
             j.device = DeviceFor(JevTiers[i].needs, hw, r, q)
      PROVE  PicksFit(hw, b, j)
  <2>1. /\ j.gb \in Nat /\ NeedsCover(JevTiers[i].needs, j.gb)
        /\ j.gb + BonsaiFiles.big.gb <= BonsaiFiles.big.unified
        /\ BonsaiFiles.big.gb \in Nat /\ BonsaiFiles.big.unified \in Nat
    BY <1>8, ModelSizes DEF NeedsCover
  <2>2. /\ j.device \in {"cuda", "rocm", "metal"} => j.gb + r <= Memory(hw, j.device)
        /\ j.device = "cpu" => j.gb + q <= Ram(hw)
        /\ j.device \in {"cuda", "rocm", "metal", "cpu", "browser"}
    BY <1>3, <1>8, <2>1, DeviceFits
  <2>3. CASE j.device \in {"cuda", "rocm", "metal"}
    <3>1. j.gb <= Memory(hw, j.device)
      BY <1>3, <1>6, <2>1, <2>2, <2>3
    <3>2. j.device = b.device => j.gb + b.gb <= Memory(hw, j.device)
      BY <1>2, <1>3, <1>6, <2>1, <2>2, <2>3, NoDevice
    <3>3. j.device # "cpu" /\ j.device # "browser"
      BY <2>3
    <3> QED
      BY <1>2, <3>1, <3>2, <3>3 DEF PicksFit
  <2>4. CASE j.device = "cpu"
    BY <1>2, <1>3, <1>5, <2>1, <2>2, <2>4, NoDevice DEF PicksFit
  <2>5. CASE j.device = "browser"
    BY <1>2, <2>5, NoDevice DEF PicksFit
  <2> QED
    BY <2>2, <2>3, <2>4, <2>5
<1> QED
  BY <1>1, <1>4, <1>7, <1>8

\* The choice of a plan settled for a server that answers, if for one at all.
LEMMA SettledClassifier ==
  ASSUME NEW p, NEW box, {"classifier", "jev"} \subseteq DOMAIN p
  PROVE  LET q == Settle(p, box) IN q.classifier = "jev-local" => q.jev # None
<1>1. CASE p.classifier = "jev-local" /\ p.jev = None
  <2>1. Settle(p, box).classifier \in {"hosted", "heuristic"}
    BY <1>1 DEF Settle
  <2> QED
    BY <2>1
<1>2. CASE ~(p.classifier = "jev-local" /\ p.jev = None)
  BY <1>2 DEF Settle
<1> QED
  BY <1>1, <1>2

\* The routes of a configuration have their provider in it, and a price.
LEMMA RoutesAreProvided ==
  ASSUME NEW p, NEW keys, NEW r \in RenderConfig(p, keys).models
  PROVE  r.provider \in RenderConfig(p, keys).providers /\ r.basis \in {"bench", "free", "plan"}
<1> DEFINE cloud == IF "cloud" \in p.groups THEN CloudRoutes(keys) ELSE {}
           planRoutes == IF "subscription" \in p.groups THEN {Listed(<<"claude", "plan">>, "anthropic", "plan")} ELSE {}
           bonsai == IF p.bonsai # None THEN {Listed(<<"bonsai", "local">>, "local-bonsai", "free")} ELSE {}
           providers == (IF "cloud" \in p.groups THEN {"openrouter", "tensorx"} ELSE {})
                        \cup (IF "cloud" \in p.groups /\ "OPENAI" \in keys THEN {"openai"} ELSE {})
                        \cup (IF planRoutes = {} THEN {} ELSE {"anthropic"}) \cup (IF bonsai = {} THEN {} ELSE {"local-bonsai"})
<1>1. RenderConfig(p, keys).models = cloud \cup planRoutes \cup bonsai /\ RenderConfig(p, keys).providers = providers
  BY DEF RenderConfig
<1>2. CASE r \in cloud
  <2>1. "cloud" \in p.groups /\ r \in CloudRoutes(keys)
    BY <1>2
  <2>2. \/ r.provider = "openrouter" /\ r.basis = "bench"
        \/ r.provider = "tensorx" /\ r.basis = "bench"
        \/ r.provider = "openai" /\ r.basis = "bench" /\ "OPENAI" \in keys
    BY <2>1 DEF CloudRoutes, Listed
  <2> HIDE DEF planRoutes, bonsai
  <2> QED
    BY <1>1, <2>1, <2>2
<1>3. CASE r \in planRoutes
  <2>1. r.provider = "anthropic" /\ r.basis = "plan" /\ planRoutes # {}
    BY <1>3 DEF Listed
  <2> HIDE DEF planRoutes, bonsai
  <2> QED
    BY <1>1, <2>1
<1>4. CASE r \in bonsai
  <2>1. r.provider = "local-bonsai" /\ r.basis = "free" /\ bonsai # {}
    BY <1>4 DEF Listed
  <2> HIDE DEF planRoutes, bonsai
  <2> QED
    BY <1>1, <2>1
<1> QED
  BY <1>1, <1>2, <1>3, <1>4

LEMMA RenderedBackend ==
  ASSUME NEW p, NEW keys
  PROVE  LET backend == RenderConfig(p, keys).backend
         IN /\ backend \in {"local-jev", "hosted", "laya", "heuristic"}
            /\ backend = "local-jev" <=> p.classifier = "jev-local" /\ p.jev # None
<1> DEFINE backend == RenderConfig(p, keys).backend
<1>1. backend = CASE p.classifier = "jev-local" /\ p.jev # None -> "local-jev"
                  [] p.classifier \in {"hosted", "laya"} -> p.classifier
                  [] OTHER -> "heuristic"
  BY DEF RenderConfig
<1> HIDE DEF backend
<1>2. CASE p.classifier = "jev-local" /\ p.jev # None
  <2>1. backend = "local-jev"
    BY <1>1, <1>2
  <2> QED
    BY <1>2, <2>1 DEF backend
<1>3. CASE p.classifier \in {"hosted", "laya"}
  <2>1. backend = p.classifier
    BY <1>1, <1>3
  <2> QED
    BY <1>3, <2>1 DEF backend
<1>4. CASE ~(p.classifier = "jev-local" /\ p.jev # None) /\ p.classifier \notin {"hosted", "laya"}
  <2>1. backend = "heuristic"
    BY <1>1, <1>4
  <2> QED
    BY <1>4, <2>1 DEF backend
<1> QED
  BY <1>2, <1>3, <1>4

LEMMA RenderedLoads ==
  ASSUME NEW p, NEW keys
  PROVE  LET c == RenderConfig(p, keys)
         IN /\ ValidateRouterConfig(c) = None
            /\ c.enabled # None => c.enabled \subseteq {r.name : r \in c.models}
            /\ c.server = p.jev
<1> DEFINE c == RenderConfig(p, keys)
<1>1. c.backend \in {"local-jev", "hosted", "laya", "heuristic"}
  BY RenderedBackend
<1>2. \A r \in c.models : r.provider \in c.providers /\ r.basis \in {"bench", "free", "plan"}
  BY RoutesAreProvided
<1>3. \A r \in c.models : r.basis \in {"bench", "prices", "free", "plan", "like"}
  BY <1>2
<1>4. c.server = p.jev
  BY DEF RenderConfig
<1>5. c.enabled # None => c.enabled \subseteq {r.name : r \in c.models}
  <2> DEFINE cloud == IF "cloud" \in p.groups THEN CloudRoutes(keys) ELSE {}
             planRoutes == IF "subscription" \in p.groups THEN {Listed(<<"claude", "plan">>, "anthropic", "plan")} ELSE {}
             bonsai == IF p.bonsai # None THEN {Listed(<<"bonsai", "local">>, "local-bonsai", "free")} ELSE {}
             key(r) == CASE r.provider = "openrouter" -> "OPENROUTER" [] r.provider = "tensorx" -> "TENSORX" [] OTHER -> "OPENAI"
             ready == {r \in cloud : key(r) \in keys} \cup planRoutes \cup bonsai
  <2>1. c.models = cloud \cup planRoutes \cup bonsai /\ c.enabled = IF ready = {} THEN None ELSE {r.name : r \in ready}
    BY DEF RenderConfig
  <2>2. ready \subseteq c.models
    <3> HIDE DEF cloud, planRoutes, bonsai, key
    <3> QED
      BY <2>1
  <2> HIDE DEF ready, c
  <2> QED
    BY <2>1, <2>2
<1>6. ValidateRouterConfig(c) = None
  <2> HIDE DEF c
  <2> QED
    BY <1>1, <1>2, <1>3 DEF ValidateRouterConfig
<1> QED
  BY <1>4, <1>5, <1>6

\* What the installer asks for is sound, whatever its flags, the machine, the
\* keys, the servers that run and the answers.
LEMMA InstallIsSound ==
  ASSUME NEW args, NEW box, NEW asker, IsBox(box.machine),
         NEW a, a = RunInstall(args, box, asker), a # None
  PROVE  ConfigLoads(a.config) /\ PicksFit(a.config.machine, a.config.rec.bonsai, a.config.rec.jev)
<1> DEFINE hw == Detect(box.machine)
           rec == Recommend(hw)
           plan == PlanInstall(args, box, ProbeLocal(box), asker)
           fetched == FetchLocal("jev", args, FetchLocal("bonsai", args, plan, rec, asker), rec, asker)
           p == Settle(fetched, box)
           config == RenderConfig(p, box.keys)
<1>1. a = Installed(args, box, p, hw, rec)
  BY DEF RunInstall, Fetched
<1>2. {"classifier", "jev", "bonsai"} \subseteq DOMAIN fetched
  <2>1. {"classifier", "jev", "bonsai"} \subseteq DOMAIN plan
    BY DEF PlanInstall
  <2> HIDE DEF plan, rec
  <2>2. ASSUME NEW kind, NEW q, {"classifier", "jev", "bonsai"} \subseteq DOMAIN q
        PROVE  {"classifier", "jev", "bonsai"} \subseteq DOMAIN FetchLocal(kind, args, q, rec, asker)
    BY <2>2 DEF FetchLocal
  <2>3. {"classifier", "jev", "bonsai"} \subseteq DOMAIN FetchLocal("bonsai", args, plan, rec, asker)
    BY <2>1, <2>2
  <2> QED
    BY <2>2, <2>3
<1>3. p.classifier = "jev-local" => p.jev # None
  <2> HIDE DEF fetched
  <2> QED
    BY <1>2, SettledClassifier
<1>4. PicksFit(hw, rec.bonsai, rec.jev)
  BY DetectedMachine, RecommendationFits
<1> HIDE DEF hw, rec, p
<1>5. ValidateRouterConfig(config) = None /\ config.server = p.jev
      /\ (config.enabled # None => config.enabled \subseteq {r.name : r \in config.models})
  BY RenderedLoads
<1>6. config.backend = "local-jev" <=> p.classifier = "jev-local" /\ p.jev # None
  BY RenderedBackend
<1> HIDE DEF config
<1>7. a = Configured(args, box, p, hw, rec)
  BY <1>1, <1>5 DEF Installed, Accepting, config
<1>8. a.config = [router |-> config, launcher |-> RenderLauncher(p), plan |-> p, machine |-> hw, rec |-> rec]
  BY <1>7 DEF Configured, Run, config
<1> QED
  BY <1>3, <1>4, <1>5, <1>6, <1>8 DEF ConfigLoads

\* What may be asked for stays what the first state says.
Asks(s, home) == "asked" \in DOMAIN s /\ s.asked = home.asked
AskedFor == \E home \in Homes : Asks(u, home)

LEMMA AskedStays ==
  ASSUME NEW home \in Homes, Asks(u, home), SettingsNext
  PROVE  Asks(u', home)
<1>1. ASSUME NEW a, Begin(a) PROVE Asks(u', home)
  BY <1>1 DEF Asks, Begin
<1>2. ASSUME NEW a, Delegation(a) PROVE Asks(u', home)
  BY <1>2 DEF Asks, Delegation
<1>3. CASE NextHarness
  BY <1>3 DEF Asks, NextHarness, Lost
<1>4. CASE ConfigureStep
  <2>1. ASSUME NEW s, NEW step, NEW new, Asks(s, home) PROVE Asks(Edit(s, step, new), home)
    <3>1. ASSUME NEW t, Asks(t, home) PROVE Asks(Logged(t, step, new), home)
      BY <3>1 DEF Asks, Logged
    <3>2. ASSUME NEW t, NEW path, Asks(t, home) PROVE Asks(Backup(t, path), home)
      BY <3>2 DEF Asks, Backup
    <3>3. Asks(Opened(s, step.path), home)
      BY <2>1, <3>2 DEF Asks, Opened
    <3>5. CASE step.how = "cli"
      BY <2>1, <3>5 DEF Asks, Edit
    <3>6. CASE step.how = "skill"
      BY <2>1, <3>2, <3>6 DEF Asks, Edit
    <3>7. CASE step.how = "config"
      BY <2>1, <3>2, <3>7 DEF Asks, Edit
    <3>8. CASE step.how \notin {"cli", "skill", "config"}
      BY <3>1, <3>3, <3>8 DEF Edit
    <3> QED
      BY <3>5, <3>6, <3>7, <3>8
  <2> DEFINE step == Head(u.proc.todo)
             r == Attempt(At(u, step.path), step, u.proc.a)
             next == [u EXCEPT !.proc.todo = IF r.out = "refused" THEN <<>> ELSE Tail(@)]
  <2>2. Asks(next, home)
    BY DEF Asks
  <2>3. u' = IF r.out # "written" \/ u.proc.a.dry THEN next ELSE Edit(next, step, r.file)
    BY <1>4 DEF ConfigureStep
  <2> HIDE DEF next, r, step
  <2> QED
    BY <2>1, <2>2, <2>3
<1>5. CASE CliFails
  BY <1>5 DEF Asks, CliFails
<1>6. CASE SaveManifest
  BY <1>6 DEF Asks, SaveManifest
<1>7. CASE Abort
  BY <1>7 DEF Asks, Abort, Lost
<1>8. CASE UndoStep
  BY <1>8 DEF Asks, UndoStep, UndoChange, UndoCli, UndoDir, UndoFile, RestoreBackup
<1>9. CASE FinishUndo
  BY <1>9 DEF Asks, FinishUndo
<1>10. CASE DelegationStep
  BY <1>10 DEF Asks, DelegationStep, Backup
<1>11. CASE DelegationCliFails
  BY <1>11 DEF Asks, DelegationCliFails
<1>12. ASSUME NEW path \in Paths, UserEdits(path) PROVE Asks(u', home)
  BY <1>12 DEF Asks, UserEdits
<1>13. ASSUME NEW path \in Paths, UserDeletes(path) PROVE Asks(u', home)
  BY <1>13 DEF Asks, UserDeletes
<1> QED
  BY <1>1, <1>2, <1>3, <1>4, <1>5, <1>6, <1>7, <1>8, <1>9, <1>10, <1>11, <1>12, <1>13 DEF SettingsNext

\* What a home's user may ask of the installer is what it makes of some
\* machine, flags and answers.
FromInstaller(a) ==
  "machine" \in DOMAIN a.config =>
    /\ a # None
    /\ \E args, box, asker : IsBox(box.machine) /\ a = RunInstall(args, box, asker)

\* Whatever the installer is asked, on whatever machine, with whatever keys,
\* servers and answers: the configuration it hands to configure loads, and the
\* two local models it may fetch fit the memory, alone and together.
THEOREM InstallsAreSound ==
  (\A home \in Homes : \A a \in home.asked : FromInstaller(a)) =>
    (SettingsInit /\ [][SettingsNext]_u => []InstallSound)
<1> SUFFICES ASSUME \A home \in Homes : \A a \in home.asked : FromInstaller(a)
             PROVE  SettingsInit /\ [][SettingsNext]_u => []InstallSound
  OBVIOUS
<1>1. SettingsInit => AskedFor
  BY DEF SettingsInit, SettingsStart, AskedFor, Asks
<1>2. AskedFor /\ [SettingsNext]_u => AskedFor'
  BY AskedStays DEF AskedFor, Asks
<1>3. AskedFor => InstallSound
  <2> SUFFICES ASSUME AskedFor, NEW a \in u.asked, "machine" \in DOMAIN a.config
               PROVE  ConfigLoads(a.config) /\ PicksFit(a.config.machine, a.config.rec.bonsai, a.config.rec.jev)
    BY DEF InstallSound
  <2>1. FromInstaller(a)
    BY DEF AskedFor, Asks
  <2> QED
    BY <2>1, InstallIsSound DEF FromInstaller
<1> QED
  BY <1>1, <1>2, <1>3, PTL

=============================================================================
