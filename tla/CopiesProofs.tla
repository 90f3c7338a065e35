----------------------------- MODULE CopiesProofs ----------------------------
(* Who works on a scratch directory, that what is left of one is accounted   *)
(* for, and that nothing is deleted under a process that may write: for any  *)
(* number of servers, directories, briefs and processes.                     *)
EXTENDS Copies, FiniteSetTheorems, TLAPS

(***************************************************************************)
(* The inductive invariant: a part for every server, one for every         *)
(* directory, one for the processes.                                       *)
(***************************************************************************)
Types ==
  /\ dir \in [Dir -> [there : BOOLEAN, owner : Server \cup {Nobody},
                      record : {"none", "empty", "written"}, lock : Server \cup {Nobody},
                      files : SUBSET File]]
  /\ proc \in [Proc -> [st : {"free", "live", "gone"}, dir : Dir \cup {Nobody},
                        brief : Brief \cup {Nobody}]]
  /\ brief \in [Dir -> [Brief -> {"queued", "starting", "running"} \cup Over]]
  /\ sv \in [Server -> ServerState]
  /\ named \in SUBSET Dir

At(s) == sv[s].dir

Sweeping(s) ==
  sv[s].pc = "stopMarked" \/ (sv[s].pc \in {"list", "scan", "remove"} /\ sv[s].to = "sweep")

Calling(s) ==
  \/ sv[s].pc \in {"made", "tagged", "copying", "running", "tidy", "interrupted", "stopping", "raise"}
  \/ sv[s].pc \in {"list", "scan", "remove"} /\ sv[s].to # "sweep"

\* A run works on its own directory; a sweep on one whose owner is gone, and
\* it holds the lock.
Place(s) ==
  /\ Calling(s) => At(s) \in Dir /\ dir[At(s)].owner = s
  /\ sv[s].pc \in {"return", "reply", "flushed"} /\ At(s) # Nobody => dir[At(s)].owner = s
  /\ sv[s].pc = "opened" => At(s) \in Dir /\ dir[At(s)].owner # Nobody
  /\ Sweeping(s) => /\ At(s) \in Dir /\ dir[At(s)].owner # Nobody
                    /\ Dead(dir[At(s)].owner) /\ dir[At(s)].lock = s

Purpose(s) ==
  /\ sv[s].pc \in {"off", "sweep", "opened", "stopMarked", "idle"} => sv[s].to = "sweep"
  /\ sv[s].pc = "tidy" => sv[s].to = "finish"
  /\ sv[s].pc \in {"stopping", "raise"} => sv[s].to = "cleanup"

\* The record is there before the first file, and a reply before it goes.
Tagged(s) ==
  /\ sv[s].pc \in {"made", "tagged"} => dir[At(s)].files = {}
  /\ (sv[s].pc \in {"copying", "running", "tidy"}
       \/ (sv[s].pc \in {"list", "scan"} /\ sv[s].to = "finish")) => dir[At(s)].record = "written"
  /\ sv[s].pc = "flushed" /\ At(s) # Nobody /\ ~sv[s].busy => At(s) \in named

\* No future is left where a directory is scanned or removed.
Settled(s) ==
  /\ sv[s].pc \in {"made", "tagged", "copying", "list", "scan", "tidy", "remove"} => Done(At(s))
  /\ sv[s].pc \in {"made", "tagged", "copying"} => \A p \in Proc : proc[p].dir # At(s)

\* What a cleanup that is over has left.
Cleaned(s) ==
  (sv[s].pc = "raise" \/ (sv[s].pc \in {"exiting", "ended"} /\ sv[s].how = "told" /\ sv[s].to = "cleanup")) =>
    /\ At(s) \in Dir /\ dir[At(s)].owner # Nobody
    /\ sv[s].gaveUp \/ sv[s].busy \/ ~dir[At(s)].there

ServerInv(s) == Place(s) /\ Purpose(s) /\ Tagged(s) /\ Settled(s) /\ Cleaned(s)

\* A directory nobody made, one whose owner is gone, and what is on disk.
DirInv(d) ==
  /\ dir[d].owner = Nobody => /\ dir[d].record = "none" /\ dir[d].files = {} /\ Done(d)
                              /\ \A p \in Proc : proc[p].dir # d
  /\ dir[d].owner # Nobody /\ Dead(dir[d].owner) => Done(d)
  /\ dir[d].files # {} => dir[d].record = "written" \/ d \in named

\* A worker whose server is up is the one that runs its brief.
Supervised(p) ==
  Live(p) /\ proc[p].brief # Nobody =>
    /\ proc[p].dir \in Dir
    /\ ~Dead(dir[proc[p].dir].owner) =>
         /\ brief[proc[p].dir][proc[p].brief] = "running"
         /\ \A q \in Proc : Live(q) /\ proc[q].dir = proc[p].dir /\ proc[q].brief = proc[p].brief => q = p

IInv ==
  /\ Types
  /\ \A s \in Server : ServerInv(s)
  /\ \A d \in Dir : DirInv(d)
  /\ \A p \in Proc : Supervised(p)

\* A scan that has not found anything has not yet read what there is to find.
Scanned(s) ==
  /\ sv[s].pc = "scan" => sv[s].busy \/ Marked(At(s)) \subseteq sv[s].list
  /\ sv[s].pc \in {"remove", "tidy"} => Marked(At(s)) = {}

ScanInv == \A s \in Server : Scanned(s)

(***************************************************************************)
(* What a step of one server leaves alone                                  *)
(***************************************************************************)
Effect(s) ==
  /\ \A t \in Server : t # s => sv'[t] = sv[t]
  /\ Dead(s) => sv'[s].pc = "ended"
  /\ \A d \in Dir :
       /\ dir[d].owner # Nobody => dir'[d].owner = dir[d].owner /\ (dir'[d].there => dir[d].there)
       /\ dir'[d].owner \in {dir[d].owner, s}
       /\ dir[d].lock # s /\ dir[d].lock # Nobody /\ Dead(dir[d].owner) => dir'[d].lock = dir[d].lock
       /\ ~Using(s, d) => dir'[d].files = dir[d].files /\ dir'[d].record = dir[d].record
       /\ Done(d) /\ ~(Using(s, d) /\ dir[d].owner = s) => Done(d)'
       /\ sv'[s].pc = "ended" /\ dir'[d].owner = s => Done(d)'
       /\ Done(d) => \A p \in Proc : proc'[p].dir = d => proc[p].dir = d
  /\ named \subseteq named'

\* What is on disk is accounted for, and every worker is supervised.
OnDisk == \A d \in Dir : dir[d].files # {} => (dir[d].record = "written" \/ d \in named)

\* A server that works on a directory owns it, or has the lock of a dead
\* owner's; so no two work on the same one.
LEMMA UserOwns ==
  ASSUME IInv, NEW s \in Server, NEW d \in Dir, Using(s, d)
  PROVE  /\ dir[d].owner # Nobody /\ ~Dead(s)
         /\ dir[d].owner = s \/ (Dead(dir[d].owner) /\ dir[d].lock = s)
<1>1. d # Nobody /\ s # Nobody
  BY CopiesAssumption
<1>2. sv[s] \in ServerState
  BY DEF IInv, Types
<1>3. Place(s) /\ Purpose(s)
  BY DEF IInv, ServerInv
<1> QED
  BY <1>1, <1>2, <1>3 DEF Using, Place, Purpose, Calling, Sweeping, At, Dead, ServerState

LEMMA OneUserHolds == IInv => OneUser
<1> SUFFICES ASSUME IInv, NEW s \in Server, NEW t \in Server, NEW d \in Dir, Using(s, d)
             PROVE  (Using(t, d) => s = t) /\ (s = dir[d].owner \/ Dead(dir[d].owner))
  BY DEF OneUser
<1>1. s # Nobody /\ t # Nobody
  BY CopiesAssumption
<1> QED
  BY <1>1, UserOwns

\* What a server keeps of its part of the invariant while another one steps.
LEMMA OtherServer ==
  ASSUME IInv, NEW s \in Server, Effect(s), NEW t \in Server, t # s
  PROVE  ServerInv(t)'
<1>1. /\ sv'[t] = sv[t] /\ sv[t] \in ServerState /\ ServerInv(t)
      /\ t # Nobody /\ s # Nobody /\ Nobody \notin Dir
  BY CopiesAssumption DEF Effect, IInv, Types
<1>2. \A x : Dead(x) /\ x \in Server => Dead(x)'
  BY DEF Effect, Dead
<1>3. ASSUME NEW d \in Dir, d = At(t), Using(t, d)
      PROVE  /\ dir'[d].owner = dir[d].owner /\ dir[d].owner # Nobody
             /\ dir'[d].files = dir[d].files /\ dir'[d].record = dir[d].record
             /\ Done(d) => Done(d)'
             /\ Done(d) => \A p \in Proc : proc'[p].dir = d => proc[p].dir = d
  <2>1. ~Using(s, d)
    BY <1>3, OneUserHolds DEF OneUser
  <2> QED
    BY <2>1, <1>3, UserOwns DEF Effect
<1>4. At(t)' = At(t)
  BY <1>1 DEF At
<1>5. (Calling(t)' <=> Calling(t)) /\ (Sweeping(t)' <=> Sweeping(t))
  BY <1>1 DEF Calling, Sweeping
<1>6. dir \in [Dir -> [there : BOOLEAN, owner : Server \cup {Nobody},
                      record : {"none", "empty", "written"}, lock : Server \cup {Nobody},
                      files : SUBSET File]]
  BY DEF IInv, Types
<1>7. ASSUME At(t) \in Dir, dir[At(t)].owner # Nobody
      PROVE  /\ dir'[At(t)].owner = dir[At(t)].owner
             /\ dir'[At(t)].there => dir[At(t)].there
             /\ Dead(dir[At(t)].owner) => sv'[dir[At(t)].owner].pc = "ended"
             /\ dir[At(t)].lock = t /\ Dead(dir[At(t)].owner) => dir'[At(t)].lock = t
  <2>1. dir[At(t)].owner \in Server
    BY <1>7, <1>6
  <2> QED
    BY <2>1, <1>7, <1>2, <1>1 DEF Effect, Dead
<1>8. Place(t)'
  <2>1. Calling(t) => At(t) \in Dir /\ dir'[At(t)].owner = t
    BY <1>1, <1>7 DEF ServerInv, Place
  <2>2. sv[t].pc \in {"return", "reply", "flushed"} /\ At(t) # Nobody => dir'[At(t)].owner = t
    <3>1. At(t) # Nobody => At(t) \in Dir
      BY <1>1 DEF ServerState, At
    <3> QED
      BY <3>1, <1>1, <1>7 DEF ServerInv, Place
  <2>3. sv[t].pc = "opened" => At(t) \in Dir /\ dir'[At(t)].owner # Nobody
    BY <1>1, <1>7 DEF ServerInv, Place
  <2>4. Sweeping(t) => /\ At(t) \in Dir /\ dir'[At(t)].owner # Nobody
                       /\ sv'[dir'[At(t)].owner].pc = "ended" /\ dir'[At(t)].lock = t
    BY <1>1, <1>7 DEF ServerInv, Place
  <2> QED
    BY <1>1, <1>4, <1>5, <2>1, <2>2, <2>3, <2>4 DEF Place, Dead
<1>9. Purpose(t)'
  BY <1>1 DEF ServerInv, Purpose
<1>10. Tagged(t)'
  <2>1. sv[t].pc \in {"made", "tagged", "copying", "running", "tidy", "list", "scan"} => At(t) \in Dir /\ Using(t, At(t))
    BY <1>1 DEF ServerInv, Place, Calling, Sweeping, Using, At, ServerState
  <2>2. named \subseteq named'
    BY DEF Effect
  <2> QED
    BY <1>1, <1>3, <1>4, <2>1, <2>2 DEF ServerInv, Tagged
<1>11. Settled(t)'
  <2>1. sv[t].pc \in {"made", "tagged", "copying", "list", "scan", "tidy", "remove"} => At(t) \in Dir /\ Using(t, At(t))
    BY <1>1 DEF ServerInv, Place, Calling, Sweeping, Using, At, ServerState
  <2>2. Done(At(t))' <=> (\A b \in Brief : brief'[At(t)][b] \in Over)
    BY <1>4 DEF Done
  <2>3. ASSUME sv[t].pc \in {"made", "tagged", "copying", "list", "scan", "tidy", "remove"}
        PROVE  Done(At(t))'
    <3> DEFINE d == At(t)
    <3>1. d \in Dir /\ Using(t, d) /\ Done(d)
      BY <2>1, <2>3, <1>1 DEF ServerInv, Settled
    <3>2. \A b \in Brief : brief'[d][b] \in Over
      BY <3>1, <1>3 DEF Done
    <3> QED
      BY <2>2, <3>2
  <2>4. ASSUME sv[t].pc \in {"made", "tagged", "copying"}
        PROVE  \A p \in Proc : proc'[p].dir # At(t)
    BY <2>1, <2>4, <1>1, <1>3 DEF ServerInv, Settled
  <2> QED
    BY <1>1, <1>4, <2>3, <2>4 DEF Settled
<1>12. Cleaned(t)'
  BY <1>1, <1>4, <1>7 DEF ServerInv, Cleaned
<1> QED
  BY <1>8, <1>9, <1>10, <1>11, <1>12 DEF ServerInv

\* So a step of a server keeps the invariant if it keeps that server's part
\* of it, what is on disk accounted for and the workers supervised.
LEMMA StepOfServer ==
  ASSUME IInv, NEW s \in Server, Effect(s), Types', ServerInv(s)', OnDisk',
         \A p \in Proc : Supervised(p)'
  PROVE  IInv'
<1>1. ASSUME NEW t \in Server PROVE ServerInv(t)'
  BY OtherServer
<1>2. ASSUME NEW d \in Dir PROVE DirInv(d)'
  <2>1. dir[d].owner \in Server \cup {Nobody} /\ s # Nobody /\ DirInv(d)
    BY CopiesAssumption DEF IInv, Types
  <2>2. dir'[d].owner = Nobody => /\ dir'[d].record = "none" /\ dir'[d].files = {} /\ Done(d)'
                                  /\ \A p \in Proc : proc'[p].dir # d
    <3> SUFFICES ASSUME dir'[d].owner = Nobody
                 PROVE  /\ dir'[d].record = "none" /\ dir'[d].files = {} /\ Done(d)'
                        /\ \A p \in Proc : proc'[p].dir # d
      OBVIOUS
    <3>1. dir[d].owner = Nobody
      BY <2>1 DEF Effect
    <3>2. ~Using(s, d)
      BY <3>1, UserOwns
    <3> QED
      BY <2>1, <3>1, <3>2 DEF Effect, DirInv
  <2>3. dir'[d].owner # Nobody /\ sv'[dir'[d].owner].pc = "ended" => Done(d)'
    <3>1. CASE dir'[d].owner = s
      BY <3>1 DEF Effect
    <3>2. CASE dir'[d].owner # s /\ dir'[d].owner # Nobody
      <4>1. dir'[d].owner = dir[d].owner /\ dir[d].owner \in Server
        BY <3>2, <2>1 DEF Effect
      <4>2. sv'[dir[d].owner] = sv[dir[d].owner]
        BY <4>1, <3>2 DEF Effect
      <4> QED
        BY <2>1, <4>1, <4>2, <3>2 DEF Effect, DirInv, Dead
    <3> QED
      BY <3>1, <3>2
  <2> QED
    BY <2>2, <2>3 DEF DirInv, OnDisk, Dead
<1> QED
  BY <1>1, <1>2 DEF IInv

(***************************************************************************)
(* The steps that change a server's own state only, its locks at most      *)
(***************************************************************************)
Quiet(s) ==
  /\ Types'
  /\ \A t \in Server : t # s => sv'[t] = sv[t]
  /\ \A d \in Dir : /\ dir'[d].owner = dir[d].owner /\ dir'[d].there = dir[d].there
                    /\ dir'[d].files = dir[d].files /\ dir'[d].record = dir[d].record
                    /\ dir[d].lock # s => dir'[d].lock = dir[d].lock
  /\ proc' = proc /\ brief' = brief /\ named' = named

\* A step that gives the server a new state x, and frees its locks or not,
\* is such a step.
LEMMA LocalFacts ==
  ASSUME IInv, NEW s \in Server, NEW x \in ServerState, sv' = [sv EXCEPT ![s] = x],
         dir' \in {dir, Unlocked(s)}, proc' = proc, brief' = brief, named' = named
  PROVE  Quiet(s) /\ sv'[s] = x
<1>1. s # Nobody /\ Types
  BY CopiesAssumption DEF IInv
<1>2. /\ \A d \in Dir : /\ dir'[d].owner = dir[d].owner /\ dir'[d].there = dir[d].there
                        /\ dir'[d].files = dir[d].files /\ dir'[d].record = dir[d].record
                        /\ dir[d].lock # s => dir'[d].lock = dir[d].lock
      /\ dir' \in [Dir -> [there : BOOLEAN, owner : Server \cup {Nobody},
                          record : {"none", "empty", "written"}, lock : Server \cup {Nobody},
                          files : SUBSET File]]
  <2>1. CASE dir' = dir
    BY <2>1, <1>1 DEF Types
  <2>2. CASE dir' = Unlocked(s)
    <3>1. \A d \in Dir : dir'[d] = IF dir[d].lock = s THEN [dir[d] EXCEPT !.lock = Nobody] ELSE dir[d]
      BY <2>2 DEF Unlocked
    <3>2. dir' = [d \in Dir |-> dir'[d]]
      BY <2>2 DEF Unlocked
    <3>3. \A d \in Dir : dir[d] \in [there : BOOLEAN, owner : Server \cup {Nobody},
                          record : {"none", "empty", "written"}, lock : Server \cup {Nobody},
                          files : SUBSET File]
      BY <1>1 DEF Types
    <3>4. \A d \in Dir : dir'[d] \in [there : BOOLEAN, owner : Server \cup {Nobody},
                          record : {"none", "empty", "written"}, lock : Server \cup {Nobody},
                          files : SUBSET File]
      <4> SUFFICES ASSUME NEW d \in Dir
                   PROVE  dir'[d] \in [there : BOOLEAN, owner : Server \cup {Nobody},
                                       record : {"none", "empty", "written"}, lock : Server \cup {Nobody},
                                       files : SUBSET File]
        OBVIOUS
      <4>1. dir[d] \in [there : BOOLEAN, owner : Server \cup {Nobody},
                        record : {"none", "empty", "written"}, lock : Server \cup {Nobody},
                        files : SUBSET File]
        BY ONLY <3>3, d \in Dir
      <4>2. CASE dir[d].lock = s
        <5>1. dir'[d] = [dir[d] EXCEPT !.lock = Nobody]
          BY ONLY <3>1, <4>2, d \in Dir
        <5> QED
          BY ONLY <4>1, <5>1
      <4>3. CASE dir[d].lock # s
        BY ONLY <3>1, <4>1, <4>3, d \in Dir
      <4> QED
        BY <4>2, <4>3
    <3> QED
      BY <3>1, <3>2, <3>3, <3>4
  <2> QED
    BY <2>1, <2>2
<1>3. sv' \in [Server -> ServerState] /\ sv'[s] = x /\ \A t \in Server : t # s => sv'[t] = sv[t]
  BY <1>1 DEF Types
<1> QED
  BY <1>1, <1>2, <1>3 DEF Types, Quiet

LEMMA DoneSame == brief' = brief => \A d \in Dir : Done(d)' <=> Done(d)
BY DEF Done

LEMMA LocalStep ==
  ASSUME IInv, NEW s \in Server, Quiet(s), ~Dead(s), ServerInv(s)',
         sv'[s].pc = "ended" => \A d \in Owned(s) : Done(d)
  PROVE  IInv'
<1>1. Types /\ Types' /\ s # Nobody
  BY CopiesAssumption DEF IInv, Quiet
<1>2. Effect(s)
  <2>1. \A d \in Dir : Done(d)' <=> Done(d)
    BY DoneSame DEF Quiet
  <2> QED
    BY <2>1 DEF Effect, Owned, Quiet
<1>3. OnDisk'
  <2>1. \A d \in Dir : dir[d].files # {} => (dir[d].record = "written" \/ d \in named)
    BY DEF IInv, DirInv
  <2> QED
    BY <2>1 DEF OnDisk, Quiet
<1>4. ASSUME NEW p \in Proc PROVE Supervised(p)'
  <2>1. Supervised(p)
    BY DEF IInv
  <2>2. ASSUME Live(p), proc[p].brief # Nobody
        PROVE  dir[proc[p].dir].owner \in Server
    <3>1. proc[p].dir \in Dir
      BY <2>1, <2>2 DEF Supervised
    <3>2. DirInv(proc[p].dir) /\ dir[proc[p].dir].owner \in Server \cup {Nobody}
      BY <3>1, <1>1 DEF IInv, Types
    <3> QED
      BY <3>2 DEF DirInv
  <2> QED
    BY <2>1, <2>2 DEF Supervised, Live, Dead, Quiet
<1> QED
  BY <1>1, <1>2, <1>3, <1>4, StepOfServer

\* A server that has ended stays so.
LEMMA OwnerStaysDead ==
  ASSUME IInv, NEW s \in Server, Quiet(s), ~Dead(s)
  PROVE  \A d \in Dir : dir[d].owner # Nobody /\ sv[dir[d].owner].pc = "ended" => sv'[dir'[d].owner].pc = "ended"
<1> SUFFICES ASSUME NEW d \in Dir, dir[d].owner # Nobody, sv[dir[d].owner].pc = "ended"
             PROVE  sv'[dir'[d].owner].pc = "ended"
  OBVIOUS
<1>1. dir'[d].owner = dir[d].owner
  BY DEF Quiet
<1>2. dir[d].owner \in Server
  BY DEF IInv, Types
<1>3. dir[d].owner # s
  BY DEF Dead
<1> QED
  BY <1>1, <1>2, <1>3 DEF IInv, Types, Quiet

LEMMA StartKeeps == ASSUME IInv, NEW s \in Server, Start(s) PROVE IInv'
<1> DEFINE x == [sv[s] EXCEPT !.pc = "sweep", !.todo = {d \in Dir : dir[d].there}]
<1>1. sv[s] \in ServerState /\ ServerInv(s) /\ s # Nobody /\ Nobody \notin Dir
      /\ sv[s].dir \in Dir \cup {Nobody}
  BY CopiesAssumption DEF IInv, Types, ServerState
<1>2. x \in ServerState /\ sv' = [sv EXCEPT ![s] = x] /\ ~Dead(s)
  BY <1>1 DEF Start, ServerState, IInv, Types, Dead
<1>3. dir' \in {dir, Unlocked(s)} /\ proc' = proc /\ brief' = brief /\ named' = named
  BY DEF Start
<1>4. Quiet(s) /\ sv'[s] = x
  BY <1>2, <1>3, LocalFacts
<1>5. /\ sv'[s].pc = "sweep" /\ sv'[s].dir = sv[s].dir /\ sv'[s].busy = sv[s].busy
      /\ sv'[s].to = sv[s].to /\ sv'[s].gaveUp = sv[s].gaveUp /\ sv'[s].how = sv[s].how
  BY <1>1, <1>4 DEF ServerState
<1> HIDE DEF x
<1>6. Place(s)'
  BY <1>1, <1>2, <1>3, <1>4, <1>5, OwnerStaysDead DEF Quiet, Start, ServerInv, Place, Purpose, Calling, Sweeping, At, Dead
<1>7. Purpose(s)'
  BY <1>1, <1>5 DEF Start, ServerInv, Purpose
<1>8. Tagged(s)'
  BY <1>1, <1>4, <1>5 DEF Quiet, Start, ServerInv, Tagged, Place, Purpose, Calling, At
<1>9. Settled(s)'
  BY <1>1, <1>4, <1>5 DEF Quiet, Start, ServerInv, Settled, Done, At
<1>10. Cleaned(s)'
  BY <1>1, <1>4, <1>5 DEF Quiet, Start, ServerInv, Cleaned, Place, Calling, At
<1> QED
  BY <1>2, <1>4, <1>5, <1>6, <1>7, <1>8, <1>9, <1>10, LocalStep DEF ServerInv, Dead, Start

LEMMA OpenRecordKeeps == ASSUME IInv, NEW s \in Server, OpenRecord(s) PROVE IInv'
<1>0. PICK e \in sv[s].todo :
        sv' = [sv EXCEPT ![s].todo = @ \ {e},
                         ![s].dir = IF dir[e].record = "written" THEN e ELSE Nobody,
                         ![s].pc = IF dir[e].record = "written" THEN "opened" ELSE "sweep"]
  BY DEF OpenRecord
<1>e. e \in Dir /\ (dir[e].owner = Nobody => dir[e].record = "none")
  BY <1>0 DEF IInv, Types, ServerState, DirInv
<1> DEFINE x == [sv[s] EXCEPT !.todo = @ \ {e}, !.dir = IF dir[e].record = "written" THEN e ELSE Nobody, !.pc = IF dir[e].record = "written" THEN "opened" ELSE "sweep"]
<1>1. sv[s] \in ServerState /\ ServerInv(s) /\ s # Nobody /\ Nobody \notin Dir
      /\ sv[s].dir \in Dir \cup {Nobody}
  BY CopiesAssumption DEF IInv, Types, ServerState
<1>2. x \in ServerState /\ sv' = [sv EXCEPT ![s] = x] /\ ~Dead(s)
  <2>1. x \in ServerState
    BY ONLY <1>1, <1>e DEF ServerState
  <2>2. sv' = [sv EXCEPT ![s] = x]
    BY ONLY <1>0, Zenon
  <2>3. ~Dead(s)
    BY DEF OpenRecord, Dead
  <2> QED
    BY <2>1, <2>2, <2>3
<1>3. dir' \in {dir, Unlocked(s)} /\ proc' = proc /\ brief' = brief /\ named' = named
  BY DEF OpenRecord
<1>4. Quiet(s) /\ sv'[s] = x
  BY <1>2, <1>3, LocalFacts
<1>5. /\ sv'[s].pc = (IF dir[e].record = "written" THEN "opened" ELSE "sweep") /\ sv'[s].dir = (IF dir[e].record = "written" THEN e ELSE Nobody) /\ sv'[s].busy = sv[s].busy
      /\ sv'[s].to = sv[s].to /\ sv'[s].gaveUp = sv[s].gaveUp /\ sv'[s].how = sv[s].how
  BY <1>1, <1>4 DEF ServerState
<1> HIDE DEF x
<1>6. Place(s)'
  BY <1>1, <1>2, <1>3, <1>4, <1>5, <1>0, <1>e, OwnerStaysDead DEF Quiet, OpenRecord, ServerInv, Place, Purpose, Calling, Sweeping, At, Dead
<1>7. Purpose(s)'
  BY <1>1, <1>5, <1>0, <1>e DEF OpenRecord, ServerInv, Purpose
<1>8. Tagged(s)'
  BY <1>1, <1>4, <1>5, <1>0, <1>e DEF Quiet, OpenRecord, ServerInv, Tagged, Place, Purpose, Calling, At
<1>9. Settled(s)'
  BY <1>1, <1>4, <1>5, <1>0, <1>e DEF Quiet, OpenRecord, ServerInv, Settled, Done, At
<1>10. Cleaned(s)'
  BY <1>1, <1>4, <1>5, <1>0, <1>e DEF Quiet, OpenRecord, ServerInv, Cleaned, Place, Calling, At
<1> QED
  BY <1>2, <1>4, <1>5, <1>6, <1>7, <1>8, <1>9, <1>10, <1>0, <1>e, LocalStep DEF ServerInv, Dead, OpenRecord

LEMMA SweepDoneKeeps == ASSUME IInv, NEW s \in Server, SweepDone(s) PROVE IInv'
<1> DEFINE x == [sv[s] EXCEPT !.pc = "idle", !.dir = Nobody, !.to = "sweep", !.busy = FALSE, !.gaveUp = FALSE]
<1>1. sv[s] \in ServerState /\ ServerInv(s) /\ s # Nobody /\ Nobody \notin Dir
      /\ sv[s].dir \in Dir \cup {Nobody}
  BY CopiesAssumption DEF IInv, Types, ServerState
<1>2. x \in ServerState /\ sv' = [sv EXCEPT ![s] = x] /\ ~Dead(s)
  BY <1>1 DEF SweepDone, ServerState, IInv, Types, Dead, Idle
<1>3. dir' \in {dir, Unlocked(s)} /\ proc' = proc /\ brief' = brief /\ named' = named
  BY DEF SweepDone
<1>4. Quiet(s) /\ sv'[s] = x
  BY <1>2, <1>3, LocalFacts
<1>5. /\ sv'[s].pc = "idle" /\ sv'[s].dir = Nobody /\ sv'[s].busy = FALSE
      /\ sv'[s].to = "sweep" /\ sv'[s].gaveUp = FALSE /\ sv'[s].how = sv[s].how
  BY <1>1, <1>4 DEF ServerState
<1> HIDE DEF x
<1>6. Place(s)'
  BY <1>1, <1>2, <1>3, <1>4, <1>5, OwnerStaysDead DEF Quiet, SweepDone, ServerInv, Place, Purpose, Calling, Sweeping, At, Dead, Idle
<1>7. Purpose(s)'
  BY <1>1, <1>5 DEF SweepDone, ServerInv, Purpose, Idle
<1>8. Tagged(s)'
  BY <1>1, <1>4, <1>5 DEF Quiet, SweepDone, ServerInv, Tagged, Place, Purpose, Calling, At, Idle
<1>9. Settled(s)'
  BY <1>1, <1>4, <1>5 DEF Quiet, SweepDone, ServerInv, Settled, Done, At, Idle
<1>10. Cleaned(s)'
  BY <1>1, <1>4, <1>5 DEF Quiet, SweepDone, ServerInv, Cleaned, Place, Calling, At, Idle
<1> QED
  BY <1>2, <1>4, <1>5, <1>6, <1>7, <1>8, <1>9, <1>10, LocalStep DEF ServerInv, Dead, SweepDone, Idle

LEMMA ListProcessesKeeps == ASSUME IInv, NEW s \in Server, ListProcesses(s) PROVE IInv'
<1> DEFINE x == [sv[s] EXCEPT !.pc = "scan", !.list = {p \in Proc : Live(p)}, !.busy = ~dir[sv[s].dir].there]
<1>1. sv[s] \in ServerState /\ ServerInv(s) /\ s # Nobody /\ Nobody \notin Dir
      /\ sv[s].dir \in Dir \cup {Nobody}
  BY CopiesAssumption DEF IInv, Types, ServerState
<1>2. x \in ServerState /\ sv' = [sv EXCEPT ![s] = x] /\ ~Dead(s)
  BY <1>1 DEF ListProcesses, ServerState, IInv, Types, Dead
<1>3. dir' \in {dir, Unlocked(s)} /\ proc' = proc /\ brief' = brief /\ named' = named
  BY DEF ListProcesses
<1>4. Quiet(s) /\ sv'[s] = x
  BY <1>2, <1>3, LocalFacts
<1>5. /\ sv'[s].pc = "scan" /\ sv'[s].dir = sv[s].dir /\ sv'[s].busy = ~dir[sv[s].dir].there
      /\ sv'[s].to = sv[s].to /\ sv'[s].gaveUp = sv[s].gaveUp /\ sv'[s].how = sv[s].how
  BY <1>1, <1>4 DEF ServerState
<1> HIDE DEF x
<1>6. Place(s)'
  BY <1>1, <1>2, <1>3, <1>4, <1>5, OwnerStaysDead, ZenonT(30) DEF Quiet, ListProcesses, ServerInv, Place, Purpose, Calling, Sweeping, At, Dead
<1>7. Purpose(s)'
  BY <1>1, <1>5 DEF ListProcesses, ServerInv, Purpose
<1>8. Tagged(s)'
  BY <1>1, <1>4, <1>5 DEF Quiet, ListProcesses, ServerInv, Tagged, Place, Purpose, Calling, At
<1>9. Settled(s)'
  BY <1>1, <1>4, <1>5 DEF Quiet, ListProcesses, ServerInv, Settled, Done, At
<1>10. Cleaned(s)'
  BY <1>1, <1>4, <1>5 DEF Quiet, ListProcesses, ServerInv, Cleaned, Place, Calling, At
<1> QED
  BY <1>2, <1>4, <1>5, <1>6, <1>7, <1>8, <1>9, <1>10, LocalStep DEF ServerInv, Dead, ListProcesses

LEMMA ReadProcessKeeps == ASSUME IInv, NEW s \in Server, ReadProcess(s) PROVE IInv'
<1>0. PICK q \in sv[s].list :
        sv' = [sv EXCEPT ![s].list = @ \ {q}, ![s].busy = @ \/ q \in Marked(sv[s].dir)]
  BY DEF ReadProcess
<1> DEFINE x == [sv[s] EXCEPT !.list = @ \ {q}, !.busy = (@ \/ q \in Marked(sv[s].dir))]
<1>1. sv[s] \in ServerState /\ ServerInv(s) /\ s # Nobody /\ Nobody \notin Dir
      /\ sv[s].dir \in Dir \cup {Nobody}
  BY CopiesAssumption DEF IInv, Types, ServerState
<1>2. x \in ServerState /\ sv' = [sv EXCEPT ![s] = x] /\ ~Dead(s)
  BY <1>1, <1>0 DEF ReadProcess, ServerState, IInv, Types, Dead
<1>3. dir' \in {dir, Unlocked(s)} /\ proc' = proc /\ brief' = brief /\ named' = named
  BY DEF ReadProcess
<1>4. Quiet(s) /\ sv'[s] = x
  BY <1>2, <1>3, LocalFacts
<1>5. /\ sv'[s].pc = sv[s].pc /\ sv'[s].dir = sv[s].dir /\ sv'[s].busy = ((sv[s].busy \/ q \in Marked(sv[s].dir)))
      /\ sv'[s].to = sv[s].to /\ sv'[s].gaveUp = sv[s].gaveUp /\ sv'[s].how = sv[s].how
  BY <1>1, <1>4 DEF ServerState
<1> HIDE DEF x
<1>6. Place(s)'
  BY <1>1, <1>2, <1>3, <1>4, <1>5, <1>0, OwnerStaysDead, ZenonT(30) DEF Quiet, ReadProcess, ServerInv, Place, Purpose, Calling, Sweeping, At, Dead
<1>7. Purpose(s)'
  BY <1>1, <1>5, <1>0 DEF ReadProcess, ServerInv, Purpose
<1>8. Tagged(s)'
  BY <1>1, <1>4, <1>5, <1>0 DEF Quiet, ReadProcess, ServerInv, Tagged, Place, Purpose, Calling, At
<1>9. Settled(s)'
  BY <1>1, <1>4, <1>5, <1>0 DEF Quiet, ReadProcess, ServerInv, Settled, Done, At
<1>10. Cleaned(s)'
  BY <1>1, <1>4, <1>5, <1>0 DEF Quiet, ReadProcess, ServerInv, Cleaned, Place, Calling, At
<1> QED
  BY <1>2, <1>4, <1>5, <1>6, <1>7, <1>8, <1>9, <1>10, <1>0, LocalStep DEF ServerInv, Dead, ReadProcess

LEMMA CopyFailsKeeps == ASSUME IInv, NEW s \in Server, CopyFails(s) PROVE IInv'
<1> DEFINE x == [sv[s] EXCEPT !.pc = "remove", !.to = "finish"]
<1>1. sv[s] \in ServerState /\ ServerInv(s) /\ s # Nobody /\ Nobody \notin Dir
      /\ sv[s].dir \in Dir \cup {Nobody}
  BY CopiesAssumption DEF IInv, Types, ServerState
<1>2. x \in ServerState /\ sv' = [sv EXCEPT ![s] = x] /\ ~Dead(s)
  BY <1>1 DEF CopyFails, ServerState, IInv, Types, Dead
<1>3. dir' \in {dir, Unlocked(s)} /\ proc' = proc /\ brief' = brief /\ named' = named
  BY DEF CopyFails
<1>4. Quiet(s) /\ sv'[s] = x
  BY <1>2, <1>3, LocalFacts
<1>5. /\ sv'[s].pc = "remove" /\ sv'[s].dir = sv[s].dir /\ sv'[s].busy = sv[s].busy
      /\ sv'[s].to = "finish" /\ sv'[s].gaveUp = sv[s].gaveUp /\ sv'[s].how = sv[s].how
  BY <1>1, <1>4 DEF ServerState
<1> HIDE DEF x
<1>6. Place(s)'
  BY <1>1, <1>2, <1>3, <1>4, <1>5, OwnerStaysDead DEF Quiet, CopyFails, ServerInv, Place, Purpose, Calling, Sweeping, At, Dead
<1>7. Purpose(s)'
  BY <1>1, <1>5 DEF CopyFails, ServerInv, Purpose
<1>8. Tagged(s)'
  BY <1>1, <1>4, <1>5 DEF Quiet, CopyFails, ServerInv, Tagged, Place, Purpose, Calling, At
<1>9. Settled(s)'
  BY <1>1, <1>4, <1>5 DEF Quiet, CopyFails, ServerInv, Settled, Done, At
<1>10. Cleaned(s)'
  BY <1>1, <1>4, <1>5 DEF Quiet, CopyFails, ServerInv, Cleaned, Place, Calling, At
<1> QED
  BY <1>2, <1>4, <1>5, <1>6, <1>7, <1>8, <1>9, <1>10, LocalStep DEF ServerInv, Dead, CopyFails

LEMMA CollectKeeps == ASSUME IInv, NEW s \in Server, Collect(s) PROVE IInv'
<1> DEFINE x == [sv[s] EXCEPT !.pc = "list", !.to = "finish"]
<1>1. sv[s] \in ServerState /\ ServerInv(s) /\ s # Nobody /\ Nobody \notin Dir
      /\ sv[s].dir \in Dir \cup {Nobody}
  BY CopiesAssumption DEF IInv, Types, ServerState
<1>2. x \in ServerState /\ sv' = [sv EXCEPT ![s] = x] /\ ~Dead(s)
  BY <1>1 DEF Collect, ServerState, IInv, Types, Dead
<1>3. dir' \in {dir, Unlocked(s)} /\ proc' = proc /\ brief' = brief /\ named' = named
  BY DEF Collect
<1>4. Quiet(s) /\ sv'[s] = x
  BY <1>2, <1>3, LocalFacts
<1>5. /\ sv'[s].pc = "list" /\ sv'[s].dir = sv[s].dir /\ sv'[s].busy = sv[s].busy
      /\ sv'[s].to = "finish" /\ sv'[s].gaveUp = sv[s].gaveUp /\ sv'[s].how = sv[s].how
  BY <1>1, <1>4 DEF ServerState
<1> HIDE DEF x
<1>6. Place(s)'
  BY <1>1, <1>2, <1>3, <1>4, <1>5, OwnerStaysDead DEF Quiet, Collect, ServerInv, Place, Purpose, Calling, Sweeping, At, Dead
<1>7. Purpose(s)'
  BY <1>1, <1>5 DEF Collect, ServerInv, Purpose
<1>8. Tagged(s)'
  BY <1>1, <1>4, <1>5 DEF Quiet, Collect, ServerInv, Tagged, Place, Purpose, Calling, At
<1>9. Settled(s)'
  BY <1>1, <1>4, <1>5 DEF Quiet, Collect, ServerInv, Settled, Done, At
<1>10. Cleaned(s)'
  BY <1>1, <1>4, <1>5 DEF Quiet, Collect, ServerInv, Cleaned, Place, Calling, At
<1> QED
  BY <1>2, <1>4, <1>5, <1>6, <1>7, <1>8, <1>9, <1>10, LocalStep DEF ServerInv, Dead, Collect

LEMMA ReturnKeeps == ASSUME IInv, NEW s \in Server, Return(s) PROVE IInv'
<1> DEFINE x == [sv[s] EXCEPT !.pc = "reply"]
<1>1. sv[s] \in ServerState /\ ServerInv(s) /\ s # Nobody /\ Nobody \notin Dir
      /\ sv[s].dir \in Dir \cup {Nobody}
  BY CopiesAssumption DEF IInv, Types, ServerState
<1>2. x \in ServerState /\ sv' = [sv EXCEPT ![s] = x] /\ ~Dead(s)
  BY <1>1 DEF Return, ServerState, IInv, Types, Dead
<1>3. dir' \in {dir, Unlocked(s)} /\ proc' = proc /\ brief' = brief /\ named' = named
  BY DEF Return
<1>4. Quiet(s) /\ sv'[s] = x
  BY <1>2, <1>3, LocalFacts
<1>5. /\ sv'[s].pc = "reply" /\ sv'[s].dir = sv[s].dir /\ sv'[s].busy = sv[s].busy
      /\ sv'[s].to = sv[s].to /\ sv'[s].gaveUp = sv[s].gaveUp /\ sv'[s].how = sv[s].how
  BY <1>1, <1>4 DEF ServerState
<1> HIDE DEF x
<1>6. Place(s)'
  BY <1>1, <1>2, <1>3, <1>4, <1>5, OwnerStaysDead DEF Quiet, Return, ServerInv, Place, Purpose, Calling, Sweeping, At, Dead
<1>7. Purpose(s)'
  BY <1>1, <1>5 DEF Return, ServerInv, Purpose
<1>8. Tagged(s)'
  BY <1>1, <1>4, <1>5 DEF Quiet, Return, ServerInv, Tagged, Place, Purpose, Calling, At
<1>9. Settled(s)'
  BY <1>1, <1>4, <1>5 DEF Quiet, Return, ServerInv, Settled, Done, At
<1>10. Cleaned(s)'
  BY <1>1, <1>4, <1>5 DEF Quiet, Return, ServerInv, Cleaned, Place, Calling, At
<1> QED
  BY <1>2, <1>4, <1>5, <1>6, <1>7, <1>8, <1>9, <1>10, LocalStep DEF ServerInv, Dead, Return

LEMMA ReplyFailsKeeps == ASSUME IInv, NEW s \in Server, ReplyFails(s) PROVE IInv'
<1> DEFINE x == [sv[s] EXCEPT !.pc = IF \A d \in Owned(s) : Done(d) THEN "ended" ELSE "exiting", !.how = "pipe", !.list = {}, !.todo = {}]
<1>1. sv[s] \in ServerState /\ ServerInv(s) /\ s # Nobody /\ Nobody \notin Dir
      /\ sv[s].dir \in Dir \cup {Nobody}
  BY CopiesAssumption DEF IInv, Types, ServerState
<1>2. x \in ServerState /\ sv' = [sv EXCEPT ![s] = x] /\ ~Dead(s)
  BY <1>1 DEF ReplyFails, ServerState, IInv, Types, Dead, Leaving
<1>3. dir' \in {dir, Unlocked(s)} /\ proc' = proc /\ brief' = brief /\ named' = named
  BY DEF ReplyFails
<1>4. Quiet(s) /\ sv'[s] = x
  BY <1>2, <1>3, LocalFacts
<1>5. /\ sv'[s].pc = (IF \A d \in Owned(s) : Done(d) THEN "ended" ELSE "exiting") /\ sv'[s].dir = sv[s].dir /\ sv'[s].busy = sv[s].busy
      /\ sv'[s].to = sv[s].to /\ sv'[s].gaveUp = sv[s].gaveUp /\ sv'[s].how = "pipe"
  BY <1>1, <1>4 DEF ServerState
<1> HIDE DEF x
<1>6. Place(s)'
  BY <1>1, <1>2, <1>3, <1>4, <1>5, OwnerStaysDead DEF Quiet, ReplyFails, ServerInv, Place, Purpose, Calling, Sweeping, At, Dead, Leaving
<1>7. Purpose(s)'
  BY <1>1, <1>5 DEF ReplyFails, ServerInv, Purpose, Leaving
<1>8. Tagged(s)'
  BY <1>1, <1>4, <1>5 DEF Quiet, ReplyFails, ServerInv, Tagged, Place, Purpose, Calling, At, Leaving
<1>9. Settled(s)'
  BY <1>1, <1>4, <1>5 DEF Quiet, ReplyFails, ServerInv, Settled, Done, At, Leaving
<1>10. Cleaned(s)'
  BY <1>1, <1>4, <1>5 DEF Quiet, ReplyFails, ServerInv, Cleaned, Place, Calling, At, Leaving
<1> QED
  BY <1>2, <1>4, <1>5, <1>6, <1>7, <1>8, <1>9, <1>10, LocalStep DEF ServerInv, Dead, ReplyFails, Leaving

LEMMA StdinClosesKeeps == ASSUME IInv, NEW s \in Server, StdinCloses(s) PROVE IInv'
<1> DEFINE x == [sv[s] EXCEPT !.pc = IF \A d \in Owned(s) : Done(d) THEN "ended" ELSE "exiting", !.how = "eof", !.list = {}, !.todo = {}]
<1>1. sv[s] \in ServerState /\ ServerInv(s) /\ s # Nobody /\ Nobody \notin Dir
      /\ sv[s].dir \in Dir \cup {Nobody}
  BY CopiesAssumption DEF IInv, Types, ServerState
<1>2. x \in ServerState /\ sv' = [sv EXCEPT ![s] = x] /\ ~Dead(s)
  BY <1>1 DEF StdinCloses, ServerState, IInv, Types, Dead, Leaving
<1>3. dir' \in {dir, Unlocked(s)} /\ proc' = proc /\ brief' = brief /\ named' = named
  BY DEF StdinCloses
<1>4. Quiet(s) /\ sv'[s] = x
  BY <1>2, <1>3, LocalFacts
<1>5. /\ sv'[s].pc = (IF \A d \in Owned(s) : Done(d) THEN "ended" ELSE "exiting") /\ sv'[s].dir = sv[s].dir /\ sv'[s].busy = sv[s].busy
      /\ sv'[s].to = sv[s].to /\ sv'[s].gaveUp = sv[s].gaveUp /\ sv'[s].how = "eof"
  BY <1>1, <1>4 DEF ServerState
<1> HIDE DEF x
<1>6. Place(s)'
  BY <1>1, <1>2, <1>3, <1>4, <1>5, OwnerStaysDead DEF Quiet, StdinCloses, ServerInv, Place, Purpose, Calling, Sweeping, At, Dead, Leaving
<1>7. Purpose(s)'
  BY <1>1, <1>5 DEF StdinCloses, ServerInv, Purpose, Leaving
<1>8. Tagged(s)'
  BY <1>1, <1>4, <1>5 DEF Quiet, StdinCloses, ServerInv, Tagged, Place, Purpose, Calling, At, Leaving
<1>9. Settled(s)'
  BY <1>1, <1>4, <1>5 DEF Quiet, StdinCloses, ServerInv, Settled, Done, At, Leaving
<1>10. Cleaned(s)'
  BY <1>1, <1>4, <1>5 DEF Quiet, StdinCloses, ServerInv, Cleaned, Place, Calling, At, Leaving
<1> QED
  BY <1>2, <1>4, <1>5, <1>6, <1>7, <1>8, <1>9, <1>10, LocalStep DEF ServerInv, Dead, StdinCloses, Leaving

LEMMA StopInRunKeeps == ASSUME IInv, NEW s \in Server, StopInRun(s) PROVE IInv'
<1> DEFINE x == [sv[s] EXCEPT !.pc = "interrupted", !.told = TRUE, !.list = {}, !.to = "finish"]
<1>1. sv[s] \in ServerState /\ ServerInv(s) /\ s # Nobody /\ Nobody \notin Dir
      /\ sv[s].dir \in Dir \cup {Nobody}
  BY CopiesAssumption DEF IInv, Types, ServerState
<1>2. x \in ServerState /\ sv' = [sv EXCEPT ![s] = x] /\ ~Dead(s)
  BY <1>1 DEF StopInRun, ServerState, IInv, Types, Dead, Interruptible, InRun
<1>3. dir' \in {dir, Unlocked(s)} /\ proc' = proc /\ brief' = brief /\ named' = named
  BY DEF StopInRun
<1>4. Quiet(s) /\ sv'[s] = x
  BY <1>2, <1>3, LocalFacts
<1>5. /\ sv'[s].pc = "interrupted" /\ sv'[s].dir = sv[s].dir /\ sv'[s].busy = sv[s].busy
      /\ sv'[s].to = "finish" /\ sv'[s].gaveUp = sv[s].gaveUp /\ sv'[s].how = sv[s].how
  BY <1>1, <1>4 DEF ServerState
<1> HIDE DEF x
<1>6. Place(s)'
  BY <1>1, <1>2, <1>3, <1>4, <1>5, OwnerStaysDead DEF Quiet, StopInRun, ServerInv, Place, Purpose, Calling, Sweeping, At, Dead, Interruptible, InRun
<1>7. Purpose(s)'
  BY <1>1, <1>5 DEF StopInRun, ServerInv, Purpose, Interruptible, InRun
<1>8. Tagged(s)'
  BY <1>1, <1>4, <1>5 DEF Quiet, StopInRun, ServerInv, Tagged, Place, Purpose, Calling, At, Interruptible, InRun
<1>9. Settled(s)'
  BY <1>1, <1>4, <1>5 DEF Quiet, StopInRun, ServerInv, Settled, Done, At, Interruptible, InRun
<1>10. Cleaned(s)'
  BY <1>1, <1>4, <1>5 DEF Quiet, StopInRun, ServerInv, Cleaned, Place, Calling, At, Interruptible, InRun
<1> QED
  BY <1>2, <1>4, <1>5, <1>6, <1>7, <1>8, <1>9, <1>10, LocalStep DEF ServerInv, Dead, StopInRun, Interruptible, InRun

LEMMA StopOutsideRunKeeps == ASSUME IInv, NEW s \in Server, StopOutsideRun(s) PROVE IInv'
<1> DEFINE x == [sv[s] EXCEPT !.pc = IF \A d \in Owned(s) : Done(d) THEN "ended" ELSE "exiting", !.how = "told", !.list = {}, !.todo = {}, !.told = TRUE]
<1>1. sv[s] \in ServerState /\ ServerInv(s) /\ s # Nobody /\ Nobody \notin Dir
      /\ sv[s].dir \in Dir \cup {Nobody}
  BY CopiesAssumption DEF IInv, Types, ServerState
<1>2. x \in ServerState /\ sv' = [sv EXCEPT ![s] = x] /\ ~Dead(s)
  BY <1>1 DEF StopOutsideRun, ServerState, IInv, Types, Dead, Leaving, Interruptible, InRun, Running
<1>3. dir' \in {dir, Unlocked(s)} /\ proc' = proc /\ brief' = brief /\ named' = named
  BY DEF StopOutsideRun
<1>4. Quiet(s) /\ sv'[s] = x
  BY <1>2, <1>3, LocalFacts
<1>5. /\ sv'[s].pc = (IF \A d \in Owned(s) : Done(d) THEN "ended" ELSE "exiting") /\ sv'[s].dir = sv[s].dir /\ sv'[s].busy = sv[s].busy
      /\ sv'[s].to = sv[s].to /\ sv'[s].gaveUp = sv[s].gaveUp /\ sv'[s].how = "told"
  BY <1>1, <1>4 DEF ServerState
<1> HIDE DEF x
<1>6. Place(s)'
  BY <1>1, <1>2, <1>3, <1>4, <1>5, OwnerStaysDead DEF Quiet, StopOutsideRun, ServerInv, Place, Purpose, Calling, Sweeping, At, Dead, Leaving, Interruptible, InRun, Running
<1>7. Purpose(s)'
  BY <1>1, <1>5 DEF StopOutsideRun, ServerInv, Purpose, Leaving, Interruptible, InRun, Running
<1>8. Tagged(s)'
  BY <1>1, <1>4, <1>5 DEF Quiet, StopOutsideRun, ServerInv, Tagged, Place, Purpose, Calling, At, Leaving, Interruptible, InRun, Running
<1>9. Settled(s)'
  BY <1>1, <1>4, <1>5 DEF Quiet, StopOutsideRun, ServerInv, Settled, Done, At, Leaving, Interruptible, InRun, Running
<1>10. Cleaned(s)'
  BY <1>1, <1>4, <1>5 DEF Quiet, StopOutsideRun, ServerInv, Cleaned, Place, Calling, At, Leaving, Interruptible, InRun, Running
<1> QED
  BY <1>2, <1>4, <1>5, <1>6, <1>7, <1>8, <1>9, <1>10, LocalStep DEF ServerInv, Dead, StopOutsideRun, Leaving, Interruptible, InRun, Running

LEMMA StopHeldKeeps == ASSUME IInv, NEW s \in Server, StopHeld(s) PROVE IInv'
<1> DEFINE x == [sv[s] EXCEPT !.told = TRUE]
<1>1. sv[s] \in ServerState /\ ServerInv(s) /\ s # Nobody /\ Nobody \notin Dir
      /\ sv[s].dir \in Dir \cup {Nobody}
  BY CopiesAssumption DEF IInv, Types, ServerState
<1>2. x \in ServerState /\ sv' = [sv EXCEPT ![s] = x] /\ ~Dead(s)
  BY <1>1 DEF StopHeld, ServerState, IInv, Types, Dead, Running
<1>3. dir' \in {dir, Unlocked(s)} /\ proc' = proc /\ brief' = brief /\ named' = named
  BY DEF StopHeld
<1>4. Quiet(s) /\ sv'[s] = x
  BY <1>2, <1>3, LocalFacts
<1>5. /\ sv'[s].pc = sv[s].pc /\ sv'[s].dir = sv[s].dir /\ sv'[s].busy = sv[s].busy
      /\ sv'[s].to = sv[s].to /\ sv'[s].gaveUp = sv[s].gaveUp /\ sv'[s].how = sv[s].how
  BY <1>1, <1>4 DEF ServerState
<1> HIDE DEF x
<1>6. Place(s)'
  BY <1>1, <1>2, <1>3, <1>4, <1>5, OwnerStaysDead DEF Quiet, StopHeld, ServerInv, Place, Purpose, Calling, Sweeping, At, Dead, Running
<1>7. Purpose(s)'
  BY <1>1, <1>5 DEF StopHeld, ServerInv, Purpose, Running
<1>8. Tagged(s)'
  BY <1>1, <1>4, <1>5 DEF Quiet, StopHeld, ServerInv, Tagged, Place, Purpose, Calling, At, Running
<1>9. Settled(s)'
  BY <1>1, <1>4, <1>5 DEF Quiet, StopHeld, ServerInv, Settled, Done, At, Running
<1>10. Cleaned(s)'
  BY <1>1, <1>4, <1>5 DEF Quiet, StopHeld, ServerInv, Cleaned, Place, Calling, At, Running
<1> QED
  BY <1>2, <1>4, <1>5, <1>6, <1>7, <1>8, <1>9, <1>10, LocalStep DEF ServerInv, Dead, StopHeld, Running

LEMMA RunRaisesKeeps == ASSUME IInv, NEW s \in Server, RunRaises(s) PROVE IInv'
<1> DEFINE x == [sv[s] EXCEPT !.pc = "interrupted", !.list = {}, !.to = "finish"]
<1>1. sv[s] \in ServerState /\ ServerInv(s) /\ s # Nobody /\ Nobody \notin Dir
      /\ sv[s].dir \in Dir \cup {Nobody}
  BY CopiesAssumption DEF IInv, Types, ServerState
<1>2. x \in ServerState /\ sv' = [sv EXCEPT ![s] = x] /\ ~Dead(s)
  BY <1>1 DEF RunRaises, ServerState, IInv, Types, Dead, Interruptible, InRun
<1>3. dir' \in {dir, Unlocked(s)} /\ proc' = proc /\ brief' = brief /\ named' = named
  BY DEF RunRaises
<1>4. Quiet(s) /\ sv'[s] = x
  BY <1>2, <1>3, LocalFacts
<1>5. /\ sv'[s].pc = "interrupted" /\ sv'[s].dir = sv[s].dir /\ sv'[s].busy = sv[s].busy
      /\ sv'[s].to = "finish" /\ sv'[s].gaveUp = sv[s].gaveUp /\ sv'[s].how = sv[s].how
  BY <1>1, <1>4 DEF ServerState
<1> HIDE DEF x
<1>6. Place(s)'
  BY <1>1, <1>2, <1>3, <1>4, <1>5, OwnerStaysDead DEF Quiet, RunRaises, ServerInv, Place, Purpose, Calling, Sweeping, At, Dead, Interruptible, InRun
<1>7. Purpose(s)'
  BY <1>1, <1>5 DEF RunRaises, ServerInv, Purpose, Interruptible, InRun
<1>8. Tagged(s)'
  BY <1>1, <1>4, <1>5 DEF Quiet, RunRaises, ServerInv, Tagged, Place, Purpose, Calling, At, Interruptible, InRun
<1>9. Settled(s)'
  BY <1>1, <1>4, <1>5 DEF Quiet, RunRaises, ServerInv, Settled, Done, At, Interruptible, InRun
<1>10. Cleaned(s)'
  BY <1>1, <1>4, <1>5 DEF Quiet, RunRaises, ServerInv, Cleaned, Place, Calling, At, Interruptible, InRun
<1> QED
  BY <1>2, <1>4, <1>5, <1>6, <1>7, <1>8, <1>9, <1>10, LocalStep DEF ServerInv, Dead, RunRaises, Interruptible, InRun

LEMMA StoppedKeeps == ASSUME IInv, NEW s \in Server, Stopped(s) PROVE IInv'
<1> DEFINE x == [sv[s] EXCEPT !.pc = "list"]
<1>1. sv[s] \in ServerState /\ ServerInv(s) /\ s # Nobody /\ Nobody \notin Dir
      /\ sv[s].dir \in Dir \cup {Nobody}
  BY CopiesAssumption DEF IInv, Types, ServerState
<1>2. x \in ServerState /\ sv' = [sv EXCEPT ![s] = x] /\ ~Dead(s)
  BY <1>1 DEF Stopped, ServerState, IInv, Types, Dead
<1>3. dir' \in {dir, Unlocked(s)} /\ proc' = proc /\ brief' = brief /\ named' = named
  BY DEF Stopped
<1>4. Quiet(s) /\ sv'[s] = x
  BY <1>2, <1>3, LocalFacts
<1>5. /\ sv'[s].pc = "list" /\ sv'[s].dir = sv[s].dir /\ sv'[s].busy = sv[s].busy
      /\ sv'[s].to = sv[s].to /\ sv'[s].gaveUp = sv[s].gaveUp /\ sv'[s].how = sv[s].how
  BY <1>1, <1>4 DEF ServerState
<1> HIDE DEF x
<1>6. Place(s)'
  BY <1>1, <1>2, <1>3, <1>4, <1>5, OwnerStaysDead DEF Quiet, Stopped, ServerInv, Place, Purpose, Calling, Sweeping, At, Dead
<1>7. Purpose(s)'
  BY <1>1, <1>5 DEF Stopped, ServerInv, Purpose
<1>8. Tagged(s)'
  BY <1>1, <1>4, <1>5 DEF Quiet, Stopped, ServerInv, Tagged, Place, Purpose, Calling, At
<1>9. Settled(s)'
  BY <1>1, <1>4, <1>5 DEF Quiet, Stopped, ServerInv, Settled, Done, At
<1>10. Cleaned(s)'
  BY <1>1, <1>4, <1>5 DEF Quiet, Stopped, ServerInv, Cleaned, Place, Calling, At
<1> QED
  BY <1>2, <1>4, <1>5, <1>6, <1>7, <1>8, <1>9, <1>10, LocalStep DEF ServerInv, Dead, Stopped

LEMMA StopGivesUpKeeps == ASSUME IInv, NEW s \in Server, StopGivesUp(s) PROVE IInv'
<1> DEFINE x == [sv[s] EXCEPT !.pc = "raise", !.gaveUp = TRUE]
<1>1. sv[s] \in ServerState /\ ServerInv(s) /\ s # Nobody /\ Nobody \notin Dir
      /\ sv[s].dir \in Dir \cup {Nobody}
  BY CopiesAssumption DEF IInv, Types, ServerState
<1>2. x \in ServerState /\ sv' = [sv EXCEPT ![s] = x] /\ ~Dead(s)
  BY <1>1 DEF StopGivesUp, ServerState, IInv, Types, Dead
<1>3. dir' \in {dir, Unlocked(s)} /\ proc' = proc /\ brief' = brief /\ named' = named
  BY DEF StopGivesUp
<1>4. Quiet(s) /\ sv'[s] = x
  BY <1>2, <1>3, LocalFacts
<1>5. /\ sv'[s].pc = "raise" /\ sv'[s].dir = sv[s].dir /\ sv'[s].busy = sv[s].busy
      /\ sv'[s].to = sv[s].to /\ sv'[s].gaveUp = TRUE /\ sv'[s].how = sv[s].how
  BY <1>1, <1>4 DEF ServerState
<1> HIDE DEF x
<1>6. Place(s)'
  BY <1>1, <1>2, <1>3, <1>4, <1>5, OwnerStaysDead DEF Quiet, StopGivesUp, ServerInv, Place, Purpose, Calling, Sweeping, At, Dead
<1>7. Purpose(s)'
  BY <1>1, <1>5 DEF StopGivesUp, ServerInv, Purpose
<1>8. Tagged(s)'
  BY <1>1, <1>4, <1>5 DEF Quiet, StopGivesUp, ServerInv, Tagged, Place, Purpose, Calling, At
<1>9. Settled(s)'
  BY <1>1, <1>4, <1>5 DEF Quiet, StopGivesUp, ServerInv, Settled, Done, At
<1>10. Cleaned(s)'
  BY <1>1, <1>4, <1>5 DEF Quiet, StopGivesUp, ServerInv, Cleaned, Place, Calling, At
<1> QED
  BY <1>2, <1>4, <1>5, <1>6, <1>7, <1>8, <1>9, <1>10, LocalStep DEF ServerInv, Dead, StopGivesUp

LEMMA ExitKeeps == ASSUME IInv, NEW s \in Server, Exit(s) PROVE IInv'
<1> DEFINE x == [sv[s] EXCEPT !.pc = "ended"]
<1>1. sv[s] \in ServerState /\ ServerInv(s) /\ s # Nobody /\ Nobody \notin Dir
      /\ sv[s].dir \in Dir \cup {Nobody}
  BY CopiesAssumption DEF IInv, Types, ServerState
<1>2. x \in ServerState /\ sv' = [sv EXCEPT ![s] = x] /\ ~Dead(s)
  BY <1>1 DEF Exit, ServerState, IInv, Types, Dead
<1>3. dir' \in {dir, Unlocked(s)} /\ proc' = proc /\ brief' = brief /\ named' = named
  BY DEF Exit
<1>4. Quiet(s) /\ sv'[s] = x
  BY <1>2, <1>3, LocalFacts
<1>5. /\ sv'[s].pc = "ended" /\ sv'[s].dir = sv[s].dir /\ sv'[s].busy = sv[s].busy
      /\ sv'[s].to = sv[s].to /\ sv'[s].gaveUp = sv[s].gaveUp /\ sv'[s].how = sv[s].how
  BY <1>1, <1>4 DEF ServerState
<1> HIDE DEF x
<1>6. Place(s)'
  BY <1>1, <1>2, <1>3, <1>4, <1>5, OwnerStaysDead DEF Quiet, Exit, ServerInv, Place, Purpose, Calling, Sweeping, At, Dead
<1>7. Purpose(s)'
  BY <1>1, <1>5 DEF Exit, ServerInv, Purpose
<1>8. Tagged(s)'
  BY <1>1, <1>4, <1>5 DEF Quiet, Exit, ServerInv, Tagged, Place, Purpose, Calling, At
<1>9. Settled(s)'
  BY <1>1, <1>4, <1>5 DEF Quiet, Exit, ServerInv, Settled, Done, At
<1>10. Cleaned(s)'
  BY <1>1, <1>4, <1>5 DEF Quiet, Exit, ServerInv, Cleaned, Place, Calling, At
<1> QED
  BY <1>2, <1>4, <1>5, <1>6, <1>7, <1>8, <1>9, <1>10, LocalStep DEF ServerInv, Dead, Exit

LEMMA ScanDoneSweeping == ASSUME IInv, NEW s \in Server, ScanDone(s), sv[s].to = "sweep" PROVE IInv'
<1> DEFINE x == [sv[s] EXCEPT !.pc = IF sv[s].busy THEN "sweep" ELSE "remove"]
<1>1. sv[s] \in ServerState /\ ServerInv(s) /\ s # Nobody /\ Nobody \notin Dir
      /\ sv[s].dir \in Dir \cup {Nobody}
  BY CopiesAssumption DEF IInv, Types, ServerState
<1>2. x \in ServerState /\ sv' = [sv EXCEPT ![s] = x] /\ ~Dead(s)
  BY <1>1 DEF ScanDone, ServerState, IInv, Types, Dead
<1>3. dir' \in {dir, Unlocked(s)} /\ proc' = proc /\ brief' = brief /\ named' = named
  BY DEF ScanDone
<1>4. Quiet(s) /\ sv'[s] = x
  BY <1>2, <1>3, LocalFacts
<1>5. /\ sv'[s].pc = (IF sv[s].busy THEN "sweep" ELSE "remove") /\ sv'[s].dir = sv[s].dir /\ sv'[s].busy = sv[s].busy
      /\ sv'[s].to = sv[s].to /\ sv'[s].gaveUp = sv[s].gaveUp /\ sv'[s].how = sv[s].how
  BY <1>1, <1>4 DEF ServerState
<1> HIDE DEF x
<1>6. Place(s)'
  BY <1>1, <1>2, <1>3, <1>4, <1>5, OwnerStaysDead DEF Quiet, ScanDone, ServerInv, Place, Purpose, Calling, Sweeping, At, Dead
<1>7. Purpose(s)'
  BY <1>1, <1>5 DEF ScanDone, ServerInv, Purpose
<1>8. Tagged(s)'
  BY <1>1, <1>4, <1>5 DEF Quiet, ScanDone, ServerInv, Tagged, Place, Purpose, Calling, At
<1>9. Settled(s)'
  BY <1>1, <1>4, <1>5 DEF Quiet, ScanDone, ServerInv, Settled, Done, At
<1>10. Cleaned(s)'
  BY <1>1, <1>4, <1>5 DEF Quiet, ScanDone, ServerInv, Cleaned, Place, Calling, At
<1> QED
  BY <1>2, <1>4, <1>5, <1>6, <1>7, <1>8, <1>9, <1>10, LocalStep DEF ServerInv, Dead, ScanDone

LEMMA ScanDoneFinishing == ASSUME IInv, NEW s \in Server, ScanDone(s), sv[s].to = "finish" PROVE IInv'
<1> DEFINE x == [sv[s] EXCEPT !.pc = IF sv[s].busy THEN "return" ELSE "tidy"]
<1>1. sv[s] \in ServerState /\ ServerInv(s) /\ s # Nobody /\ Nobody \notin Dir
      /\ sv[s].dir \in Dir \cup {Nobody}
  BY CopiesAssumption DEF IInv, Types, ServerState
<1>2. x \in ServerState /\ sv' = [sv EXCEPT ![s] = x] /\ ~Dead(s)
  BY <1>1 DEF ScanDone, ServerState, IInv, Types, Dead
<1>3. dir' \in {dir, Unlocked(s)} /\ proc' = proc /\ brief' = brief /\ named' = named
  BY DEF ScanDone
<1>4. Quiet(s) /\ sv'[s] = x
  BY <1>2, <1>3, LocalFacts
<1>5. /\ sv'[s].pc = (IF sv[s].busy THEN "return" ELSE "tidy") /\ sv'[s].dir = sv[s].dir /\ sv'[s].busy = sv[s].busy
      /\ sv'[s].to = sv[s].to /\ sv'[s].gaveUp = sv[s].gaveUp /\ sv'[s].how = sv[s].how
  BY <1>1, <1>4 DEF ServerState
<1> HIDE DEF x
<1>6. Place(s)'
  BY <1>1, <1>2, <1>3, <1>4, <1>5, OwnerStaysDead DEF Quiet, ScanDone, ServerInv, Place, Purpose, Calling, Sweeping, At, Dead
<1>7. Purpose(s)'
  BY <1>1, <1>5 DEF ScanDone, ServerInv, Purpose
<1>8. Tagged(s)'
  BY <1>1, <1>4, <1>5 DEF Quiet, ScanDone, ServerInv, Tagged, Place, Purpose, Calling, At
<1>9. Settled(s)'
  BY <1>1, <1>4, <1>5 DEF Quiet, ScanDone, ServerInv, Settled, Done, At
<1>10. Cleaned(s)'
  BY <1>1, <1>4, <1>5 DEF Quiet, ScanDone, ServerInv, Cleaned, Place, Calling, At
<1> QED
  BY <1>2, <1>4, <1>5, <1>6, <1>7, <1>8, <1>9, <1>10, LocalStep DEF ServerInv, Dead, ScanDone

LEMMA ScanDoneCleaning == ASSUME IInv, NEW s \in Server, ScanDone(s), sv[s].to = "cleanup" PROVE IInv'
<1> DEFINE x == [sv[s] EXCEPT !.pc = IF sv[s].busy THEN "raise" ELSE "remove"]
<1>1. sv[s] \in ServerState /\ ServerInv(s) /\ s # Nobody /\ Nobody \notin Dir
      /\ sv[s].dir \in Dir \cup {Nobody}
  BY CopiesAssumption DEF IInv, Types, ServerState
<1>2. x \in ServerState /\ sv' = [sv EXCEPT ![s] = x] /\ ~Dead(s)
  BY <1>1 DEF ScanDone, ServerState, IInv, Types, Dead
<1>3. dir' \in {dir, Unlocked(s)} /\ proc' = proc /\ brief' = brief /\ named' = named
  BY DEF ScanDone
<1>4. Quiet(s) /\ sv'[s] = x
  BY <1>2, <1>3, LocalFacts
<1>5. /\ sv'[s].pc = (IF sv[s].busy THEN "raise" ELSE "remove") /\ sv'[s].dir = sv[s].dir /\ sv'[s].busy = sv[s].busy
      /\ sv'[s].to = sv[s].to /\ sv'[s].gaveUp = sv[s].gaveUp /\ sv'[s].how = sv[s].how
  BY <1>1, <1>4 DEF ServerState
<1> HIDE DEF x
<1>6. Place(s)'
  BY <1>1, <1>2, <1>3, <1>4, <1>5, OwnerStaysDead DEF Quiet, ScanDone, ServerInv, Place, Purpose, Calling, Sweeping, At, Dead
<1>7. Purpose(s)'
  BY <1>1, <1>5 DEF ScanDone, ServerInv, Purpose
<1>8. Tagged(s)'
  BY <1>1, <1>4, <1>5 DEF Quiet, ScanDone, ServerInv, Tagged, Place, Purpose, Calling, At
<1>9. Settled(s)'
  BY <1>1, <1>4, <1>5 DEF Quiet, ScanDone, ServerInv, Settled, Done, At
<1>10. Cleaned(s)'
  BY <1>1, <1>4, <1>5 DEF Quiet, ScanDone, ServerInv, Cleaned, Place, Calling, At
<1> QED
  BY <1>2, <1>4, <1>5, <1>6, <1>7, <1>8, <1>9, <1>10, LocalStep DEF ServerInv, Dead, ScanDone

LEMMA ScanDoneKeeps == ASSUME IInv, NEW s \in Server, ScanDone(s) PROVE IInv'
BY ScanDoneSweeping, ScanDoneFinishing, ScanDoneCleaning DEF ScanDone

LEMMA RaiseStops == ASSUME IInv, NEW s \in Server, Raise(s), sv[s].told PROVE IInv'
<1> DEFINE x == [sv[s] EXCEPT !.pc = IF \A d \in Owned(s) : Done(d) THEN "ended" ELSE "exiting", !.how = "told", !.list = {}, !.todo = {}]
<1>1. sv[s] \in ServerState /\ ServerInv(s) /\ s # Nobody /\ Nobody \notin Dir
      /\ sv[s].dir \in Dir \cup {Nobody}
  BY CopiesAssumption DEF IInv, Types, ServerState
<1>2. x \in ServerState /\ sv' = [sv EXCEPT ![s] = x] /\ ~Dead(s)
  BY <1>1 DEF Raise, ServerState, IInv, Types, Dead, Leaving
<1>3. dir' \in {dir, Unlocked(s)} /\ proc' = proc /\ brief' = brief /\ named' = named
  BY DEF Raise
<1>4. Quiet(s) /\ sv'[s] = x
  BY <1>2, <1>3, LocalFacts
<1>5. /\ sv'[s].pc = (IF \A d \in Owned(s) : Done(d) THEN "ended" ELSE "exiting") /\ sv'[s].dir = sv[s].dir /\ sv'[s].busy = sv[s].busy
      /\ sv'[s].to = sv[s].to /\ sv'[s].gaveUp = sv[s].gaveUp /\ sv'[s].how = "told"
  BY <1>1, <1>4 DEF ServerState
<1> HIDE DEF x
<1>6. Place(s)'
  BY <1>1, <1>2, <1>3, <1>4, <1>5, OwnerStaysDead DEF Quiet, Raise, ServerInv, Place, Purpose, Calling, Sweeping, At, Dead, Leaving
<1>7. Purpose(s)'
  BY <1>1, <1>5 DEF Raise, ServerInv, Purpose, Leaving
<1>8. Tagged(s)'
  BY <1>1, <1>4, <1>5 DEF Quiet, Raise, ServerInv, Tagged, Place, Purpose, Calling, At, Leaving
<1>9. Settled(s)'
  BY <1>1, <1>4, <1>5 DEF Quiet, Raise, ServerInv, Settled, Done, At, Leaving
<1>10. Cleaned(s)'
  BY <1>1, <1>4, <1>5 DEF Quiet, Raise, ServerInv, Cleaned, Place, Calling, At, Leaving
<1> QED
  BY <1>2, <1>4, <1>5, <1>6, <1>7, <1>8, <1>9, <1>10, LocalStep DEF ServerInv, Dead, Raise, Leaving

LEMMA RaiseReplies == ASSUME IInv, NEW s \in Server, Raise(s), ~sv[s].told PROVE IInv'
<1> DEFINE x == [sv[s] EXCEPT !.pc = "idle", !.dir = Nobody, !.to = "sweep", !.busy = FALSE, !.gaveUp = FALSE]
<1>1. sv[s] \in ServerState /\ ServerInv(s) /\ s # Nobody /\ Nobody \notin Dir
      /\ sv[s].dir \in Dir \cup {Nobody}
  BY CopiesAssumption DEF IInv, Types, ServerState
<1>2. x \in ServerState /\ sv' = [sv EXCEPT ![s] = x] /\ ~Dead(s)
  BY <1>1 DEF Raise, ServerState, IInv, Types, Dead, Idle
<1>3. dir' \in {dir, Unlocked(s)} /\ proc' = proc /\ brief' = brief /\ named' = named
  BY DEF Raise
<1>4. Quiet(s) /\ sv'[s] = x
  BY <1>2, <1>3, LocalFacts
<1>5. /\ sv'[s].pc = "idle" /\ sv'[s].dir = Nobody /\ sv'[s].busy = FALSE
      /\ sv'[s].to = "sweep" /\ sv'[s].gaveUp = FALSE /\ sv'[s].how = sv[s].how
  BY <1>1, <1>4 DEF ServerState
<1> HIDE DEF x
<1>6. Place(s)'
  BY <1>1, <1>2, <1>3, <1>4, <1>5, OwnerStaysDead DEF Quiet, Raise, ServerInv, Place, Purpose, Calling, Sweeping, At, Dead, Idle
<1>7. Purpose(s)'
  BY <1>1, <1>5 DEF Raise, ServerInv, Purpose, Idle
<1>8. Tagged(s)'
  BY <1>1, <1>4, <1>5 DEF Quiet, Raise, ServerInv, Tagged, Place, Purpose, Calling, At, Idle
<1>9. Settled(s)'
  BY <1>1, <1>4, <1>5 DEF Quiet, Raise, ServerInv, Settled, Done, At, Idle
<1>10. Cleaned(s)'
  BY <1>1, <1>4, <1>5 DEF Quiet, Raise, ServerInv, Cleaned, Place, Calling, At, Idle
<1> QED
  BY <1>2, <1>4, <1>5, <1>6, <1>7, <1>8, <1>9, <1>10, LocalStep DEF ServerInv, Dead, Raise, Idle

LEMMA RaiseKeeps == ASSUME IInv, NEW s \in Server, Raise(s) PROVE IInv'
BY RaiseStops, RaiseReplies

(***************************************************************************)
(* The steps that change one directory                                     *)
(***************************************************************************)
DirState == [there : BOOLEAN, owner : Server \cup {Nobody}, record : {"none", "empty", "written"},
             lock : Server \cup {Nobody}, files : SUBSET File]

\* A step of s that changes directory e, and of the others its own locks at most.
Touches(s, e) ==
  /\ Types'
  /\ \A t \in Server : t # s => sv'[t] = sv[t]
  /\ \A d \in Dir : d # e => /\ dir'[d].owner = dir[d].owner /\ dir'[d].there = dir[d].there
                             /\ dir'[d].files = dir[d].files /\ dir'[d].record = dir[d].record
                             /\ dir[d].lock # s => dir'[d].lock = dir[d].lock
  /\ proc' = proc /\ brief' = brief /\ named' = named

LEMMA UnlockedFacts ==
  ASSUME dir \in [Dir -> DirState], NEW s \in Server
  PROVE  /\ Unlocked(s) \in [Dir -> DirState]
         /\ \A d \in Dir : /\ Unlocked(s)[d].owner = dir[d].owner /\ Unlocked(s)[d].there = dir[d].there
                           /\ Unlocked(s)[d].files = dir[d].files /\ Unlocked(s)[d].record = dir[d].record
                           /\ dir[d].lock # s => Unlocked(s)[d].lock = dir[d].lock
<1>1. \A d \in Dir : Unlocked(s)[d] = IF dir[d].lock = s THEN [dir[d] EXCEPT !.lock = Nobody] ELSE dir[d]
  BY DEF Unlocked
<1>2. \A d \in Dir : dir[d] \in DirState
  OBVIOUS
<1>3. \A d \in Dir : Unlocked(s)[d] \in DirState
  BY <1>1, <1>2, ZenonT(30) DEF DirState
<1>4. Unlocked(s) = [d \in Dir |-> Unlocked(s)[d]]
  BY DEF Unlocked
<1> QED
  BY <1>1, <1>2, <1>3, <1>4 DEF DirState

LEMMA DirFacts ==
  ASSUME IInv, NEW s \in Server, NEW e \in Dir, NEW f \in DirState, NEW x \in ServerState,
         dir' \in {[dir EXCEPT ![e] = f], [Unlocked(s) EXCEPT ![e] = f]}, sv' = [sv EXCEPT ![s] = x],
         proc' = proc, brief' = brief, named' = named
  PROVE  Touches(s, e) /\ dir'[e] = f /\ sv'[s] = x
<1>1. Types
  BY DEF IInv
<1>2. /\ dir' \in [Dir -> DirState] /\ dir'[e] = f
      /\ \A d \in Dir : d # e => /\ dir'[d].owner = dir[d].owner /\ dir'[d].there = dir[d].there
                                 /\ dir'[d].files = dir[d].files /\ dir'[d].record = dir[d].record
                                 /\ dir[d].lock # s => dir'[d].lock = dir[d].lock
  <2>1. dir \in [Dir -> DirState]
    BY <1>1 DEF Types, DirState
  <2>2. CASE dir' = [dir EXCEPT ![e] = f]
    BY <2>1, <2>2
  <2>3. CASE dir' = [Unlocked(s) EXCEPT ![e] = f]
    <3>1. /\ Unlocked(s) \in [Dir -> DirState]
          /\ \A d \in Dir : /\ Unlocked(s)[d].owner = dir[d].owner /\ Unlocked(s)[d].there = dir[d].there
                            /\ Unlocked(s)[d].files = dir[d].files /\ Unlocked(s)[d].record = dir[d].record
                            /\ dir[d].lock # s => Unlocked(s)[d].lock = dir[d].lock
      BY <2>1, UnlockedFacts
    <3> QED
      BY <3>1, <2>3
  <2> QED
    BY <2>2, <2>3
<1>3. sv' \in [Server -> ServerState] /\ sv'[s] = x /\ \A t \in Server : t # s => sv'[t] = sv[t]
  BY <1>1 DEF Types
<1> QED
  BY <1>1, <1>2, <1>3 DEF Types, DirState, Touches

LEMMA SupervisedSame ==
  ASSUME IInv, NEW s \in Server, Effect(s), ~Dead(s), proc' = proc, brief' = brief
  PROVE  \A p \in Proc : Supervised(p)'
<1> SUFFICES ASSUME NEW p \in Proc PROVE Supervised(p)'
  OBVIOUS
<1>1. Supervised(p) /\ Types
  BY DEF IInv
<1>2. ASSUME Live(p), proc[p].brief # Nobody
      PROVE  /\ proc[p].dir \in Dir /\ dir[proc[p].dir].owner \in Server
             /\ dir'[proc[p].dir].owner = dir[proc[p].dir].owner
             /\ Dead(dir[proc[p].dir].owner) => sv'[dir[proc[p].dir].owner].pc = "ended"
  <2>1. proc[p].dir \in Dir
    BY <1>1, <1>2 DEF Supervised
  <2>2. DirInv(proc[p].dir) /\ dir[proc[p].dir].owner \in Server \cup {Nobody}
    BY <2>1, <1>1 DEF IInv, Types
  <2> QED
    BY <2>1, <2>2 DEF DirInv, Effect, Dead
<1> QED
  BY <1>1, <1>2 DEF Supervised, Live, Dead

LEMMA DirStep ==
  ASSUME IInv, NEW s \in Server, NEW e \in Dir, Touches(s, e), ~Dead(s), sv'[s].pc # "ended",
         ServerInv(s)',
         dir[e].owner # Nobody => dir'[e].owner = dir[e].owner /\ (dir'[e].there => dir[e].there),
         dir'[e].owner \in {dir[e].owner, s},
         dir[e].lock # s /\ dir[e].lock # Nobody /\ Dead(dir[e].owner) => dir'[e].lock = dir[e].lock,
         ~Using(s, e) => dir'[e].files = dir[e].files /\ dir'[e].record = dir[e].record,
         dir'[e].files # {} => dir'[e].record = "written" \/ e \in named
  PROVE  IInv'
<1>1. Effect(s)
  <2>1. \A d \in Dir : Done(d)' <=> Done(d)
    BY DoneSame DEF Touches
  <2> QED
    BY <2>1 DEF Effect, Touches
<1>2. OnDisk'
  <2>1. \A d \in Dir : dir[d].files # {} => (dir[d].record = "written" \/ d \in named)
    BY DEF IInv, DirInv
  <2> QED
    BY <2>1 DEF OnDisk, Touches
<1>3. \A p \in Proc : Supervised(p)'
  BY <1>1, SupervisedSame DEF Touches
<1> QED
  BY <1>1, <1>2, <1>3, StepOfServer DEF Touches

LEMMA LockOrphanTakes == ASSUME IInv, NEW s \in Server, LockOrphan(s), Dead(dir[sv[s].dir].owner) /\ dir[sv[s].dir].lock = Nobody PROVE IInv'
<1> DEFINE e == sv[s].dir
<1> DEFINE x == [sv[s] EXCEPT !.pc = "stopMarked"]
<1> DEFINE f == [dir[e] EXCEPT !.lock = s]
<1>1. /\ sv[s] \in ServerState /\ ServerInv(s) /\ s # Nobody /\ Nobody \notin Dir
      /\ sv[s].dir \in Dir \cup {Nobody} /\ dir \in [Dir -> DirState]
  BY CopiesAssumption DEF IInv, Types, ServerState, DirState
<1>2. e \in Dir /\ dir[e] \in DirState
  BY <1>1 DEF LockOrphan, ServerInv, Place, Purpose, Calling, Sweeping, At
<1>3. x \in ServerState /\ sv' = [sv EXCEPT ![s] = x] /\ ~Dead(s)
  BY <1>1, <1>2 DEF LockOrphan, ServerState, IInv, Types, Dead
<1>4. f \in DirState
  BY <1>1, <1>2 DEF DirState, File
<1>5. dir' \in {[dir EXCEPT ![e] = f], [Unlocked(s) EXCEPT ![e] = f]} /\ proc' = proc /\ brief' = brief /\ named' = named
  BY <1>1, <1>2 DEF LockOrphan, DirState
<1> HIDE DEF e, x, f
<1>6. Touches(s, e) /\ dir'[e] = f /\ sv'[s] = x
  BY <1>2, <1>3, <1>4, <1>5, DirFacts
<1>7. /\ sv'[s].pc = "stopMarked" /\ sv'[s].dir = sv[s].dir /\ sv'[s].busy = sv[s].busy
      /\ sv'[s].to = sv[s].to /\ sv'[s].gaveUp = sv[s].gaveUp /\ sv'[s].how = sv[s].how
  BY <1>1, <1>6 DEF ServerState, x
<1>8. /\ dir'[e].there = dir[e].there /\ dir'[e].owner = dir[e].owner /\ dir'[e].record = dir[e].record
      /\ dir'[e].lock = s /\ dir'[e].files = dir[e].files
  BY <1>2, <1>6 DEF DirState, f
<1>9. \A t \in Server : sv[t].pc = "ended" => sv'[t].pc = "ended"
  BY <1>3, <1>6 DEF Touches, Dead
<1>10. dir[e].owner \in Server \cup {Nobody}
  BY <1>2 DEF DirState
<1>11. Place(s)'
  BY <1>1, <1>2, <1>3, <1>6, <1>7, <1>8, <1>9, <1>10 DEF Touches, LockOrphan, ServerInv, Place, Purpose, Calling, Sweeping, At, Dead, e
<1>12. Purpose(s)'
  BY <1>1, <1>7 DEF LockOrphan, ServerInv, Purpose
<1>13. Tagged(s)'
  BY <1>1, <1>2, <1>6, <1>7, <1>8 DEF Touches, LockOrphan, ServerInv, Tagged, Place, Purpose, Calling, Sweeping, At, e
<1>14. Settled(s)'
  BY <1>1, <1>2, <1>6, <1>7 DEF Touches, LockOrphan, ServerInv, Settled, Purpose, Done, At, e
<1>15. Cleaned(s)'
  BY <1>1, <1>2, <1>6, <1>7, <1>8 DEF Touches, LockOrphan, ServerInv, Cleaned, Place, Calling, At, e
<1>16. sv'[s].pc # "ended" /\ (dir[e].owner # Nobody => dir'[e].owner = dir[e].owner /\ (dir'[e].there => dir[e].there))
  BY <1>1, <1>7, <1>8 DEF LockOrphan, e
<1>17. dir[e].lock # s /\ dir[e].lock # Nobody /\ Dead(dir[e].owner) => dir'[e].lock = dir[e].lock
  BY <1>1, <1>2, <1>3, <1>8 DEF LockOrphan, ServerInv, Place, Calling, At, Dead, e
<1>18. ~Using(s, e) => dir'[e].files = dir[e].files /\ dir'[e].record = dir[e].record
  BY <1>1, <1>8 DEF LockOrphan, Using, e
<1>19. dir'[e].files # {} => dir'[e].record = "written" \/ e \in named
  <2>1. dir[e].files # {} => dir[e].record = "written" \/ e \in named
    BY <1>2 DEF IInv, DirInv
  <2> QED
    BY <2>1, <1>1, <1>8 DEF LockOrphan, ServerInv, Tagged, Purpose, At, e
<1> QED
  BY <1>2, <1>3, <1>6, <1>8, <1>11, <1>12, <1>13, <1>14, <1>15, <1>16, <1>17, <1>18, <1>19, DirStep DEF ServerInv

LEMMA LockOrphanKeepsOff == ASSUME IInv, NEW s \in Server, LockOrphan(s), ~(Dead(dir[sv[s].dir].owner) /\ dir[sv[s].dir].lock = Nobody) PROVE IInv'
<1> DEFINE x == [sv[s] EXCEPT !.pc = "sweep"]
<1>1. sv[s] \in ServerState /\ ServerInv(s) /\ s # Nobody /\ Nobody \notin Dir
      /\ sv[s].dir \in Dir \cup {Nobody}
  BY CopiesAssumption DEF IInv, Types, ServerState
<1>2. x \in ServerState /\ sv' = [sv EXCEPT ![s] = x] /\ ~Dead(s)
  BY <1>1 DEF LockOrphan, ServerState, IInv, Types, Dead
<1>3. dir' \in {dir, Unlocked(s)} /\ proc' = proc /\ brief' = brief /\ named' = named
  BY DEF LockOrphan
<1>4. Quiet(s) /\ sv'[s] = x
  BY <1>2, <1>3, LocalFacts
<1>5. /\ sv'[s].pc = "sweep" /\ sv'[s].dir = sv[s].dir /\ sv'[s].busy = sv[s].busy
      /\ sv'[s].to = sv[s].to /\ sv'[s].gaveUp = sv[s].gaveUp /\ sv'[s].how = sv[s].how
  BY <1>1, <1>4 DEF ServerState
<1> HIDE DEF x
<1>6. Place(s)'
  BY <1>1, <1>2, <1>3, <1>4, <1>5, OwnerStaysDead DEF Quiet, LockOrphan, ServerInv, Place, Purpose, Calling, Sweeping, At, Dead
<1>7. Purpose(s)'
  BY <1>1, <1>5 DEF LockOrphan, ServerInv, Purpose
<1>8. Tagged(s)'
  BY <1>1, <1>4, <1>5 DEF Quiet, LockOrphan, ServerInv, Tagged, Place, Purpose, Calling, At
<1>9. Settled(s)'
  BY <1>1, <1>4, <1>5 DEF Quiet, LockOrphan, ServerInv, Settled, Done, At
<1>10. Cleaned(s)'
  BY <1>1, <1>4, <1>5 DEF Quiet, LockOrphan, ServerInv, Cleaned, Place, Calling, At
<1> QED
  BY <1>2, <1>4, <1>5, <1>6, <1>7, <1>8, <1>9, <1>10, LocalStep DEF ServerInv, Dead, LockOrphan

LEMMA LockOrphanKeeps == ASSUME IInv, NEW s \in Server, LockOrphan(s) PROVE IInv'
BY LockOrphanTakes, LockOrphanKeepsOff

LEMMA RemoveFileKeeps == ASSUME IInv, NEW s \in Server, RemoveFile(s) PROVE IInv'
<1>0. PICK g \in dir[sv[s].dir].files : dir' = [dir EXCEPT ![sv[s].dir].files = @ \ {g}]
  BY DEF RemoveFile
<1> DEFINE e == sv[s].dir
<1> DEFINE x == sv[s]
<1> DEFINE f == [dir[e] EXCEPT !.files = @ \ {g}]
<1>1. /\ sv[s] \in ServerState /\ ServerInv(s) /\ s # Nobody /\ Nobody \notin Dir
      /\ sv[s].dir \in Dir \cup {Nobody} /\ dir \in [Dir -> DirState]
  BY CopiesAssumption DEF IInv, Types, ServerState, DirState
<1>2. e \in Dir /\ dir[e] \in DirState
  BY <1>1, <1>0 DEF RemoveFile, ServerInv, Place, Purpose, Calling, Sweeping, At
<1>3. x \in ServerState /\ sv' = [sv EXCEPT ![s] = x] /\ ~Dead(s)
  BY <1>1, <1>2, <1>0 DEF RemoveFile, ServerState, IInv, Types, Dead
<1>4. f \in DirState
  BY <1>1, <1>2, <1>0 DEF DirState, File
<1>5. dir' \in {[dir EXCEPT ![e] = f], [Unlocked(s) EXCEPT ![e] = f]} /\ proc' = proc /\ brief' = brief /\ named' = named
  BY <1>1, <1>2, <1>0 DEF RemoveFile, DirState
<1> HIDE DEF e, x, f
<1>6. Touches(s, e) /\ dir'[e] = f /\ sv'[s] = x
  BY <1>2, <1>3, <1>4, <1>5, DirFacts
<1>7. /\ sv'[s].pc = sv[s].pc /\ sv'[s].dir = sv[s].dir /\ sv'[s].busy = sv[s].busy
      /\ sv'[s].to = sv[s].to /\ sv'[s].gaveUp = sv[s].gaveUp /\ sv'[s].how = sv[s].how
  BY <1>1, <1>6 DEF ServerState, x
<1>8. /\ dir'[e].there = dir[e].there /\ dir'[e].owner = dir[e].owner /\ dir'[e].record = dir[e].record
      /\ dir'[e].lock = dir[e].lock /\ dir'[e].files = (dir[e].files \ {g})
  BY <1>2, <1>6 DEF DirState, f
<1>9. \A t \in Server : sv[t].pc = "ended" => sv'[t].pc = "ended"
  BY <1>3, <1>6 DEF Touches, Dead
<1>10. dir[e].owner \in Server \cup {Nobody}
  BY <1>2 DEF DirState
<1>11. Place(s)'
  BY <1>1, <1>2, <1>3, <1>6, <1>7, <1>8, <1>9, <1>10, <1>0 DEF Touches, RemoveFile, ServerInv, Place, Purpose, Calling, Sweeping, At, Dead, e
<1>12. Purpose(s)'
  BY <1>1, <1>7, <1>0 DEF RemoveFile, ServerInv, Purpose
<1>13. Tagged(s)'
  BY <1>1, <1>2, <1>6, <1>7, <1>8, <1>0 DEF Touches, RemoveFile, ServerInv, Tagged, Place, Purpose, Calling, Sweeping, At, e
<1>14. Settled(s)'
  BY <1>1, <1>2, <1>6, <1>7, <1>0 DEF Touches, RemoveFile, ServerInv, Settled, Purpose, Done, At, e
<1>15. Cleaned(s)'
  BY <1>1, <1>2, <1>6, <1>7, <1>8, <1>0 DEF Touches, RemoveFile, ServerInv, Cleaned, Place, Calling, At, e
<1>16. sv'[s].pc # "ended" /\ (dir[e].owner # Nobody => dir'[e].owner = dir[e].owner /\ (dir'[e].there => dir[e].there))
  BY <1>1, <1>7, <1>8, <1>0 DEF RemoveFile, e
<1>17. dir[e].lock # s /\ dir[e].lock # Nobody /\ Dead(dir[e].owner) => dir'[e].lock = dir[e].lock
  BY <1>1, <1>2, <1>3, <1>8, <1>0 DEF RemoveFile, ServerInv, Place, Calling, At, Dead, e
<1>18. ~Using(s, e) => dir'[e].files = dir[e].files /\ dir'[e].record = dir[e].record
  BY <1>1, <1>8, <1>0 DEF RemoveFile, Using, e
<1>19. dir'[e].files # {} => dir'[e].record = "written" \/ e \in named
  <2>1. dir[e].files # {} => dir[e].record = "written" \/ e \in named
    BY <1>2 DEF IInv, DirInv
  <2> QED
    BY <2>1, <1>1, <1>8, <1>0 DEF RemoveFile, ServerInv, Tagged, Purpose, At, e
<1> QED
  BY <1>2, <1>3, <1>6, <1>8, <1>11, <1>12, <1>13, <1>14, <1>15, <1>16, <1>17, <1>18, <1>19, DirStep DEF ServerInv

LEMMA RemoveRecordKeeps == ASSUME IInv, NEW s \in Server, RemoveRecord(s) PROVE IInv'
<1> DEFINE e == sv[s].dir
<1> DEFINE x == sv[s]
<1> DEFINE f == [dir[e] EXCEPT !.record = "none"]
<1>1. /\ sv[s] \in ServerState /\ ServerInv(s) /\ s # Nobody /\ Nobody \notin Dir
      /\ sv[s].dir \in Dir \cup {Nobody} /\ dir \in [Dir -> DirState]
  BY CopiesAssumption DEF IInv, Types, ServerState, DirState
<1>2. e \in Dir /\ dir[e] \in DirState
  BY <1>1 DEF RemoveRecord, ServerInv, Place, Purpose, Calling, Sweeping, At
<1>3. x \in ServerState /\ sv' = [sv EXCEPT ![s] = x] /\ ~Dead(s)
  BY <1>1, <1>2 DEF RemoveRecord, ServerState, IInv, Types, Dead
<1>4. f \in DirState
  BY <1>1, <1>2 DEF DirState, File
<1>5. dir' \in {[dir EXCEPT ![e] = f], [Unlocked(s) EXCEPT ![e] = f]} /\ proc' = proc /\ brief' = brief /\ named' = named
  BY <1>1, <1>2 DEF RemoveRecord, DirState
<1> HIDE DEF e, x, f
<1>6. Touches(s, e) /\ dir'[e] = f /\ sv'[s] = x
  BY <1>2, <1>3, <1>4, <1>5, DirFacts
<1>7. /\ sv'[s].pc = sv[s].pc /\ sv'[s].dir = sv[s].dir /\ sv'[s].busy = sv[s].busy
      /\ sv'[s].to = sv[s].to /\ sv'[s].gaveUp = sv[s].gaveUp /\ sv'[s].how = sv[s].how
  BY <1>1, <1>6 DEF ServerState, x
<1>8. /\ dir'[e].there = dir[e].there /\ dir'[e].owner = dir[e].owner /\ dir'[e].record = "none"
      /\ dir'[e].lock = dir[e].lock /\ dir'[e].files = dir[e].files
  BY <1>2, <1>6 DEF DirState, f
<1>9. \A t \in Server : sv[t].pc = "ended" => sv'[t].pc = "ended"
  BY <1>3, <1>6 DEF Touches, Dead
<1>10. dir[e].owner \in Server \cup {Nobody}
  BY <1>2 DEF DirState
<1>11. Place(s)'
  BY <1>1, <1>2, <1>3, <1>6, <1>7, <1>8, <1>9, <1>10 DEF Touches, RemoveRecord, ServerInv, Place, Purpose, Calling, Sweeping, At, Dead, e
<1>12. Purpose(s)'
  BY <1>1, <1>7 DEF RemoveRecord, ServerInv, Purpose
<1>13. Tagged(s)'
  BY <1>1, <1>2, <1>6, <1>7, <1>8 DEF Touches, RemoveRecord, ServerInv, Tagged, Place, Purpose, Calling, Sweeping, At, e
<1>14. Settled(s)'
  BY <1>1, <1>2, <1>6, <1>7 DEF Touches, RemoveRecord, ServerInv, Settled, Purpose, Done, At, e
<1>15. Cleaned(s)'
  BY <1>1, <1>2, <1>6, <1>7, <1>8 DEF Touches, RemoveRecord, ServerInv, Cleaned, Place, Calling, At, e
<1>16. sv'[s].pc # "ended" /\ (dir[e].owner # Nobody => dir'[e].owner = dir[e].owner /\ (dir'[e].there => dir[e].there))
  BY <1>1, <1>7, <1>8 DEF RemoveRecord, e
<1>17. dir[e].lock # s /\ dir[e].lock # Nobody /\ Dead(dir[e].owner) => dir'[e].lock = dir[e].lock
  BY <1>1, <1>2, <1>3, <1>8 DEF RemoveRecord, ServerInv, Place, Calling, At, Dead, e
<1>18. ~Using(s, e) => dir'[e].files = dir[e].files /\ dir'[e].record = dir[e].record
  BY <1>1, <1>8 DEF RemoveRecord, Using, e
<1>19. dir'[e].files # {} => dir'[e].record = "written" \/ e \in named
  <2>1. dir[e].files # {} => dir[e].record = "written" \/ e \in named
    BY <1>2 DEF IInv, DirInv
  <2> QED
    BY <2>1, <1>1, <1>8 DEF RemoveRecord, ServerInv, Tagged, Purpose, At, e
<1> QED
  BY <1>2, <1>3, <1>6, <1>8, <1>11, <1>12, <1>13, <1>14, <1>15, <1>16, <1>17, <1>18, <1>19, DirStep DEF ServerInv

LEMMA CreateRecordKeeps == ASSUME IInv, NEW s \in Server, CreateRecord(s) PROVE IInv'
<1> DEFINE e == sv[s].dir
<1> DEFINE x == [sv[s] EXCEPT !.pc = "tagged"]
<1> DEFINE f == [dir[e] EXCEPT !.record = "empty", !.lock = s]
<1>1. /\ sv[s] \in ServerState /\ ServerInv(s) /\ s # Nobody /\ Nobody \notin Dir
      /\ sv[s].dir \in Dir \cup {Nobody} /\ dir \in [Dir -> DirState]
  BY CopiesAssumption DEF IInv, Types, ServerState, DirState
<1>2. e \in Dir /\ dir[e] \in DirState
  BY <1>1 DEF CreateRecord, ServerInv, Place, Purpose, Calling, Sweeping, At
<1>3. x \in ServerState /\ sv' = [sv EXCEPT ![s] = x] /\ ~Dead(s)
  BY <1>1, <1>2 DEF CreateRecord, ServerState, IInv, Types, Dead
<1>4. f \in DirState
  BY <1>1, <1>2 DEF DirState, File
<1>5. dir' \in {[dir EXCEPT ![e] = f], [Unlocked(s) EXCEPT ![e] = f]} /\ proc' = proc /\ brief' = brief /\ named' = named
  BY <1>1, <1>2 DEF CreateRecord, DirState
<1> HIDE DEF e, x, f
<1>6. Touches(s, e) /\ dir'[e] = f /\ sv'[s] = x
  BY <1>2, <1>3, <1>4, <1>5, DirFacts
<1>7. /\ sv'[s].pc = "tagged" /\ sv'[s].dir = sv[s].dir /\ sv'[s].busy = sv[s].busy
      /\ sv'[s].to = sv[s].to /\ sv'[s].gaveUp = sv[s].gaveUp /\ sv'[s].how = sv[s].how
  BY <1>1, <1>6 DEF ServerState, x
<1>8. /\ dir'[e].there = dir[e].there /\ dir'[e].owner = dir[e].owner /\ dir'[e].record = "empty"
      /\ dir'[e].lock = s /\ dir'[e].files = dir[e].files
  BY <1>2, <1>6 DEF DirState, f
<1>9. \A t \in Server : sv[t].pc = "ended" => sv'[t].pc = "ended"
  BY <1>3, <1>6 DEF Touches, Dead
<1>10. dir[e].owner \in Server \cup {Nobody}
  BY <1>2 DEF DirState
<1>11. Place(s)'
  BY <1>1, <1>2, <1>3, <1>6, <1>7, <1>8, <1>9, <1>10 DEF Touches, CreateRecord, ServerInv, Place, Purpose, Calling, Sweeping, At, Dead, e
<1>12. Purpose(s)'
  BY <1>1, <1>7 DEF CreateRecord, ServerInv, Purpose
<1>13. Tagged(s)'
  BY <1>1, <1>2, <1>6, <1>7, <1>8 DEF Touches, CreateRecord, ServerInv, Tagged, Place, Purpose, Calling, Sweeping, At, e
<1>14. Settled(s)'
  BY <1>1, <1>2, <1>6, <1>7 DEF Touches, CreateRecord, ServerInv, Settled, Purpose, Done, At, e
<1>15. Cleaned(s)'
  BY <1>1, <1>2, <1>6, <1>7, <1>8 DEF Touches, CreateRecord, ServerInv, Cleaned, Place, Calling, At, e
<1>16. sv'[s].pc # "ended" /\ (dir[e].owner # Nobody => dir'[e].owner = dir[e].owner /\ (dir'[e].there => dir[e].there))
  BY <1>1, <1>7, <1>8 DEF CreateRecord, e
<1>17. dir[e].lock # s /\ dir[e].lock # Nobody /\ Dead(dir[e].owner) => dir'[e].lock = dir[e].lock
  BY <1>1, <1>2, <1>3, <1>8 DEF CreateRecord, ServerInv, Place, Calling, At, Dead, e
<1>18. ~Using(s, e) => dir'[e].files = dir[e].files /\ dir'[e].record = dir[e].record
  BY <1>1, <1>8 DEF CreateRecord, Using, e
<1>19. dir'[e].files # {} => dir'[e].record = "written" \/ e \in named
  <2>1. dir[e].files # {} => dir[e].record = "written" \/ e \in named
    BY <1>2 DEF IInv, DirInv
  <2> QED
    BY <2>1, <1>1, <1>8 DEF CreateRecord, ServerInv, Tagged, Purpose, At, e
<1> QED
  BY <1>2, <1>3, <1>6, <1>8, <1>11, <1>12, <1>13, <1>14, <1>15, <1>16, <1>17, <1>18, <1>19, DirStep DEF ServerInv

LEMMA WriteRecordKeeps == ASSUME IInv, NEW s \in Server, WriteRecord(s) PROVE IInv'
<1> DEFINE e == sv[s].dir
<1> DEFINE x == [sv[s] EXCEPT !.pc = "copying"]
<1> DEFINE f == [dir[e] EXCEPT !.record = "written"]
<1>1. /\ sv[s] \in ServerState /\ ServerInv(s) /\ s # Nobody /\ Nobody \notin Dir
      /\ sv[s].dir \in Dir \cup {Nobody} /\ dir \in [Dir -> DirState]
  BY CopiesAssumption DEF IInv, Types, ServerState, DirState
<1>2. e \in Dir /\ dir[e] \in DirState
  BY <1>1 DEF WriteRecord, ServerInv, Place, Purpose, Calling, Sweeping, At
<1>3. x \in ServerState /\ sv' = [sv EXCEPT ![s] = x] /\ ~Dead(s)
  BY <1>1, <1>2 DEF WriteRecord, ServerState, IInv, Types, Dead
<1>4. f \in DirState
  BY <1>1, <1>2 DEF DirState, File
<1>5. dir' \in {[dir EXCEPT ![e] = f], [Unlocked(s) EXCEPT ![e] = f]} /\ proc' = proc /\ brief' = brief /\ named' = named
  BY <1>1, <1>2 DEF WriteRecord, DirState
<1> HIDE DEF e, x, f
<1>6. Touches(s, e) /\ dir'[e] = f /\ sv'[s] = x
  BY <1>2, <1>3, <1>4, <1>5, DirFacts
<1>7. /\ sv'[s].pc = "copying" /\ sv'[s].dir = sv[s].dir /\ sv'[s].busy = sv[s].busy
      /\ sv'[s].to = sv[s].to /\ sv'[s].gaveUp = sv[s].gaveUp /\ sv'[s].how = sv[s].how
  BY <1>1, <1>6 DEF ServerState, x
<1>8. /\ dir'[e].there = dir[e].there /\ dir'[e].owner = dir[e].owner /\ dir'[e].record = "written"
      /\ dir'[e].lock = dir[e].lock /\ dir'[e].files = dir[e].files
  BY <1>2, <1>6 DEF DirState, f
<1>9. \A t \in Server : sv[t].pc = "ended" => sv'[t].pc = "ended"
  BY <1>3, <1>6 DEF Touches, Dead
<1>10. dir[e].owner \in Server \cup {Nobody}
  BY <1>2 DEF DirState
<1>11. Place(s)'
  BY <1>1, <1>2, <1>3, <1>6, <1>7, <1>8, <1>9, <1>10 DEF Touches, WriteRecord, ServerInv, Place, Purpose, Calling, Sweeping, At, Dead, e
<1>12. Purpose(s)'
  BY <1>1, <1>7 DEF WriteRecord, ServerInv, Purpose
<1>13. Tagged(s)'
  BY <1>1, <1>2, <1>6, <1>7, <1>8 DEF Touches, WriteRecord, ServerInv, Tagged, Place, Purpose, Calling, Sweeping, At, e
<1>14. Settled(s)'
  BY <1>1, <1>2, <1>6, <1>7 DEF Touches, WriteRecord, ServerInv, Settled, Purpose, Done, At, e
<1>15. Cleaned(s)'
  BY <1>1, <1>2, <1>6, <1>7, <1>8 DEF Touches, WriteRecord, ServerInv, Cleaned, Place, Calling, At, e
<1>16. sv'[s].pc # "ended" /\ (dir[e].owner # Nobody => dir'[e].owner = dir[e].owner /\ (dir'[e].there => dir[e].there))
  BY <1>1, <1>7, <1>8 DEF WriteRecord, e
<1>17. dir[e].lock # s /\ dir[e].lock # Nobody /\ Dead(dir[e].owner) => dir'[e].lock = dir[e].lock
  BY <1>1, <1>2, <1>3, <1>8 DEF WriteRecord, ServerInv, Place, Calling, At, Dead, e
<1>18. ~Using(s, e) => dir'[e].files = dir[e].files /\ dir'[e].record = dir[e].record
  BY <1>1, <1>8 DEF WriteRecord, Using, e
<1>19. dir'[e].files # {} => dir'[e].record = "written" \/ e \in named
  <2>1. dir[e].files # {} => dir[e].record = "written" \/ e \in named
    BY <1>2 DEF IInv, DirInv
  <2> QED
    BY <2>1, <1>1, <1>8 DEF WriteRecord, ServerInv, Tagged, Purpose, At, e
<1> QED
  BY <1>2, <1>3, <1>6, <1>8, <1>11, <1>12, <1>13, <1>14, <1>15, <1>16, <1>17, <1>18, <1>19, DirStep DEF ServerInv

LEMMA CopyTreeKeeps == ASSUME IInv, NEW s \in Server, CopyTree(s) PROVE IInv'
<1> DEFINE e == sv[s].dir
<1> DEFINE x == sv[s]
<1> DEFINE f == [dir[e] EXCEPT !.files = IF @ = {} THEN {"base"} ELSE File]
<1>1. /\ sv[s] \in ServerState /\ ServerInv(s) /\ s # Nobody /\ Nobody \notin Dir
      /\ sv[s].dir \in Dir \cup {Nobody} /\ dir \in [Dir -> DirState]
  BY CopiesAssumption DEF IInv, Types, ServerState, DirState
<1>2. e \in Dir /\ dir[e] \in DirState
  BY <1>1 DEF CopyTree, ServerInv, Place, Purpose, Calling, Sweeping, At
<1>3. x \in ServerState /\ sv' = [sv EXCEPT ![s] = x] /\ ~Dead(s)
  BY <1>1, <1>2 DEF CopyTree, ServerState, IInv, Types, Dead
<1>4. f \in DirState
  BY <1>1, <1>2 DEF DirState, File
<1>5. dir' \in {[dir EXCEPT ![e] = f], [Unlocked(s) EXCEPT ![e] = f]} /\ proc' = proc /\ brief' = brief /\ named' = named
  BY <1>1, <1>2 DEF CopyTree, DirState
<1> HIDE DEF e, x, f
<1>6. Touches(s, e) /\ dir'[e] = f /\ sv'[s] = x
  BY <1>2, <1>3, <1>4, <1>5, DirFacts
<1>7. /\ sv'[s].pc = sv[s].pc /\ sv'[s].dir = sv[s].dir /\ sv'[s].busy = sv[s].busy
      /\ sv'[s].to = sv[s].to /\ sv'[s].gaveUp = sv[s].gaveUp /\ sv'[s].how = sv[s].how
  BY <1>1, <1>6 DEF ServerState, x
<1>8. /\ dir'[e].there = dir[e].there /\ dir'[e].owner = dir[e].owner /\ dir'[e].record = dir[e].record
      /\ dir'[e].lock = dir[e].lock /\ dir'[e].files = (IF dir[e].files = {} THEN {"base"} ELSE File)
  BY <1>2, <1>6 DEF DirState, f
<1>9. \A t \in Server : sv[t].pc = "ended" => sv'[t].pc = "ended"
  BY <1>3, <1>6 DEF Touches, Dead
<1>10. dir[e].owner \in Server \cup {Nobody}
  BY <1>2 DEF DirState
<1>11. Place(s)'
  BY <1>1, <1>2, <1>3, <1>6, <1>7, <1>8, <1>9, <1>10 DEF Touches, CopyTree, ServerInv, Place, Purpose, Calling, Sweeping, At, Dead, e
<1>12. Purpose(s)'
  BY <1>1, <1>7 DEF CopyTree, ServerInv, Purpose
<1>13. Tagged(s)'
  BY <1>1, <1>2, <1>6, <1>7, <1>8 DEF Touches, CopyTree, ServerInv, Tagged, Place, Purpose, Calling, Sweeping, At, e
<1>14. Settled(s)'
  BY <1>1, <1>2, <1>6, <1>7 DEF Touches, CopyTree, ServerInv, Settled, Purpose, Done, At, e
<1>15. Cleaned(s)'
  BY <1>1, <1>2, <1>6, <1>7, <1>8 DEF Touches, CopyTree, ServerInv, Cleaned, Place, Calling, At, e
<1>16. sv'[s].pc # "ended" /\ (dir[e].owner # Nobody => dir'[e].owner = dir[e].owner /\ (dir'[e].there => dir[e].there))
  BY <1>1, <1>7, <1>8 DEF CopyTree, e
<1>17. dir[e].lock # s /\ dir[e].lock # Nobody /\ Dead(dir[e].owner) => dir'[e].lock = dir[e].lock
  BY <1>1, <1>2, <1>3, <1>8 DEF CopyTree, ServerInv, Place, Calling, At, Dead, e
<1>18. ~Using(s, e) => dir'[e].files = dir[e].files /\ dir'[e].record = dir[e].record
  BY <1>1, <1>8 DEF CopyTree, Using, e
<1>19. dir'[e].files # {} => dir'[e].record = "written" \/ e \in named
  <2>1. dir[e].files # {} => dir[e].record = "written" \/ e \in named
    BY <1>2 DEF IInv, DirInv
  <2> QED
    BY <2>1, <1>1, <1>8 DEF CopyTree, ServerInv, Tagged, Purpose, At, e
<1> QED
  BY <1>2, <1>3, <1>6, <1>8, <1>11, <1>12, <1>13, <1>14, <1>15, <1>16, <1>17, <1>18, <1>19, DirStep DEF ServerInv

LEMMA TidyKeeps == ASSUME IInv, NEW s \in Server, Tidy(s) PROVE IInv'
<1>0. PICK left \in {{}, {"copies"}} :
        /\ dir' = [dir EXCEPT ![sv[s].dir].files = left]
        /\ sv' = [sv EXCEPT ![s].pc = IF left = {} THEN "remove" ELSE "return"]
  BY DEF Tidy
<1> DEFINE e == sv[s].dir
<1> DEFINE x == [sv[s] EXCEPT !.pc = IF left = {} THEN "remove" ELSE "return"]
<1> DEFINE f == [dir[e] EXCEPT !.files = left]
<1>1. /\ sv[s] \in ServerState /\ ServerInv(s) /\ s # Nobody /\ Nobody \notin Dir
      /\ sv[s].dir \in Dir \cup {Nobody} /\ dir \in [Dir -> DirState]
  BY CopiesAssumption DEF IInv, Types, ServerState, DirState
<1>2. e \in Dir /\ dir[e] \in DirState
  BY <1>1, <1>0 DEF Tidy, ServerInv, Place, Purpose, Calling, Sweeping, At
<1>3. x \in ServerState /\ sv' = [sv EXCEPT ![s] = x] /\ ~Dead(s)
  BY <1>1, <1>2, <1>0 DEF Tidy, ServerState, IInv, Types, Dead
<1>4. f \in DirState
  BY <1>1, <1>2, <1>0 DEF DirState, File
<1>5. dir' \in {[dir EXCEPT ![e] = f], [Unlocked(s) EXCEPT ![e] = f]} /\ proc' = proc /\ brief' = brief /\ named' = named
  BY <1>1, <1>2, <1>0 DEF Tidy, DirState
<1> HIDE DEF e, x, f
<1>6. Touches(s, e) /\ dir'[e] = f /\ sv'[s] = x
  BY <1>2, <1>3, <1>4, <1>5, DirFacts
<1>7. /\ sv'[s].pc = (IF left = {} THEN "remove" ELSE "return") /\ sv'[s].dir = sv[s].dir /\ sv'[s].busy = sv[s].busy
      /\ sv'[s].to = sv[s].to /\ sv'[s].gaveUp = sv[s].gaveUp /\ sv'[s].how = sv[s].how
  BY <1>1, <1>6 DEF ServerState, x
<1>8. /\ dir'[e].there = dir[e].there /\ dir'[e].owner = dir[e].owner /\ dir'[e].record = dir[e].record
      /\ dir'[e].lock = dir[e].lock /\ dir'[e].files = left
  BY <1>2, <1>6 DEF DirState, f
<1>9. \A t \in Server : sv[t].pc = "ended" => sv'[t].pc = "ended"
  BY <1>3, <1>6 DEF Touches, Dead
<1>10. dir[e].owner \in Server \cup {Nobody}
  BY <1>2 DEF DirState
<1>11. Place(s)'
  BY <1>1, <1>2, <1>3, <1>6, <1>7, <1>8, <1>9, <1>10, <1>0 DEF Touches, Tidy, ServerInv, Place, Purpose, Calling, Sweeping, At, Dead, e
<1>12. Purpose(s)'
  BY <1>1, <1>7, <1>0 DEF Tidy, ServerInv, Purpose
<1>13. Tagged(s)'
  BY <1>1, <1>2, <1>6, <1>7, <1>8, <1>0 DEF Touches, Tidy, ServerInv, Tagged, Place, Purpose, Calling, Sweeping, At, e
<1>14. Settled(s)'
  BY <1>1, <1>2, <1>6, <1>7, <1>0 DEF Touches, Tidy, ServerInv, Settled, Purpose, Done, At, e
<1>15. Cleaned(s)'
  BY <1>1, <1>2, <1>6, <1>7, <1>8, <1>0 DEF Touches, Tidy, ServerInv, Cleaned, Place, Calling, At, e
<1>16. sv'[s].pc # "ended" /\ (dir[e].owner # Nobody => dir'[e].owner = dir[e].owner /\ (dir'[e].there => dir[e].there))
  BY <1>1, <1>7, <1>8, <1>0 DEF Tidy, e
<1>17. dir[e].lock # s /\ dir[e].lock # Nobody /\ Dead(dir[e].owner) => dir'[e].lock = dir[e].lock
  BY <1>1, <1>2, <1>3, <1>8, <1>0 DEF Tidy, ServerInv, Place, Calling, At, Dead, e
<1>18. ~Using(s, e) => dir'[e].files = dir[e].files /\ dir'[e].record = dir[e].record
  BY <1>1, <1>8, <1>0 DEF Tidy, Using, e
<1>19. dir'[e].files # {} => dir'[e].record = "written" \/ e \in named
  <2>1. dir[e].files # {} => dir[e].record = "written" \/ e \in named
    BY <1>2 DEF IInv, DirInv
  <2> QED
    BY <2>1, <1>1, <1>8, <1>0 DEF Tidy, ServerInv, Tagged, Purpose, At, e
<1> QED
  BY <1>2, <1>3, <1>6, <1>8, <1>11, <1>12, <1>13, <1>14, <1>15, <1>16, <1>17, <1>18, <1>19, DirStep DEF ServerInv

LEMMA MakeDirKeeps == ASSUME IInv, NEW s \in Server, MakeDir(s) PROVE IInv'
<1>0. PICK g \in Dir :
        /\ dir[g].owner = Nobody
        /\ dir' = [dir EXCEPT ![g].there = TRUE, ![g].owner = s]
        /\ sv' = [sv EXCEPT ![s].pc = "made", ![s].dir = g]
  BY DEF MakeDir
<1>g. dir[g].owner = Nobody /\ dir[g].files = {} /\ Done(g) /\ \A p \in Proc : proc[p].dir # g
  BY <1>0 DEF IInv, DirInv
<1> DEFINE e == g
<1> DEFINE x == [sv[s] EXCEPT !.pc = "made", !.dir = e]
<1> DEFINE f == [dir[e] EXCEPT !.there = TRUE, !.owner = s]
<1>1. /\ sv[s] \in ServerState /\ ServerInv(s) /\ s # Nobody /\ Nobody \notin Dir
      /\ sv[s].dir \in Dir \cup {Nobody} /\ dir \in [Dir -> DirState]
  BY CopiesAssumption DEF IInv, Types, ServerState, DirState
<1>2. e \in Dir /\ dir[e] \in DirState
  BY <1>1, <1>0, <1>g DEF MakeDir, ServerInv, Place, Purpose, Calling, Sweeping, At
<1>3. x \in ServerState /\ sv' = [sv EXCEPT ![s] = x] /\ ~Dead(s)
  BY <1>1, <1>2, <1>0, <1>g DEF MakeDir, ServerState, IInv, Types, Dead
<1>4. f \in DirState
  BY <1>1, <1>2, <1>0, <1>g DEF DirState, File
<1>5. dir' \in {[dir EXCEPT ![e] = f], [Unlocked(s) EXCEPT ![e] = f]} /\ proc' = proc /\ brief' = brief /\ named' = named
  BY <1>1, <1>2, <1>0, <1>g DEF MakeDir, DirState
<1> HIDE DEF e, x, f
<1>6. Touches(s, e) /\ dir'[e] = f /\ sv'[s] = x
  BY <1>2, <1>3, <1>4, <1>5, DirFacts
<1>7. /\ sv'[s].pc = "made" /\ sv'[s].dir = e /\ sv'[s].busy = sv[s].busy
      /\ sv'[s].to = sv[s].to /\ sv'[s].gaveUp = sv[s].gaveUp /\ sv'[s].how = sv[s].how
  BY <1>1, <1>6 DEF ServerState, x
<1>8. /\ dir'[e].there = TRUE /\ dir'[e].owner = s /\ dir'[e].record = dir[e].record
      /\ dir'[e].lock = dir[e].lock /\ dir'[e].files = dir[e].files
  BY <1>2, <1>6 DEF DirState, f
<1>9. \A t \in Server : sv[t].pc = "ended" => sv'[t].pc = "ended"
  BY <1>3, <1>6 DEF Touches, Dead
<1>10. dir[e].owner \in Server \cup {Nobody}
  BY <1>2 DEF DirState
<1>11. Place(s)'
  BY <1>1, <1>2, <1>3, <1>6, <1>7, <1>8, <1>9, <1>10, <1>g DEF Touches, MakeDir, ServerInv, Place, Purpose, Calling, Sweeping, At, Dead, e
<1>12. Purpose(s)'
  BY <1>1, <1>7, <1>g DEF MakeDir, ServerInv, Purpose
<1>13. Tagged(s)'
  BY <1>1, <1>2, <1>6, <1>7, <1>8, <1>g DEF Touches, MakeDir, ServerInv, Tagged, Place, Purpose, Calling, Sweeping, At, e
<1>14. Settled(s)'
  <2>1. sv'[s].dir = g /\ proc' = proc /\ brief' = brief
    BY <1>6, <1>7 DEF Touches, e
  <2>2. Done(g)' /\ \A p \in Proc : proc'[p].dir # g
    BY <2>1, <1>g DEF Done
  <2>3. At(s)' = g
    BY ONLY <2>1 DEF At
  <2> QED
    BY ONLY <2>2, <2>3 DEF Settled
<1>15. Cleaned(s)'
  BY <1>1, <1>2, <1>6, <1>7, <1>8, <1>g DEF Touches, MakeDir, ServerInv, Cleaned, Place, Calling, At, e
<1>16. sv'[s].pc # "ended" /\ (dir[e].owner # Nobody => dir'[e].owner = dir[e].owner /\ (dir'[e].there => dir[e].there))
  BY <1>1, <1>7, <1>8, <1>g DEF MakeDir, e
<1>17. dir[e].lock # s /\ dir[e].lock # Nobody /\ Dead(dir[e].owner) => dir'[e].lock = dir[e].lock
  BY <1>1, <1>2, <1>3, <1>8, <1>g DEF MakeDir, ServerInv, Place, Calling, At, Dead, e
<1>18. ~Using(s, e) => dir'[e].files = dir[e].files /\ dir'[e].record = dir[e].record
  BY <1>1, <1>8, <1>g DEF MakeDir, Using, e
<1>19. dir'[e].files # {} => dir'[e].record = "written" \/ e \in named
  <2>1. dir[e].files # {} => dir[e].record = "written" \/ e \in named
    BY <1>2 DEF IInv, DirInv
  <2> QED
    BY <2>1, <1>1, <1>8, <1>g DEF MakeDir, ServerInv, Tagged, Purpose, At, e
<1> QED
  BY <1>2, <1>3, <1>6, <1>8, <1>11, <1>12, <1>13, <1>14, <1>15, <1>16, <1>17, <1>18, <1>19, DirStep DEF ServerInv

LEMMA RemoveDirOfRun == ASSUME IInv, NEW s \in Server, RemoveDir(s), sv[s].to # "sweep" PROVE IInv'
<1> DEFINE e == sv[s].dir
<1> DEFINE x == [sv[s] EXCEPT !.pc = IF sv[s].to = "cleanup" THEN "raise" ELSE "return", !.dir = IF sv[s].to = "cleanup" THEN e ELSE Nobody]
<1> DEFINE f == [dir[e] EXCEPT !.there = FALSE]
<1>1. /\ sv[s] \in ServerState /\ ServerInv(s) /\ s # Nobody /\ Nobody \notin Dir
      /\ sv[s].dir \in Dir \cup {Nobody} /\ dir \in [Dir -> DirState]
  BY CopiesAssumption DEF IInv, Types, ServerState, DirState
<1>2. e \in Dir /\ dir[e] \in DirState
  BY <1>1 DEF RemoveDir, ServerInv, Place, Purpose, Calling, Sweeping, At
<1>3. x \in ServerState /\ sv' = [sv EXCEPT ![s] = x] /\ ~Dead(s)
  BY <1>1, <1>2 DEF RemoveDir, ServerState, IInv, Types, Dead
<1>4. f \in DirState
  BY <1>1, <1>2 DEF DirState, File
<1>5. dir' \in {[dir EXCEPT ![e] = f], [Unlocked(s) EXCEPT ![e] = f]} /\ proc' = proc /\ brief' = brief /\ named' = named
  BY <1>1, <1>2 DEF RemoveDir, DirState
<1> HIDE DEF e, x, f
<1>6. Touches(s, e) /\ dir'[e] = f /\ sv'[s] = x
  BY <1>2, <1>3, <1>4, <1>5, DirFacts
<1>7. /\ sv'[s].pc = (IF sv[s].to = "cleanup" THEN "raise" ELSE "return") /\ sv'[s].dir = (IF sv[s].to = "cleanup" THEN e ELSE Nobody) /\ sv'[s].busy = sv[s].busy
      /\ sv'[s].to = sv[s].to /\ sv'[s].gaveUp = sv[s].gaveUp /\ sv'[s].how = sv[s].how
  BY <1>1, <1>6 DEF ServerState, x
<1>8. /\ dir'[e].there = FALSE /\ dir'[e].owner = dir[e].owner /\ dir'[e].record = dir[e].record
      /\ dir'[e].lock = dir[e].lock /\ dir'[e].files = dir[e].files
  BY <1>2, <1>6 DEF DirState, f
<1>9. \A t \in Server : sv[t].pc = "ended" => sv'[t].pc = "ended"
  BY <1>3, <1>6 DEF Touches, Dead
<1>10. dir[e].owner \in Server \cup {Nobody}
  BY <1>2 DEF DirState
<1>11. Place(s)'
  BY <1>1, <1>2, <1>3, <1>6, <1>7, <1>8, <1>9, <1>10 DEF Touches, RemoveDir, ServerInv, Place, Purpose, Calling, Sweeping, At, Dead, e
<1>12. Purpose(s)'
  BY <1>1, <1>7 DEF RemoveDir, ServerInv, Purpose
<1>13. Tagged(s)'
  BY <1>1, <1>2, <1>6, <1>7, <1>8 DEF Touches, RemoveDir, ServerInv, Tagged, Place, Purpose, Calling, Sweeping, At, e
<1>14. Settled(s)'
  BY <1>1, <1>2, <1>6, <1>7 DEF Touches, RemoveDir, ServerInv, Settled, Purpose, Done, At, e
<1>15. Cleaned(s)'
  BY <1>1, <1>2, <1>6, <1>7, <1>8 DEF Touches, RemoveDir, ServerInv, Cleaned, Place, Calling, At, e
<1>16. sv'[s].pc # "ended" /\ (dir[e].owner # Nobody => dir'[e].owner = dir[e].owner /\ (dir'[e].there => dir[e].there))
  BY <1>1, <1>7, <1>8 DEF RemoveDir, e
<1>17. dir[e].lock # s /\ dir[e].lock # Nobody /\ Dead(dir[e].owner) => dir'[e].lock = dir[e].lock
  BY <1>1, <1>2, <1>3, <1>8 DEF RemoveDir, ServerInv, Place, Calling, At, Dead, e
<1>18. ~Using(s, e) => dir'[e].files = dir[e].files /\ dir'[e].record = dir[e].record
  BY <1>1, <1>8 DEF RemoveDir, Using, e
<1>19. dir'[e].files # {} => dir'[e].record = "written" \/ e \in named
  <2>1. dir[e].files # {} => dir[e].record = "written" \/ e \in named
    BY <1>2 DEF IInv, DirInv
  <2> QED
    BY <2>1, <1>1, <1>8 DEF RemoveDir, ServerInv, Tagged, Purpose, At, e
<1> QED
  BY <1>2, <1>3, <1>6, <1>8, <1>11, <1>12, <1>13, <1>14, <1>15, <1>16, <1>17, <1>18, <1>19, DirStep DEF ServerInv

LEMMA RemoveDirOfSweep == ASSUME IInv, NEW s \in Server, RemoveDir(s), sv[s].to = "sweep" PROVE IInv'
<1> DEFINE e == sv[s].dir
<1> DEFINE x == [sv[s] EXCEPT !.pc = "sweep"]
<1> DEFINE f == [dir[e] EXCEPT !.there = FALSE, !.lock = IF @ = s THEN Nobody ELSE @]
<1>1. /\ sv[s] \in ServerState /\ ServerInv(s) /\ s # Nobody /\ Nobody \notin Dir
      /\ sv[s].dir \in Dir \cup {Nobody} /\ dir \in [Dir -> DirState]
  BY CopiesAssumption DEF IInv, Types, ServerState, DirState
<1>2. e \in Dir /\ dir[e] \in DirState
  BY <1>1 DEF RemoveDir, ServerInv, Place, Purpose, Calling, Sweeping, At, Unlocked
<1>3. x \in ServerState /\ sv' = [sv EXCEPT ![s] = x] /\ ~Dead(s)
  BY <1>1, <1>2 DEF RemoveDir, ServerState, IInv, Types, Dead, Unlocked
<1>4. f \in DirState
  BY <1>1, <1>2 DEF DirState, File, Unlocked
<1>5. dir' \in {[dir EXCEPT ![e] = f], [Unlocked(s) EXCEPT ![e] = f]} /\ proc' = proc /\ brief' = brief /\ named' = named
  <2>1. f = [Unlocked(s)[e] EXCEPT !.there = FALSE]
    BY <1>2 DEF Unlocked, DirState
  <2>2. [Unlocked(s) EXCEPT ![e].there = FALSE] = [Unlocked(s) EXCEPT ![e] = [Unlocked(s)[e] EXCEPT !.there = FALSE]]
    OBVIOUS
  <2> QED
    BY <2>1, <2>2 DEF RemoveDir
<1> HIDE DEF e, x, f
<1>6. Touches(s, e) /\ dir'[e] = f /\ sv'[s] = x
  BY <1>2, <1>3, <1>4, <1>5, DirFacts
<1>7. /\ sv'[s].pc = "sweep" /\ sv'[s].dir = sv[s].dir /\ sv'[s].busy = sv[s].busy
      /\ sv'[s].to = sv[s].to /\ sv'[s].gaveUp = sv[s].gaveUp /\ sv'[s].how = sv[s].how
  BY <1>1, <1>6 DEF ServerState, x
<1>8. /\ dir'[e].there = FALSE /\ dir'[e].owner = dir[e].owner /\ dir'[e].record = dir[e].record
      /\ dir'[e].lock = (IF dir[e].lock = s THEN Nobody ELSE dir[e].lock) /\ dir'[e].files = dir[e].files
  BY <1>2, <1>6 DEF DirState, f
<1>9. \A t \in Server : sv[t].pc = "ended" => sv'[t].pc = "ended"
  BY <1>3, <1>6 DEF Touches, Dead
<1>10. dir[e].owner \in Server \cup {Nobody}
  BY <1>2 DEF DirState
<1>11. Place(s)'
  BY <1>1, <1>2, <1>3, <1>6, <1>7, <1>8, <1>9, <1>10 DEF Touches, RemoveDir, ServerInv, Place, Purpose, Calling, Sweeping, At, Dead, e, Unlocked
<1>12. Purpose(s)'
  BY <1>1, <1>7 DEF RemoveDir, ServerInv, Purpose, Unlocked
<1>13. Tagged(s)'
  BY <1>1, <1>2, <1>6, <1>7, <1>8 DEF Touches, RemoveDir, ServerInv, Tagged, Place, Purpose, Calling, Sweeping, At, e, Unlocked
<1>14. Settled(s)'
  BY <1>1, <1>2, <1>6, <1>7 DEF Touches, RemoveDir, ServerInv, Settled, Purpose, Done, At, e, Unlocked
<1>15. Cleaned(s)'
  BY <1>1, <1>2, <1>6, <1>7, <1>8 DEF Touches, RemoveDir, ServerInv, Cleaned, Place, Calling, At, e, Unlocked
<1>16. sv'[s].pc # "ended" /\ (dir[e].owner # Nobody => dir'[e].owner = dir[e].owner /\ (dir'[e].there => dir[e].there))
  BY <1>1, <1>7, <1>8 DEF RemoveDir, e, Unlocked
<1>17. dir[e].lock # s /\ dir[e].lock # Nobody /\ Dead(dir[e].owner) => dir'[e].lock = dir[e].lock
  BY <1>1, <1>2, <1>3, <1>8 DEF RemoveDir, ServerInv, Place, Calling, At, Dead, e, Unlocked
<1>18. ~Using(s, e) => dir'[e].files = dir[e].files /\ dir'[e].record = dir[e].record
  BY <1>1, <1>8 DEF RemoveDir, Using, e, Unlocked
<1>19. dir'[e].files # {} => dir'[e].record = "written" \/ e \in named
  <2>1. dir[e].files # {} => dir[e].record = "written" \/ e \in named
    BY <1>2 DEF IInv, DirInv
  <2> QED
    BY <2>1, <1>1, <1>8 DEF RemoveDir, ServerInv, Tagged, Purpose, At, e, Unlocked
<1> QED
  BY <1>2, <1>3, <1>6, <1>8, <1>11, <1>12, <1>13, <1>14, <1>15, <1>16, <1>17, <1>18, <1>19, DirStep DEF ServerInv

LEMMA RemoveDirKeeps == ASSUME IInv, NEW s \in Server, RemoveDir(s) PROVE IInv'
BY RemoveDirOfRun, RemoveDirOfSweep

LEMMA UnlinkRecordOfNamed == ASSUME IInv, NEW s \in Server, UnlinkRecord(s), sv[s].dir # Nobody /\ ~sv[s].busy PROVE IInv'
<1> DEFINE e == sv[s].dir
<1> DEFINE x == [sv[s] EXCEPT !.pc = "idle", !.dir = Nobody, !.to = "sweep", !.busy = FALSE, !.gaveUp = FALSE]
<1> DEFINE f == [dir[e] EXCEPT !.record = "none"]
<1>1. /\ sv[s] \in ServerState /\ ServerInv(s) /\ s # Nobody /\ Nobody \notin Dir
      /\ sv[s].dir \in Dir \cup {Nobody} /\ dir \in [Dir -> DirState]
  BY CopiesAssumption DEF IInv, Types, ServerState, DirState
<1>2. e \in Dir /\ dir[e] \in DirState
  BY <1>1 DEF UnlinkRecord, ServerInv, Place, Purpose, Calling, Sweeping, At, Idle
<1>3. x \in ServerState /\ sv' = [sv EXCEPT ![s] = x] /\ ~Dead(s)
  BY <1>1, <1>2 DEF UnlinkRecord, ServerState, IInv, Types, Dead, Idle
<1>4. f \in DirState
  BY <1>1, <1>2 DEF DirState, File, Idle
<1>5. dir' \in {[dir EXCEPT ![e] = f], [Unlocked(s) EXCEPT ![e] = f]} /\ proc' = proc /\ brief' = brief /\ named' = named
  BY <1>1, <1>2 DEF UnlinkRecord, DirState, Idle
<1> HIDE DEF e, x, f
<1>6. Touches(s, e) /\ dir'[e] = f /\ sv'[s] = x
  BY <1>2, <1>3, <1>4, <1>5, DirFacts
<1>7. /\ sv'[s].pc = "idle" /\ sv'[s].dir = Nobody /\ sv'[s].busy = FALSE
      /\ sv'[s].to = "sweep" /\ sv'[s].gaveUp = FALSE /\ sv'[s].how = sv[s].how
  BY <1>1, <1>6 DEF ServerState, x
<1>8. /\ dir'[e].there = dir[e].there /\ dir'[e].owner = dir[e].owner /\ dir'[e].record = "none"
      /\ dir'[e].lock = dir[e].lock /\ dir'[e].files = dir[e].files
  BY <1>2, <1>6 DEF DirState, f
<1>9. \A t \in Server : sv[t].pc = "ended" => sv'[t].pc = "ended"
  BY <1>3, <1>6 DEF Touches, Dead
<1>10. dir[e].owner \in Server \cup {Nobody}
  BY <1>2 DEF DirState
<1>11. Place(s)'
  BY <1>1, <1>2, <1>3, <1>6, <1>7, <1>8, <1>9, <1>10 DEF Touches, UnlinkRecord, ServerInv, Place, Purpose, Calling, Sweeping, At, Dead, e, Idle
<1>12. Purpose(s)'
  BY <1>1, <1>7 DEF UnlinkRecord, ServerInv, Purpose, Idle
<1>13. Tagged(s)'
  BY <1>1, <1>2, <1>6, <1>7, <1>8 DEF Touches, UnlinkRecord, ServerInv, Tagged, Place, Purpose, Calling, Sweeping, At, e, Idle
<1>14. Settled(s)'
  BY <1>1, <1>2, <1>6, <1>7 DEF Touches, UnlinkRecord, ServerInv, Settled, Purpose, Done, At, e, Idle
<1>15. Cleaned(s)'
  BY <1>1, <1>2, <1>6, <1>7, <1>8 DEF Touches, UnlinkRecord, ServerInv, Cleaned, Place, Calling, At, e, Idle
<1>16. sv'[s].pc # "ended" /\ (dir[e].owner # Nobody => dir'[e].owner = dir[e].owner /\ (dir'[e].there => dir[e].there))
  BY <1>1, <1>7, <1>8 DEF UnlinkRecord, e, Idle
<1>17. dir[e].lock # s /\ dir[e].lock # Nobody /\ Dead(dir[e].owner) => dir'[e].lock = dir[e].lock
  BY <1>1, <1>2, <1>3, <1>8 DEF UnlinkRecord, ServerInv, Place, Calling, At, Dead, e, Idle
<1>18. ~Using(s, e) => dir'[e].files = dir[e].files /\ dir'[e].record = dir[e].record
  BY <1>1, <1>8 DEF UnlinkRecord, Using, e, Idle
<1>19. dir'[e].files # {} => dir'[e].record = "written" \/ e \in named
  <2>1. dir[e].files # {} => dir[e].record = "written" \/ e \in named
    BY <1>2 DEF IInv, DirInv
  <2> QED
    BY <2>1, <1>1, <1>8 DEF UnlinkRecord, ServerInv, Tagged, Purpose, At, e, Idle
<1> QED
  BY <1>2, <1>3, <1>6, <1>8, <1>11, <1>12, <1>13, <1>14, <1>15, <1>16, <1>17, <1>18, <1>19, DirStep DEF ServerInv

LEMMA UnlinkRecordOfNone == ASSUME IInv, NEW s \in Server, UnlinkRecord(s), ~(sv[s].dir # Nobody /\ ~sv[s].busy) PROVE IInv'
<1> DEFINE x == [sv[s] EXCEPT !.pc = "idle", !.dir = Nobody, !.to = "sweep", !.busy = FALSE, !.gaveUp = FALSE]
<1>1. sv[s] \in ServerState /\ ServerInv(s) /\ s # Nobody /\ Nobody \notin Dir
      /\ sv[s].dir \in Dir \cup {Nobody}
  BY CopiesAssumption DEF IInv, Types, ServerState
<1>2. x \in ServerState /\ sv' = [sv EXCEPT ![s] = x] /\ ~Dead(s)
  BY <1>1 DEF UnlinkRecord, ServerState, IInv, Types, Dead, Idle
<1>3. dir' \in {dir, Unlocked(s)} /\ proc' = proc /\ brief' = brief /\ named' = named
  <2>1. dir' = [d \in Dir |-> dir[d]]
    BY <1>1 DEF UnlinkRecord
  <2>2. dir = [d \in Dir |-> dir[d]]
    BY DEF IInv, Types
  <2> QED
    BY <2>1, <2>2 DEF UnlinkRecord
<1>4. Quiet(s) /\ sv'[s] = x
  BY <1>2, <1>3, LocalFacts
<1>5. /\ sv'[s].pc = "idle" /\ sv'[s].dir = Nobody /\ sv'[s].busy = FALSE
      /\ sv'[s].to = "sweep" /\ sv'[s].gaveUp = FALSE /\ sv'[s].how = sv[s].how
  BY <1>1, <1>4 DEF ServerState
<1> HIDE DEF x
<1>6. Place(s)'
  BY <1>1, <1>2, <1>3, <1>4, <1>5, OwnerStaysDead DEF Quiet, UnlinkRecord, ServerInv, Place, Purpose, Calling, Sweeping, At, Dead, Idle
<1>7. Purpose(s)'
  BY <1>1, <1>5 DEF UnlinkRecord, ServerInv, Purpose, Idle
<1>8. Tagged(s)'
  BY <1>1, <1>4, <1>5 DEF Quiet, UnlinkRecord, ServerInv, Tagged, Place, Purpose, Calling, At, Idle
<1>9. Settled(s)'
  BY <1>1, <1>4, <1>5 DEF Quiet, UnlinkRecord, ServerInv, Settled, Done, At, Idle
<1>10. Cleaned(s)'
  BY <1>1, <1>4, <1>5 DEF Quiet, UnlinkRecord, ServerInv, Cleaned, Place, Calling, At, Idle
<1> QED
  BY <1>2, <1>4, <1>5, <1>6, <1>7, <1>8, <1>9, <1>10, LocalStep DEF ServerInv, Dead, UnlinkRecord, Idle

LEMMA UnlinkRecordKeeps == ASSUME IInv, NEW s \in Server, UnlinkRecord(s) PROVE IInv'
BY UnlinkRecordOfNamed, UnlinkRecordOfNone

(***************************************************************************)
(* The reply, the briefs and the processes                                 *)
(***************************************************************************)
\* What the parts of the invariant say of a server that is at work.
LEMMA AtWork ==
  ASSUME IInv, NEW s \in Server
  PROVE  /\ sv[s] \in ServerState /\ ServerInv(s) /\ s # Nobody /\ Nobody \notin Dir
         /\ Nobody \notin Brief /\ sv[s].dir \in Dir \cup {Nobody}
BY CopiesAssumption DEF IInv, Types, ServerState

LEMMA WriteReplyKeeps == ASSUME IInv, NEW s \in Server, WriteReply(s) PROVE IInv'
<1>1. sv[s] \in ServerState /\ ServerInv(s) /\ s # Nobody /\ Nobody \notin Dir /\ sv[s].dir \in Dir \cup {Nobody}
  BY AtWork
<1>2. /\ sv[s].pc = "reply" /\ sv' = [sv EXCEPT ![s].pc = "flushed"]
      /\ dir' = dir /\ proc' = proc /\ brief' = brief
  BY DEF WriteReply
<1>3. sv'[s] = [sv[s] EXCEPT !.pc = "flushed"] /\ \A t \in Server : t # s => sv'[t] = sv[t]
  BY <1>2 DEF IInv, Types
<1>4. named \subseteq named' /\ named' \subseteq Dir
  BY <1>1 DEF WriteReply, IInv, Types
<1>5. Types'
  <2>1. [sv[s] EXCEPT !.pc = "flushed"] \in ServerState
    BY <1>1 DEF ServerState
  <2>2. sv' \in [Server -> ServerState]
    BY <2>1, <1>2 DEF IInv, Types
  <2> QED
    BY <2>2, <1>2, <1>4 DEF IInv, Types
<1>6. /\ sv'[s].pc = "flushed" /\ sv'[s].dir = sv[s].dir /\ sv'[s].busy = sv[s].busy
      /\ sv'[s].to = sv[s].to /\ sv'[s].how = sv[s].how
  BY <1>1, <1>3 DEF ServerState
<1>7. Effect(s)
  <2>1. \A d \in Dir : Done(d)' <=> Done(d)
    BY <1>2, DoneSame
  <2> QED
    BY <2>1, <1>2, <1>3, <1>4, <1>6 DEF Effect, Dead
<1>8. ServerInv(s)'
  <2>1. Place(s)'
    BY <1>1, <1>2, <1>6 DEF ServerInv, Place, Calling, Sweeping, At
  <2>2. Purpose(s)' /\ Settled(s)' /\ Cleaned(s)'
    BY <1>6 DEF Purpose, Settled, Cleaned
  <2>3. Tagged(s)'
    BY <1>6 DEF WriteReply, Tagged, At
  <2> QED
    BY <2>1, <2>2, <2>3 DEF ServerInv
<1>9. OnDisk'
  BY <1>2, <1>4 DEF OnDisk, IInv, DirInv
<1>10. \A p \in Proc : Supervised(p)'
  BY <1>2, <1>7, SupervisedSame DEF Dead
<1> QED
  BY <1>5, <1>7, <1>8, <1>9, <1>10, StepOfServer

\* A server's steps that change briefs and workers only.
LEMMA BriefStep ==
  ASSUME IInv, NEW s \in Server, ~Dead(s), Types', sv' = sv, dir' = dir, named' = named,
         \A d \in Dir : Done(d) => Done(d)',
         \A d \in Dir : Done(d) => \A p \in Proc : proc'[p].dir = d => proc[p].dir = d,
         \A p \in Proc : Supervised(p)'
  PROVE  IInv'
<1>1. Effect(s)
  BY DEF Effect, Dead
<1>2. OnDisk'
  BY DEF OnDisk, IInv, DirInv
<1>3. ServerInv(s) /\ sv[s].dir \in Dir \cup {Nobody}
  BY AtWork
<1>4. Place(s)' /\ Purpose(s)' /\ Tagged(s)' /\ Cleaned(s)'
  BY <1>3 DEF ServerInv, Place, Calling, Sweeping, At, Dead, Purpose, Tagged, Cleaned
<1>5. Settled(s)'
  <2>1. sv[s].pc \in {"made", "tagged", "copying", "list", "scan", "tidy", "remove"} => sv[s].dir \in Dir
    BY <1>3 DEF ServerInv, Place, Calling, Sweeping, At
  <2>2. ASSUME NEW d \in Dir, d = sv[s].dir, Done(d), sv[s].pc \in {"made", "tagged", "copying", "list", "scan", "tidy", "remove"}
        PROVE  Done(At(s))'
    <3>1. Done(d)'
      BY <2>2
    <3> QED
      BY <3>1, <2>2 DEF Done, At
  <2>3. sv[s].pc \in {"made", "tagged", "copying"} => \A p \in Proc : proc'[p].dir # sv[s].dir
    BY <2>1, <1>3 DEF ServerInv, Settled, At
  <2> QED
    BY <2>1, <2>2, <2>3, <1>3 DEF ServerInv, Settled, At
<1> QED
  BY <1>1, <1>2, <1>3, <1>4, <1>5, StepOfServer DEF ServerInv

\* A worker of a server that is up: its brief is running, and it alone runs it.
LEMMA WorkerRuns ==
  ASSUME IInv, NEW p \in Proc, Live(p), proc[p].brief # Nobody, ~Dead(dir[proc[p].dir].owner)
  PROVE  /\ brief[proc[p].dir][proc[p].brief] = "running"
         /\ \A q \in Proc : Live(q) /\ proc[q].dir = proc[p].dir /\ proc[q].brief = proc[p].brief => q = p
BY DEF IInv, Supervised

LEMMA TakeBriefKeeps == ASSUME IInv, NEW s \in Server, TakeBrief(s) PROVE IInv'
<1>1. PICK d \in Owned(s), b \in Brief :
        /\ brief[d][b] = "queued"
        /\ brief' = [brief EXCEPT ![d][b] = IF sv[s].told THEN "done" ELSE "starting"]
  BY DEF TakeBrief
<1>2. /\ sv' = sv /\ dir' = dir /\ proc' = proc /\ named' = named /\ ~Dead(s) /\ d \in Dir
      /\ brief \in [Dir -> [Brief -> {"queued", "starting", "running"} \cup Over]]
  BY DEF TakeBrief, Dead, Owned, IInv, Types
<1>3. /\ brief' \in [Dir -> [Brief -> {"queued", "starting", "running"} \cup Over]]
      /\ \A e \in Dir, c \in Brief : e # d \/ c # b => brief'[e][c] = brief[e][c]
  BY <1>1, <1>2 DEF Over
<1>4. Types'
  BY <1>2, <1>3 DEF IInv, Types
<1>5. \A e \in Dir : Done(e) => Done(e)'
  BY <1>1, <1>3 DEF Done, Over
<1>6. ASSUME NEW p \in Proc PROVE Supervised(p)'
  BY <1>1, <1>2, <1>3, WorkerRuns DEF Supervised, Live, Dead, IInv, Types
<1> QED
  BY <1>2, <1>4, <1>5, <1>6, BriefStep

LEMMA StartWorkerFails ==
  ASSUME IInv, NEW s \in Server, Running(s), NEW d \in Owned(s), NEW b \in Brief, brief[d][b] = "starting",
         brief' = [brief EXCEPT ![d][b] = "done"], proc' = proc, dir' = dir, sv' = sv, named' = named
  PROVE  IInv'
<1>1. /\ ~Dead(s) /\ d \in Dir
      /\ brief \in [Dir -> [Brief -> {"queued", "starting", "running"} \cup Over]]
  BY DEF Running, Dead, Owned, IInv, Types
<1>2. /\ brief' \in [Dir -> [Brief -> {"queued", "starting", "running"} \cup Over]]
      /\ \A e \in Dir, c \in Brief : e # d \/ c # b => brief'[e][c] = brief[e][c]
  BY <1>1 DEF Over
<1>3. Types'
  BY <1>2 DEF IInv, Types
<1>4. \A e \in Dir : Done(e) => Done(e)'
  BY <1>1, <1>2 DEF Done, Over
<1>5. ASSUME NEW p \in Proc PROVE Supervised(p)'
  BY <1>1, <1>2, WorkerRuns DEF Supervised, Live, Dead, IInv, Types
<1> QED
  BY <1>1, <1>3, <1>4, <1>5, BriefStep

LEMMA StartWorkerStarts ==
  ASSUME IInv, NEW s \in Server, Running(s), NEW d \in Owned(s), NEW b \in Brief, brief[d][b] = "starting",
         NEW q \in Proc, proc[q].st = "free", brief' = [brief EXCEPT ![d][b] = "running"],
         proc' = [proc EXCEPT ![q] = [st |-> "live", dir |-> d, brief |-> b]],
         dir' = dir, sv' = sv, named' = named
  PROVE  IInv'
<1>1. /\ ~Dead(s) /\ d \in Dir /\ dir[d].owner = s
      /\ brief \in [Dir -> [Brief -> {"queued", "starting", "running"} \cup Over]]
      /\ proc \in [Proc -> [st : {"free", "live", "gone"}, dir : Dir \cup {Nobody}, brief : Brief \cup {Nobody}]]
  BY DEF Running, Dead, Owned, IInv, Types
<1>2. /\ brief' \in [Dir -> [Brief -> {"queued", "starting", "running"} \cup Over]]
      /\ \A e \in Dir, c \in Brief : e # d \/ c # b => brief'[e][c] = brief[e][c]
      /\ brief'[d][b] = "running"
  BY <1>1 DEF Over
<1>3. /\ proc' \in [Proc -> [st : {"free", "live", "gone"}, dir : Dir \cup {Nobody}, brief : Brief \cup {Nobody}]]
      /\ proc'[q].st = "live" /\ proc'[q].dir = d /\ proc'[q].brief = b
      /\ \A p \in Proc : p # q => proc'[p] = proc[p]
  BY <1>1
<1>4. Types'
  BY <1>2, <1>3 DEF IInv, Types
<1>5. ~Done(d)
  BY DEF Done, Over
<1>6. \A e \in Dir : Done(e) => Done(e)'
  BY <1>2, <1>5 DEF Done
<1>7. \A e \in Dir : Done(e) => \A p \in Proc : proc'[p].dir = e => proc[p].dir = e
  BY <1>3, <1>5
<1>8. \A p \in Proc : ~(Live(p) /\ proc[p].dir = d /\ proc[p].brief = b)
  <2> SUFFICES ASSUME NEW p \in Proc, Live(p), proc[p].dir = d, proc[p].brief = b PROVE FALSE
    OBVIOUS
  <2>1. proc[p].brief # Nobody /\ ~Dead(dir[proc[p].dir].owner)
    BY <1>1, AtWork
  <2> QED
    BY <2>1, WorkerRuns
<1>9. ASSUME NEW p \in Proc PROVE Supervised(p)'
  <2>1. CASE p = q
    BY <2>1, <1>1, <1>2, <1>3, <1>8 DEF Supervised, Live, Dead
  <2>2. CASE p # q
    <3>1. Supervised(p) /\ proc'[p] = proc[p]
      BY <2>2, <1>3 DEF IInv
    <3>2. ASSUME Live(p), proc[p].brief # Nobody, ~Dead(dir[proc[p].dir].owner)
          PROVE  /\ brief'[proc[p].dir][proc[p].brief] = "running"
                 /\ \A r \in Proc : proc'[r].st = "live" /\ proc'[r].dir = proc[p].dir /\ proc'[r].brief = proc[p].brief => r = p
      <4>1. proc[p].dir # d \/ proc[p].brief # b
        BY <1>8, <3>2
      <4>2. proc[p].dir \in Dir /\ proc[p].brief \in Brief
        BY <3>1, <3>2, <1>1 DEF Supervised
      <4> QED
        BY <4>1, <4>2, <3>2, <1>2, <1>3, WorkerRuns DEF Live
    <3> QED
      BY <3>1, <3>2 DEF Supervised, Live, Dead
  <2> QED
    BY <2>1, <2>2
<1> QED
  BY <1>1, <1>4, <1>6, <1>7, <1>9, BriefStep

LEMMA StartWorkerKeeps == ASSUME IInv, NEW s \in Server, StartWorker(s) PROVE IInv'
<1>1. Running(s) /\ dir' = dir /\ sv' = sv /\ named' = named
  BY DEF StartWorker
<1>2. PICK d \in Owned(s), b \in Brief :
        /\ brief[d][b] = "starting"
        /\ \/ brief' = [brief EXCEPT ![d][b] = "done"] /\ proc' = proc
           \/ \E q \in Proc : /\ proc[q].st = "free" /\ brief' = [brief EXCEPT ![d][b] = "running"]
                             /\ proc' = [proc EXCEPT ![q] = [st |-> "live", dir |-> d, brief |-> b]]
  BY DEF StartWorker
<1>3. CASE brief' = [brief EXCEPT ![d][b] = "done"] /\ proc' = proc
  BY <1>1, <1>2, <1>3, StartWorkerFails
<1>4. CASE \E q \in Proc : /\ proc[q].st = "free" /\ brief' = [brief EXCEPT ![d][b] = "running"]
                          /\ proc' = [proc EXCEPT ![q] = [st |-> "live", dir |-> d, brief |-> b]]
  BY <1>1, <1>2, <1>4, StartWorkerStarts
<1> QED
  BY <1>2, <1>3, <1>4

LEMMA WorkerEndsKeeps == ASSUME IInv, NEW s \in Server, WorkerEnds(s) PROVE IInv'
<1>1. PICK d \in Owned(s) : \E p \in Workers(d) :
        proc' = [proc EXCEPT ![p] = Gone(p)] /\ brief' = [brief EXCEPT ![d][proc[p].brief] = "done"]
  BY DEF WorkerEnds
<1>2. PICK p \in Workers(d) :
        proc' = [proc EXCEPT ![p] = Gone(p)] /\ brief' = [brief EXCEPT ![d][proc[p].brief] = "done"]
  BY <1>1
<1>3. /\ ~Dead(s) /\ d \in Dir /\ dir[d].owner = s /\ dir' = dir /\ sv' = sv /\ named' = named
      /\ brief \in [Dir -> [Brief -> {"queued", "starting", "running"} \cup Over]]
      /\ proc \in [Proc -> [st : {"free", "live", "gone"}, dir : Dir \cup {Nobody}, brief : Brief \cup {Nobody}]]
  BY DEF WorkerEnds, Running, Dead, Owned, IInv, Types
<1>4. p \in Proc /\ Live(p) /\ proc[p].dir = d /\ proc[p].brief # Nobody /\ proc[p].brief \in Brief
  BY <1>3 DEF Workers, Marked
<1> DEFINE b == proc[p].brief
<1>5. /\ brief' \in [Dir -> [Brief -> {"queued", "starting", "running"} \cup Over]]
      /\ \A e \in Dir, c \in Brief : e # d \/ c # b => brief'[e][c] = brief[e][c]
      /\ brief'[d][b] = "done"
  BY <1>2, <1>3, <1>4 DEF Over
<1>6. /\ proc' \in [Proc -> [st : {"free", "live", "gone"}, dir : Dir \cup {Nobody}, brief : Brief \cup {Nobody}]]
      /\ proc'[p].st = "gone" /\ proc'[p].dir = d
      /\ \A r \in Proc : r # p => proc'[r] = proc[r]
  BY <1>2, <1>3, <1>4 DEF Gone
<1>7. Types'
  BY <1>3, <1>5, <1>6 DEF IInv, Types
<1>8. \A e \in Dir : Done(e) => Done(e)'
  BY <1>5 DEF Done, Over
<1>9. \A e \in Dir : Done(e) => \A r \in Proc : proc'[r].dir = e => proc[r].dir = e
  BY <1>4, <1>6
<1>10. ASSUME NEW r \in Proc PROVE Supervised(r)'
  <2>1. CASE r = p
    BY <2>1, <1>6 DEF Supervised, Live
  <2>2. CASE r # p
    <3>1. Supervised(r) /\ proc'[r] = proc[r]
      BY <2>2, <1>6 DEF IInv
    <3>2. ASSUME Live(r), proc[r].brief # Nobody, ~Dead(dir[proc[r].dir].owner)
          PROVE  /\ brief'[proc[r].dir][proc[r].brief] = "running"
                 /\ \A q \in Proc : proc'[q].st = "live" /\ proc'[q].dir = proc[r].dir /\ proc'[q].brief = proc[r].brief => q = r
      <4>1. proc[r].dir # d \/ proc[r].brief # b
        BY <3>2, <2>2, <1>4, WorkerRuns
      <4>2. proc[r].dir \in Dir /\ proc[r].brief \in Brief
        BY <3>1, <3>2, <1>3 DEF Supervised
      <4>3. \A q \in Proc : proc'[q].st = "live" => proc'[q] = proc[q]
        BY <1>6
      <4> QED
        BY <4>1, <4>2, <4>3, <3>2, <1>5, WorkerRuns DEF Live
    <3> QED
      BY <3>1, <3>2, <1>3 DEF Supervised, Live, Dead
  <2> QED
    BY <2>1, <2>2
<1> QED
  BY <1>3, <1>7, <1>8, <1>9, <1>10, BriefStep

\* A server's new state.
LEMMA NewState ==
  ASSUME IInv, NEW s \in Server, NEW x \in ServerState, sv' = [sv EXCEPT ![s] = x]
  PROVE  sv' \in [Server -> ServerState] /\ sv'[s] = x /\ \A t \in Server : t # s => sv'[t] = sv[t]
BY DEF IInv, Types

\* Processes that end disturb no other part of the invariant.
LEMMA ProcessesEnd ==
  ASSUME IInv, NEW gone \in SUBSET Proc,
         proc' = [p \in Proc |-> IF p \in gone THEN Gone(p) ELSE proc[p]]
  PROVE  /\ proc' \in [Proc -> [st : {"free", "live", "gone"}, dir : Dir \cup {Nobody}, brief : Brief \cup {Nobody}]]
         /\ \A p \in Proc : proc'[p].dir = proc[p].dir
         /\ \A p \in Proc : proc'[p].st = "live" => p \notin gone /\ proc'[p] = proc[p]
<1>1. proc \in [Proc -> [st : {"free", "live", "gone"}, dir : Dir \cup {Nobody}, brief : Brief \cup {Nobody}]]
  BY DEF IInv, Types
<1>2. \A p \in Proc : proc[p] \in [st : {"free", "live", "gone"}, dir : Dir \cup {Nobody}, brief : Brief \cup {Nobody}]
  BY <1>1
<1>3. \A p \in Proc : /\ Gone(p) \in [st : {"free", "live", "gone"}, dir : Dir \cup {Nobody}, brief : Brief \cup {Nobody}]
                      /\ Gone(p).st = "gone" /\ Gone(p).dir = proc[p].dir
  BY <1>2 DEF Gone
<1> QED
  BY <1>2, <1>3

LEMMA StopMarkedKeeps == ASSUME IInv, NEW s \in Server, StopMarked(s) PROVE IInv'
<1> DEFINE x == [sv[s] EXCEPT !.pc = "list", !.to = "sweep"]
<1>1. /\ sv[s] \in ServerState /\ ServerInv(s) /\ s # Nobody /\ Nobody \notin Dir
      /\ sv[s].dir \in Dir \cup {Nobody} /\ sv[s].pc = "stopMarked" /\ ~Dead(s)
  BY AtWork DEF StopMarked, Dead
<1>2. PICK gone \in SUBSET Marked(sv[s].dir) : proc' = [p \in Proc |-> IF p \in gone THEN Gone(p) ELSE proc[p]]
  BY DEF StopMarked
<1>3. x \in ServerState /\ sv' = [sv EXCEPT ![s] = x] /\ dir' = dir /\ brief' = brief /\ named' = named
  BY <1>1 DEF StopMarked, ServerState, IInv, Types
<1>4. sv' \in [Server -> ServerState] /\ sv'[s] = x /\ \A t \in Server : t # s => sv'[t] = sv[t]
  BY <1>3, NewState
<1>5. /\ sv'[s].pc = "list" /\ sv'[s].dir = sv[s].dir /\ sv'[s].to = "sweep" /\ sv'[s].how = sv[s].how
  BY <1>1, <1>4 DEF ServerState
<1>6. /\ proc' \in [Proc -> [st : {"free", "live", "gone"}, dir : Dir \cup {Nobody}, brief : Brief \cup {Nobody}]]
      /\ \A p \in Proc : proc'[p].dir = proc[p].dir
      /\ \A p \in Proc : proc'[p].st = "live" => proc'[p] = proc[p]
  <2>1. gone \in SUBSET Proc
    BY DEF Marked
  <2> QED
    BY <1>2, <2>1, ProcessesEnd
<1>7. Types'
  BY <1>3, <1>4, <1>6 DEF IInv, Types
<1>8. Effect(s)
  <2>1. \A d \in Dir : Done(d)' <=> Done(d)
    BY <1>3, DoneSame
  <2> QED
    BY <2>1, <1>1, <1>3, <1>4, <1>5, <1>6 DEF Effect
<1>9. ServerInv(s)'
  <2>1. At(s) \in Dir /\ dir[At(s)].owner # Nobody /\ Dead(dir[At(s)].owner) /\ dir[At(s)].lock = s /\ dir[At(s)].owner \in Server
    BY <1>1 DEF ServerInv, Place, Sweeping, IInv, Types
  <2>2. DirInv(At(s))
    BY <2>1 DEF IInv
  <2>3. Place(s)'
    BY <2>1, <1>1, <1>3, <1>4, <1>5 DEF Place, Calling, Sweeping, At, Dead
  <2>4. Settled(s)'
    BY <2>1, <2>2, <1>3, <1>5 DEF Settled, DirInv, Done, At
  <2>5. Purpose(s)' /\ Tagged(s)' /\ Cleaned(s)'
    BY <1>5 DEF Purpose, Tagged, Cleaned
  <2> QED
    BY <2>3, <2>4, <2>5 DEF ServerInv
<1>10. OnDisk'
  BY <1>3 DEF OnDisk, IInv, DirInv
<1>11. ASSUME NEW p \in Proc PROVE Supervised(p)'
  <2>1. Supervised(p)
    BY DEF IInv
  <2>2. ASSUME Live(p), proc[p].brief # Nobody
        PROVE  Dead(dir[proc[p].dir].owner) => sv'[dir[proc[p].dir].owner].pc = "ended"
    <3>1. proc[p].dir \in Dir
      BY <2>1, <2>2 DEF Supervised
    <3>2. DirInv(proc[p].dir) /\ dir[proc[p].dir].owner \in Server \cup {Nobody}
      BY <3>1 DEF IInv, Types
    <3> QED
      BY <3>1, <3>2, <1>8 DEF DirInv, Effect, Dead
  <2> QED
    BY <2>1, <2>2, <1>3, <1>6 DEF Supervised, Live, Dead
<1> QED
  BY <1>7, <1>8, <1>9, <1>10, <1>11, StepOfServer

LEMMA SubmitKeeps == ASSUME IInv, NEW s \in Server, Submit(s) PROVE IInv'
<1> DEFINE x == [sv[s] EXCEPT !.pc = "running"]
<1> DEFINE e == sv[s].dir
<1>1. /\ sv[s] \in ServerState /\ ServerInv(s) /\ s # Nobody /\ sv[s].pc = "copying" /\ ~Dead(s)
  BY AtWork DEF Submit, Dead
<1>2. e \in Dir /\ dir[e].owner = s /\ Done(e) /\ dir[e].record = "written" /\ Using(s, e)
  BY <1>1 DEF ServerInv, Place, Calling, Settled, Tagged, At, Using
<1>3. x \in ServerState /\ sv' = [sv EXCEPT ![s] = x] /\ dir' = dir /\ proc' = proc /\ named' = named
  BY <1>1 DEF Submit, ServerState, IInv, Types
<1>4. sv' \in [Server -> ServerState] /\ sv'[s] = x /\ \A t \in Server : t # s => sv'[t] = sv[t]
  BY <1>3, NewState
<1>5. /\ sv'[s].pc = "running" /\ sv'[s].dir = e /\ sv'[s].to = sv[s].to /\ sv'[s].how = sv[s].how
  BY <1>1, <1>4 DEF ServerState
<1>6. brief' \in [Dir -> [Brief -> {"queued", "starting", "running"} \cup Over]] /\ \A d \in Dir : d # e => brief'[d] = brief[d]
  BY <1>2 DEF Submit, IInv, Types
<1>7. Types'
  BY <1>3, <1>4, <1>6 DEF IInv, Types
<1>8. Effect(s)
  <2>1. \A d \in Dir : d # e => (Done(d)' <=> Done(d))
    BY <1>6 DEF Done
  <2> QED
    BY <2>1, <1>1, <1>2, <1>3, <1>4, <1>5 DEF Effect
<1>9. ServerInv(s)'
  BY <1>1, <1>2, <1>3, <1>5 DEF ServerInv, Place, Purpose, Tagged, Settled, Cleaned, Calling, Sweeping, At
<1>10. OnDisk'
  BY <1>3 DEF OnDisk, IInv, DirInv
<1>11. ASSUME NEW p \in Proc PROVE Supervised(p)'
  <2>1. Supervised(p) /\ brief \in [Dir -> [Brief -> {"queued", "starting", "running"} \cup Over]]
      /\ proc \in [Proc -> [st : {"free", "live", "gone"}, dir : Dir \cup {Nobody}, brief : Brief \cup {Nobody}]]
    BY DEF IInv, Types
  <2>2. ASSUME Live(p), proc[p].brief # Nobody
        PROVE  /\ proc[p].dir \in Dir /\ proc[p].dir # e
               /\ Dead(dir[proc[p].dir].owner) => sv'[dir[proc[p].dir].owner].pc = "ended"
    <3>1. proc[p].dir \in Dir /\ proc[p].brief \in Brief
      BY <2>1, <2>2 DEF Supervised
    <3>2. DirInv(proc[p].dir) /\ dir[proc[p].dir].owner \in Server \cup {Nobody}
      BY <3>1 DEF IInv, Types
    <3>3. proc[p].dir # e
      BY <2>2, <3>1, <1>1, <1>2, WorkerRuns DEF Done, Over
    <3> QED
      BY <3>1, <3>2, <3>3, <1>8 DEF DirInv, Effect, Dead
  <2> QED
    BY <2>1, <2>2, <1>3, <1>6 DEF Supervised, Live, Dead
<1> QED
  BY <1>7, <1>8, <1>9, <1>10, <1>11, StepOfServer

LEMMA CancelQueuedKeeps == ASSUME IInv, NEW s \in Server, CancelQueued(s) PROVE IInv'
<1> DEFINE x == [sv[s] EXCEPT !.pc = "stopping", !.to = "cleanup"]
<1> DEFINE e == sv[s].dir
<1>1. /\ sv[s] \in ServerState /\ ServerInv(s) /\ s # Nobody /\ sv[s].pc = "interrupted" /\ ~Dead(s)
  BY AtWork DEF CancelQueued, Dead
<1>2. e \in Dir /\ dir[e].owner = s /\ Using(s, e)
  BY <1>1 DEF ServerInv, Place, Calling, At, Using
<1>3. x \in ServerState /\ sv' = [sv EXCEPT ![s] = x] /\ dir' = dir /\ proc' = proc /\ named' = named
  BY <1>1 DEF CancelQueued, ServerState, IInv, Types
<1>4. sv' \in [Server -> ServerState] /\ sv'[s] = x /\ \A t \in Server : t # s => sv'[t] = sv[t]
  BY <1>3, NewState
<1>5. /\ sv'[s].pc = "stopping" /\ sv'[s].dir = e /\ sv'[s].to = "cleanup" /\ sv'[s].how = sv[s].how
  BY <1>1, <1>4 DEF ServerState
<1>6. /\ brief' \in [Dir -> [Brief -> {"queued", "starting", "running"} \cup Over]]
      /\ \A d \in Dir, b \in Brief : brief'[d][b] = brief[d][b] \/ (brief[d][b] = "queued" /\ brief'[d][b] = "cancelled")
  BY <1>2 DEF CancelQueued, IInv, Types, Over
<1>7. Types'
  BY <1>3, <1>4, <1>6 DEF IInv, Types
<1>8. Effect(s)
  <2>1. \A d \in Dir : Done(d) => Done(d)'
    BY <1>6 DEF Done, Over
  <2> QED
    BY <2>1, <1>1, <1>2, <1>3, <1>4, <1>5 DEF Effect
<1>9. ServerInv(s)'
  BY <1>1, <1>2, <1>3, <1>5 DEF ServerInv, Place, Purpose, Tagged, Settled, Cleaned, Calling, Sweeping, At
<1>10. OnDisk'
  BY <1>3 DEF OnDisk, IInv, DirInv
<1>11. ASSUME NEW p \in Proc PROVE Supervised(p)'
  <2>1. Supervised(p) /\ brief \in [Dir -> [Brief -> {"queued", "starting", "running"} \cup Over]]
      /\ proc \in [Proc -> [st : {"free", "live", "gone"}, dir : Dir \cup {Nobody}, brief : Brief \cup {Nobody}]]
    BY DEF IInv, Types
  <2>2. ASSUME Live(p), proc[p].brief # Nobody
        PROVE  /\ proc[p].dir \in Dir /\ proc[p].brief \in Brief
               /\ Dead(dir[proc[p].dir].owner) => sv'[dir[proc[p].dir].owner].pc = "ended"
    <3>1. proc[p].dir \in Dir /\ proc[p].brief \in Brief
      BY <2>1, <2>2 DEF Supervised
    <3>2. DirInv(proc[p].dir) /\ dir[proc[p].dir].owner \in Server \cup {Nobody}
      BY <3>1 DEF IInv, Types
    <3> QED
      BY <3>1, <3>2, <1>8 DEF DirInv, Effect, Dead
  <2> QED
    BY <2>1, <2>2, <1>3, <1>6 DEF Supervised, Live, Dead
<1> QED
  BY <1>7, <1>8, <1>9, <1>10, <1>11, StepOfServer

LEMMA KilledKeeps == ASSUME IInv, NEW s \in Server, Killed(s) PROVE IInv'
<1> DEFINE x == [sv[s] EXCEPT !.pc = "ended", !.how = "killed", !.list = {}, !.todo = {}]
<1>1. sv[s] \in ServerState /\ s # Nobody /\ ~Dead(s) /\ dir \in [Dir -> DirState]
  BY AtWork DEF Killed, Running, IInv, Types, DirState
<1>2. x \in ServerState /\ sv' = [sv EXCEPT ![s] = x] /\ dir' = Unlocked(s) /\ proc' = proc /\ named' = named
  <2>1. [Leaving(s, "killed") EXCEPT !.pc = "ended"] = x
    BY <1>1 DEF Leaving, ServerState
  <2>2. x \in ServerState
    BY <1>1 DEF ServerState
  <2> QED
    BY <2>1, <2>2 DEF Killed
<1>3. sv' \in [Server -> ServerState] /\ sv'[s] = x /\ \A t \in Server : t # s => sv'[t] = sv[t]
  BY <1>2, NewState
<1>4. sv'[s].pc = "ended" /\ sv'[s].how = "killed"
  BY <1>1, <1>3 DEF ServerState
<1>5. /\ dir' \in [Dir -> DirState]
      /\ \A d \in Dir : /\ dir'[d].owner = dir[d].owner /\ dir'[d].there = dir[d].there
                        /\ dir'[d].files = dir[d].files /\ dir'[d].record = dir[d].record
                        /\ dir[d].lock # s => dir'[d].lock = dir[d].lock
  BY <1>1, <1>2, UnlockedFacts
<1>6. /\ brief' \in [Dir -> [Brief -> {"queued", "starting", "running"} \cup Over]]
      /\ \A d \in Dir : IF dir[d].owner = s THEN \A b \in Brief : brief'[d][b] = "done" ELSE brief'[d] = brief[d]
  BY DEF Killed, Owned, IInv, Types, Over
<1>7. Types'
  BY <1>2, <1>3, <1>5, <1>6 DEF IInv, Types, DirState
<1>8. Effect(s)
  <2>1. \A d \in Dir : /\ Done(d) => Done(d)'
                       /\ dir[d].owner = s => Done(d)'
    BY <1>6 DEF Done, Over
  <2> QED
    BY <2>1, <1>1, <1>2, <1>3, <1>4, <1>5 DEF Effect
<1>9. ServerInv(s)'
  BY <1>4 DEF ServerInv, Place, Purpose, Tagged, Settled, Cleaned, Calling, Sweeping
<1>10. OnDisk'
  <2>1. \A d \in Dir : dir[d].files # {} => (dir[d].record = "written" \/ d \in named)
    BY DEF IInv, DirInv
  <2> QED
    BY <2>1, <1>2, <1>5 DEF OnDisk
<1>11. ASSUME NEW p \in Proc PROVE Supervised(p)'
  <2>1. Supervised(p)
    BY DEF IInv
  <2>2. ASSUME Live(p), proc[p].brief # Nobody
        PROVE  /\ proc[p].dir \in Dir /\ dir'[proc[p].dir].owner = dir[proc[p].dir].owner
               /\ Dead(dir[proc[p].dir].owner) => sv'[dir[proc[p].dir].owner].pc = "ended"
    <3>1. proc[p].dir \in Dir
      BY <2>1, <2>2 DEF Supervised
    <3>2. DirInv(proc[p].dir) /\ dir[proc[p].dir].owner \in Server \cup {Nobody}
      BY <3>1 DEF IInv, Types
    <3> QED
      BY <3>1, <3>2, <1>5, <1>8 DEF DirInv, Effect, Dead
  <2> QED
    BY <2>1, <2>2, <1>2, <1>4, <1>6 DEF Supervised, Live, Dead
<1> QED
  BY <1>7, <1>8, <1>9, <1>10, <1>11, StepOfServer

\* A step that changes processes only: nobody gets into a directory that
\* had none in it, and there is no new worker.
LEMMA ProcStep ==
  ASSUME IInv, Types', dir' = dir, brief' = brief, sv' = sv, named' = named,
         \A p \in Proc : \E q \in Proc : proc'[p].dir = proc[q].dir \/ proc'[p].dir = Nobody,
         \A p \in Proc : proc'[p].st = "live" /\ proc'[p].brief # Nobody => proc'[p] = proc[p]
  PROVE  IInv'
<1>1. \A d \in Dir : (\A p \in Proc : proc[p].dir # d) => (\A p \in Proc : proc'[p].dir # d)
  BY CopiesAssumption
<1>2. ASSUME NEW s \in Server PROVE ServerInv(s)'
  <2>1. ServerInv(s)
    BY DEF IInv
  <2>2. sv[s].pc \in {"made", "tagged", "copying"} => sv[s].dir \in Dir
    BY <2>1 DEF ServerInv, Place, Calling, At
  <2> QED
    BY <2>1, <2>2, <1>1 DEF ServerInv, Place, Purpose, Tagged, Settled, Cleaned, Calling, Sweeping, At, Dead, Done
<1>3. ASSUME NEW d \in Dir PROVE DirInv(d)'
  BY <1>1 DEF IInv, DirInv, Dead, Done
<1>4. ASSUME NEW p \in Proc PROVE Supervised(p)'
  BY DEF IInv, Supervised, Live, Dead
<1> QED
  BY <1>2, <1>3, <1>4 DEF IInv

LEMMA DetachKeeps == ASSUME IInv, NEW p \in Proc, Detach(p) PROVE IInv'
<1>1. PICK q \in Proc : proc' = [proc EXCEPT ![q] = [st |-> "live", dir |-> proc[p].dir, brief |-> Nobody]]
  BY DEF Detach
<1>2. dir' = dir /\ brief' = brief /\ sv' = sv /\ named' = named /\ proc \in [Proc -> [st : {"free", "live", "gone"}, dir : Dir \cup {Nobody}, brief : Brief \cup {Nobody}]]
  BY DEF Detach, IInv, Types
<1>3. proc[p].dir \in Dir \cup {Nobody}
  BY <1>2
<1>4. proc' \in [Proc -> [st : {"free", "live", "gone"}, dir : Dir \cup {Nobody}, brief : Brief \cup {Nobody}]]
  BY <1>1, <1>2, <1>3
<1>5. proc'[q].dir = proc[p].dir /\ proc'[q].brief = Nobody /\ \A r \in Proc : r # q => proc'[r] = proc[r]
  BY <1>1, <1>2
<1>6. Types'
  BY <1>2, <1>4 DEF IInv, Types
<1> QED
  BY <1>2, <1>5, <1>6, ProcStep

LEMMA ExitsKeeps == ASSUME IInv, NEW p \in Proc, Exits(p) PROVE IInv'
<1>1. dir' = dir /\ brief' = brief /\ sv' = sv /\ named' = named /\ proc \in [Proc -> [st : {"free", "live", "gone"}, dir : Dir \cup {Nobody}, brief : Brief \cup {Nobody}]]
  BY DEF Exits, IInv, Types
<1>2. proc' = [r \in Proc |-> IF r \in {p} THEN Gone(r) ELSE proc[r]]
  BY <1>1 DEF Exits
<1>3. /\ proc' \in [Proc -> [st : {"free", "live", "gone"}, dir : Dir \cup {Nobody}, brief : Brief \cup {Nobody}]]
      /\ \A r \in Proc : proc'[r].dir = proc[r].dir
      /\ \A r \in Proc : proc'[r].st = "live" => proc'[r] = proc[r]
  BY <1>2, ProcessesEnd
<1>4. Types'
  BY <1>1, <1>3 DEF IInv, Types
<1> QED
  BY <1>1, <1>3, <1>4, ProcStep

(***************************************************************************)
(* The invariant holds                                                     *)
(***************************************************************************)
LEMMA InitIInv == Init => IInv
<1> SUFFICES ASSUME Init PROVE IInv
  OBVIOUS
<1>1. \A d \in Dir : dir[d] = NoDir /\ Done(d)
  BY DEF Init, Done, Over
<1>2. \A p \in Proc : proc[p] = NoProc
  BY DEF Init
<1>3. \A s \in Server : sv[s] = NewServer
  BY DEF Init
<1>4. Types
  <2>1. NewServer \in ServerState
    BY DEF NewServer, ServerState
  <2> QED
    BY <2>1 DEF Init, Types, NoDir, NoProc, Over
<1>5. \A s \in Server : ServerInv(s)
  BY <1>3 DEF ServerInv, Place, Purpose, Tagged, Settled, Cleaned, Calling, Sweeping, At, NewServer
<1>6. \A d \in Dir : DirInv(d)
  BY <1>1, <1>2, CopiesAssumption DEF DirInv, NoDir, NoProc
<1>7. \A p \in Proc : Supervised(p)
  BY <1>2 DEF Supervised, Live, NoProc
<1> QED
  BY <1>4, <1>5, <1>6, <1>7 DEF IInv

LEMMA ServeKeeps == ASSUME IInv, NEW s \in Server, Serve(s) PROVE IInv'
BY OpenRecordKeeps, SweepDoneKeeps, LockOrphanKeeps, StopMarkedKeeps, ListProcessesKeeps, ReadProcessKeeps,
   ScanDoneKeeps, RemoveFileKeeps, RemoveRecordKeeps, RemoveDirKeeps, CreateRecordKeeps, WriteRecordKeeps,
   CopyTreeKeeps, SubmitKeeps, TakeBriefKeeps, StartWorkerKeeps, WorkerEndsKeeps, CollectKeeps, TidyKeeps,
   ReturnKeeps, WriteReplyKeeps, UnlinkRecordKeeps, CancelQueuedKeeps, StoppedKeeps, RaiseKeeps, ExitKeeps
   DEF Serve

LEMMA HappensKeeps == ASSUME IInv, NEW s \in Server, Happens(s) PROVE IInv'
BY StartKeeps, MakeDirKeeps, CopyFailsKeeps, ReplyFailsKeeps, StdinClosesKeeps, StopInRunKeeps,
   StopOutsideRunKeeps, StopHeldKeeps, RunRaisesKeeps, StopGivesUpKeeps, KilledKeeps DEF Happens

LEMMA NextIInv == IInv /\ [Next]_vars => IInv'
<1> SUFFICES ASSUME IInv, [Next]_vars PROVE IInv'
  OBVIOUS
<1>1. CASE \E s \in Server : Serve(s) \/ Happens(s)
  BY <1>1, ServeKeeps, HappensKeeps
<1>2. CASE \E p \in Proc : Detach(p) \/ Exits(p)
  BY <1>2, DetachKeeps, ExitsKeeps
<1>3. CASE UNCHANGED vars
  BY <1>3 DEF vars, IInv, Types, ServerInv, Place, Purpose, Tagged, Settled, Cleaned, Calling, Sweeping, At,
              Dead, Done, DirInv, Supervised, Live
<1> QED
  BY <1>1, <1>2, <1>3 DEF Next

LEMMA IInvHolds == Spec => []IInv
BY InitIInv, NextIInv, PTL DEF Spec

\* No two servers work on one directory, and only its owner does while the
\* owner's process is there (the flock of _tag and _orphan).
THEOREM OneUserTheorem == Spec => []OneUser
BY IInvHolds, OneUserHolds, PTL

\* What is left on disk is accounted for, by its record or by a reply, and a
\* stopped server's cleanup leaves nothing without a reason.
LEMMA AccountedFor == IInv => LeftAccounted
BY DEF IInv, DirInv, ServerInv, Cleaned, LeftAccounted, Dead, At

THEOREM LeftAccountedTheorem == Spec => []LeftAccounted
BY IInvHolds, AccountedFor, PTL

(***************************************************************************)
(* Nothing is deleted under a process that may write                       *)
(*                                                                         *)
(* Without late forks no process gets into a directory whose futures are   *)
(* over, so a scan that ends with nothing found is still true when the     *)
(* removal it allows begins.                                               *)
(***************************************************************************)
NoNewWriter == \A d \in Dir : Done(d) => Marked(d)' \subseteq Marked(d)

LEMMA ServerBringsNoWriter ==
  ASSUME IInv, NEW s \in Server, Serve(s) \/ Happens(s)
  PROVE  NoNewWriter
<1>1. ASSUME proc' = proc PROVE NoNewWriter
  BY <1>1 DEF NoNewWriter, Marked, Live
<1>2. ASSUME NEW gone \in SUBSET Proc, proc' = [p \in Proc |-> IF p \in gone THEN Gone(p) ELSE proc[p]]
      PROVE  NoNewWriter
  BY <1>2, ProcessesEnd DEF NoNewWriter, Marked, Live
<1>3. CASE StopMarked(s)
  BY <1>2, <1>3 DEF StopMarked, Marked
<1>4. CASE WorkerEnds(s)
  <2>1. PICK d \in Owned(s) : \E p \in Workers(d) : proc' = [proc EXCEPT ![p] = Gone(p)]
    BY <1>4 DEF WorkerEnds
  <2>2. PICK p \in Workers(d) : proc' = [proc EXCEPT ![p] = Gone(p)]
    BY <2>1
  <2>3. p \in Proc /\ proc' = [q \in Proc |-> IF q \in {p} THEN Gone(q) ELSE proc[q]]
    BY <2>2 DEF Workers, Marked, IInv, Types
  <2> QED
    BY <1>2, <2>3
<1>5. CASE StartWorker(s)
  <2>1. PICK d \in Owned(s), b \in Brief :
          /\ brief[d][b] = "starting"
          /\ \/ proc' = proc
             \/ \E q \in Proc : proc[q].st = "free" /\ proc' = [proc EXCEPT ![q] = [st |-> "live", dir |-> d, brief |-> b]]
    BY <1>5 DEF StartWorker
  <2>2. ~Done(d)
    BY <2>1 DEF Done, Over
  <2>3. CASE \E q \in Proc : proc[q].st = "free" /\ proc' = [proc EXCEPT ![q] = [st |-> "live", dir |-> d, brief |-> b]]
    <3>1. PICK q \in Proc : proc' = [proc EXCEPT ![q] = [st |-> "live", dir |-> d, brief |-> b]]
      BY <2>3
    <3>2. proc'[q].dir = d /\ \A p \in Proc : p # q => proc'[p] = proc[p]
      BY <3>1 DEF IInv, Types
    <3> QED
      BY <2>2, <3>2 DEF NoNewWriter, Marked, Live
  <2> QED
    BY <1>1, <2>1, <2>3
<1>6. CASE ~(StopMarked(s) \/ WorkerEnds(s) \/ StartWorker(s))
  <2>1. proc' = proc
    BY <1>6 DEF Serve, Happens, Start, OpenRecord, SweepDone, LockOrphan, ListProcesses, ReadProcess, ScanDone,
         RemoveFile, RemoveRecord, RemoveDir, MakeDir, CreateRecord, WriteRecord, CopyTree, CopyFails, Submit,
         TakeBrief, Collect, Tidy, Return, WriteReply, ReplyFails, UnlinkRecord, StdinCloses, StopInRun,
         StopOutsideRun, StopHeld, RunRaises, CancelQueued, Stopped, StopGivesUp, Raise, Exit, Killed
  <2> QED
    BY <1>1, <2>1
<1> QED
  BY <1>3, <1>4, <1>5, <1>6

LEMMA WorkersForkWhileTheyRun ==
  ASSUME IInv, LateFork = FALSE, NEW p \in Proc, Detach(p) \/ Exits(p)
  PROVE  NoNewWriter
<1>1. CASE Detach(p)
  <2>1. PICK q \in Proc : proc' = [proc EXCEPT ![q] = [st |-> "live", dir |-> proc[p].dir, brief |-> Nobody]]
    BY <1>1 DEF Detach
  <2>2. proc'[q].dir = proc[p].dir /\ \A r \in Proc : r # q => proc'[r] = proc[r]
    BY <2>1 DEF IInv, Types
  <2>3. Live(p) /\ proc[p].brief # Nobody /\ ~Dead(dir[proc[p].dir].owner)
    BY <1>1 DEF Detach
  <2>4. proc[p].brief \in Brief
    BY <2>3 DEF IInv, Types
  <2>5. ~Done(proc[p].dir)
    BY <2>3, <2>4, WorkerRuns DEF Done, Over
  <2> QED
    BY <2>2, <2>5 DEF NoNewWriter, Marked, Live
<1>2. CASE Exits(p)
  <2>1. proc' = [q \in Proc |-> IF q \in {p} THEN Gone(q) ELSE proc[q]]
    BY <1>2 DEF Exits, IInv, Types
  <2> QED
    BY <2>1, ProcessesEnd DEF NoNewWriter, Marked, Live
<1> QED
  BY <1>1, <1>2

\* What a scan has read stays true while others step ...
LEMMA ScanStays ==
  ASSUME IInv, NEW s \in Server, Scanned(s), NoNewWriter,
         sv'[s].pc = sv[s].pc, sv'[s].dir = sv[s].dir, sv'[s].list = sv[s].list, sv'[s].busy = sv[s].busy
  PROVE  Scanned(s)'
<1>1. ServerInv(s) /\ Purpose(s)
  BY AtWork DEF ServerInv
<1>2. sv[s].pc \in {"scan", "remove", "tidy"} => At(s) \in Dir /\ Done(At(s))
  BY <1>1 DEF ServerInv, Place, Settled, Calling, Sweeping
<1>3. ASSUME sv[s].pc \in {"scan", "remove", "tidy"}
      PROVE  Marked(At(s))' \subseteq Marked(At(s))
  <2> DEFINE d == sv[s].dir
  <2>1. Marked(d)' \subseteq Marked(d)
    <3> HIDE DEF d
    <3>1. ASSUME NEW e \in Dir, Done(e) PROVE \A p \in Proc : Live(p)' /\ proc'[p].dir = e => p \in Marked(e)
      BY <3>1 DEF NoNewWriter, Marked, Live
    <3>2. d \in Dir /\ Done(d)
      BY <1>2, <1>3 DEF d, At
    <3>3. d' = d
      BY DEF d
    <3> QED
      BY <3>1, <3>2, <3>3 DEF Marked
  <2> QED
    BY <2>1 DEF At, Marked
<1> QED
  BY <1>3 DEF Scanned, At

LEMMA OthersStay ==
  ASSUME IInv, NEW s \in Server, Serve(s) \/ Happens(s)
  PROVE  \A t \in Server : t # s => sv'[t] = sv[t]
BY DEF Serve, Happens, Start, OpenRecord, SweepDone, LockOrphan, StopMarked, ListProcesses, ReadProcess, ScanDone,
       RemoveFile, RemoveRecord, RemoveDir, MakeDir, CreateRecord, WriteRecord, CopyTree, CopyFails, Submit,
       TakeBrief, StartWorker, WorkerEnds, Collect, Tidy, Return, WriteReply, ReplyFails, UnlinkRecord, StdinCloses,
       StopInRun, StopOutsideRun, StopHeld, RunRaises, CancelQueued, Stopped, StopGivesUp, Raise, Exit, Killed,
       IInv, Types

\* ... and a server's own steps scan, or remove only after a scan.
LEMMA ListScans ==
  ASSUME IInv, NEW s \in Server, ListProcesses(s)
  PROVE  Scanned(s)'
<1>1. sv[s] \in ServerState /\ sv'[s] = [sv[s] EXCEPT !.pc = "scan", !.list = {p \in Proc : Live(p)},
                                                      !.busy = ~dir[sv[s].dir].there]
  BY DEF ListProcesses, IInv, Types
<1>2. sv'[s].pc = "scan" /\ sv'[s].list = {p \in Proc : Live(p)} /\ proc' = proc
  <2>1. proc' = proc
    BY DEF ListProcesses
  <2>2. sv'[s].pc = "scan" /\ sv'[s].list = {p \in Proc : Live(p)}
    BY <1>1 DEF ServerState
  <2> QED
    BY <2>1, <2>2
<1> QED
  BY <1>2 DEF Scanned, Marked, Live

LEMMA ReadScans ==
  ASSUME IInv, NEW s \in Server, Scanned(s), ReadProcess(s)
  PROVE  Scanned(s)'
<1>1. PICK q \in sv[s].list : sv' = [sv EXCEPT ![s].list = @ \ {q}, ![s].busy = @ \/ q \in Marked(sv[s].dir)]
  BY DEF ReadProcess
<1>2. sv[s].pc = "scan" /\ proc' = proc /\ sv[s] \in ServerState
  BY DEF ReadProcess, IInv, Types
<1>3. sv'[s] = [sv[s] EXCEPT !.list = @ \ {q}, !.busy = @ \/ q \in Marked(sv[s].dir)]
  BY <1>1 DEF IInv, Types
<1>4. /\ sv'[s].pc = "scan" /\ sv'[s].dir = sv[s].dir /\ sv'[s].list = sv[s].list \ {q}
      /\ sv'[s].busy = (sv[s].busy \/ q \in Marked(sv[s].dir))
  BY <1>2, <1>3 DEF ServerState
<1>5. sv[s].busy \/ Marked(sv[s].dir) \subseteq sv[s].list
  BY <1>2 DEF Scanned, At
<1>6. sv'[s].busy \/ Marked(sv[s].dir) \subseteq sv'[s].list
  BY <1>4, <1>5
<1> QED
  BY <1>2, <1>4, <1>6 DEF Scanned, Marked, Live, At

LEMMA ScanEnds ==
  ASSUME IInv, NEW s \in Server, Scanned(s), ScanDone(s)
  PROVE  Scanned(s)'
<1>1. sv[s].pc = "scan" /\ sv[s].list = {} /\ proc' = proc /\ sv[s] \in ServerState
  BY DEF ScanDone, IInv, Types
<1>2. PICK to \in {"sweep", "remove", "return", "tidy", "raise"} :
        sv' = [sv EXCEPT ![s].pc = to] /\ (sv[s].busy => to \notin {"remove", "tidy"})
  BY DEF ScanDone
<1>3. sv'[s].pc = to /\ sv'[s].dir = sv[s].dir
  BY <1>1, <1>2 DEF ServerState, IInv, Types
<1>4. sv[s].busy \/ Marked(sv[s].dir) = {}
  BY <1>1 DEF Scanned, At
<1> QED
  BY <1>1, <1>2, <1>3, <1>4 DEF Scanned, Marked, Live, At

LEMMA FailedCopyIsEmpty ==
  ASSUME IInv, NEW s \in Server, CopyFails(s)
  PROVE  Scanned(s)'
<1>1. sv[s] \in ServerState /\ ServerInv(s) /\ proc' = proc /\ sv[s].pc \in {"made", "tagged", "copying"}
  BY AtWork DEF CopyFails
<1>2. sv'[s].pc = "remove" /\ sv'[s].dir = sv[s].dir
  BY <1>1 DEF CopyFails, ServerState, IInv, Types
<1>3. Marked(sv[s].dir) = {}
  BY <1>1 DEF ServerInv, Settled, At, Marked
<1> QED
  BY <1>1, <1>2, <1>3 DEF Scanned, Marked, Live, At

LEMMA TidyWasScanned ==
  ASSUME IInv, NEW s \in Server, Scanned(s), Tidy(s)
  PROVE  Scanned(s)'
<1>1. sv[s] \in ServerState /\ proc' = proc /\ sv[s].pc = "tidy"
  BY AtWork DEF Tidy
<1>2. sv'[s].pc \in {"remove", "return"} /\ sv'[s].dir = sv[s].dir
  BY <1>1 DEF Tidy, ServerState, IInv, Types
<1> QED
  BY <1>1, <1>2 DEF Scanned, Marked, Live, At

LEMMA OwnSteps ==
  ASSUME IInv, NEW s \in Server, Scanned(s), NoNewWriter, Serve(s) \/ Happens(s)
  PROVE  Scanned(s)'
<1>0. sv[s] \in ServerState
  BY AtWork
<1>1. CASE RemoveFile(s) \/ RemoveRecord(s) \/ CopyTree(s) \/ TakeBrief(s) \/ StartWorker(s) \/ WorkerEnds(s)
  <2>1. sv' = sv
    BY <1>1 DEF RemoveFile, RemoveRecord, CopyTree, TakeBrief, StartWorker, WorkerEnds
  <2> QED
    BY <2>1, ScanStays
<1>2. CASE StopHeld(s)
  <2>1. sv'[s] = [sv[s] EXCEPT !.told = TRUE]
    BY <1>2 DEF StopHeld, IInv, Types
  <2>2. sv'[s].pc = sv[s].pc /\ sv'[s].dir = sv[s].dir /\ sv'[s].list = sv[s].list /\ sv'[s].busy = sv[s].busy
    BY <2>1, <1>0 DEF ServerState
  <2> QED
    BY <2>2, ScanStays
<1>3. CASE ListProcesses(s) \/ ReadProcess(s) \/ ScanDone(s) \/ CopyFails(s) \/ Tidy(s)
  BY <1>3, ListScans, ReadScans, ScanEnds, FailedCopyIsEmpty, TidyWasScanned
<1>4. CASE \/ Start(s) \/ OpenRecord(s) \/ SweepDone(s) \/ LockOrphan(s) \/ StopMarked(s) \/ RemoveDir(s)
           \/ MakeDir(s) \/ CreateRecord(s) \/ WriteRecord(s) \/ Submit(s) \/ Collect(s) \/ Return(s)
           \/ WriteReply(s) \/ StopInRun(s) \/ RunRaises(s) \/ CancelQueued(s) \/ Stopped(s) \/ StopGivesUp(s) \/ Exit(s)
           \/ ReplyFails(s) \/ UnlinkRecord(s) \/ StdinCloses(s) \/ StopOutsideRun(s) \/ Raise(s) \/ Killed(s)
  <2>0. sv \in [Server -> ServerState]
    BY DEF IInv, Types
  <2>1. Start(s) => sv'[s].pc \notin {"scan", "remove", "tidy"}
    BY <2>0, <1>0 DEF Start, ServerState
  <2>2. OpenRecord(s) => sv'[s].pc \notin {"scan", "remove", "tidy"}
    BY <2>0, <1>0 DEF OpenRecord, ServerState
  <2>3. SweepDone(s) => sv'[s].pc \notin {"scan", "remove", "tidy"}
    BY <2>0, <1>0 DEF SweepDone, ServerState, Idle
  <2>4. LockOrphan(s) => sv'[s].pc \notin {"scan", "remove", "tidy"}
    BY <2>0, <1>0 DEF LockOrphan, ServerState
  <2>5. StopMarked(s) => sv'[s].pc \notin {"scan", "remove", "tidy"}
    BY <2>0, <1>0 DEF StopMarked, ServerState
  <2>6. RemoveDir(s) => sv'[s].pc \notin {"scan", "remove", "tidy"}
    BY <2>0, <1>0 DEF RemoveDir, ServerState
  <2>7. MakeDir(s) => sv'[s].pc \notin {"scan", "remove", "tidy"}
    BY <2>0, <1>0 DEF MakeDir, ServerState
  <2>8. CreateRecord(s) => sv'[s].pc \notin {"scan", "remove", "tidy"}
    BY <2>0, <1>0 DEF CreateRecord, ServerState
  <2>9. WriteRecord(s) => sv'[s].pc \notin {"scan", "remove", "tidy"}
    BY <2>0, <1>0 DEF WriteRecord, ServerState
  <2>10. Submit(s) => sv'[s].pc \notin {"scan", "remove", "tidy"}
    BY <2>0, <1>0 DEF Submit, ServerState
  <2>11. Collect(s) => sv'[s].pc \notin {"scan", "remove", "tidy"}
    BY <2>0, <1>0 DEF Collect, ServerState
  <2>12. Return(s) => sv'[s].pc \notin {"scan", "remove", "tidy"}
    BY <2>0, <1>0 DEF Return, ServerState
  <2>13. WriteReply(s) => sv'[s].pc \notin {"scan", "remove", "tidy"}
    BY <2>0, <1>0 DEF WriteReply, ServerState
  <2>14. StopInRun(s) => sv'[s].pc \notin {"scan", "remove", "tidy"}
    BY <2>0, <1>0 DEF StopInRun, ServerState
  <2>15. RunRaises(s) => sv'[s].pc \notin {"scan", "remove", "tidy"}
    BY <2>0, <1>0 DEF RunRaises, ServerState
  <2>16. CancelQueued(s) => sv'[s].pc \notin {"scan", "remove", "tidy"}
    BY <2>0, <1>0 DEF CancelQueued, ServerState
  <2>17. Stopped(s) => sv'[s].pc \notin {"scan", "remove", "tidy"}
    BY <2>0, <1>0 DEF Stopped, ServerState
  <2>18. StopGivesUp(s) => sv'[s].pc \notin {"scan", "remove", "tidy"}
    BY <2>0, <1>0 DEF StopGivesUp, ServerState
  <2>19. Exit(s) => sv'[s].pc \notin {"scan", "remove", "tidy"}
    BY <2>0, <1>0 DEF Exit, ServerState
  <2>20. ReplyFails(s) => sv'[s].pc \notin {"scan", "remove", "tidy"}
    BY <2>0, <1>0 DEF ReplyFails, ServerState, Leaving
  <2>21. UnlinkRecord(s) => sv'[s].pc \notin {"scan", "remove", "tidy"}
    BY <2>0, <1>0 DEF UnlinkRecord, ServerState, Idle
  <2>22. StdinCloses(s) => sv'[s].pc \notin {"scan", "remove", "tidy"}
    BY <2>0, <1>0 DEF StdinCloses, ServerState, Leaving
  <2>23. StopOutsideRun(s) => sv'[s].pc \notin {"scan", "remove", "tidy"}
    BY <2>0, <1>0 DEF StopOutsideRun, ServerState, Leaving
  <2>24. Raise(s) => sv'[s].pc \notin {"scan", "remove", "tidy"}
    BY <2>0, <1>0 DEF Raise, ServerState, Leaving, Idle
  <2>25. Killed(s) => sv'[s].pc \notin {"scan", "remove", "tidy"}
    BY <2>0, <1>0 DEF Killed, ServerState, Leaving
  <2> QED
    BY <1>4, <2>1, <2>2, <2>3, <2>4, <2>5, <2>6, <2>7, <2>8, <2>9, <2>10, <2>11, <2>12, <2>13, <2>14, <2>15, <2>16, <2>17, <2>18, <2>19, <2>20, <2>21, <2>22, <2>23, <2>24, <2>25 DEF Scanned
<1> QED
  BY <1>1, <1>2, <1>3, <1>4 DEF Serve, Happens

LEMMA ScanInvKept ==
  ASSUME IInv, ScanInv, LateFork = FALSE, [Next]_vars
  PROVE  ScanInv'
<1>1. ASSUME NEW s \in Server, Serve(s) \/ Happens(s) PROVE ScanInv'
  <2>1. NoNewWriter
    BY <1>1, ServerBringsNoWriter
  <2>2. ASSUME NEW t \in Server PROVE Scanned(t)'
    BY <1>1, <2>1, OthersStay, OwnSteps, ScanStays DEF ScanInv
  <2> QED
    BY <2>2 DEF ScanInv
<1>2. ASSUME NEW p \in Proc, Detach(p) \/ Exits(p) PROVE ScanInv'
  <2>1. NoNewWriter /\ sv' = sv
    BY <1>2, WorkersForkWhileTheyRun DEF Detach, Exits
  <2> QED
    BY <2>1, ScanStays DEF ScanInv
<1>3. CASE UNCHANGED vars
  BY <1>3 DEF vars, ScanInv, Scanned, Marked, Live, At
<1> QED
  BY <1>1, <1>2, <1>3 DEF Next

LEMMA FilesStay ==
  ASSUME IInv, NEW s \in Server, Serve(s) \/ Happens(s), ~RemoveFile(s), ~Tidy(s), NEW d \in Dir
  PROVE  dir[d].files \subseteq dir'[d].files
<1>0. dir \in [Dir -> DirState]
  BY DEF IInv, Types, DirState
<1>1. CASE dir' = dir \/ dir' = Unlocked(s)
  BY <1>0, <1>1, UnlockedFacts
<1>2. CASE LockOrphan(s) \/ RemoveRecord(s) \/ MakeDir(s) \/ CreateRecord(s) \/ WriteRecord(s) \/ UnlinkRecord(s)
  <2>1. LockOrphan(s) => dir'[d].files = dir[d].files
    BY <1>0 DEF LockOrphan, DirState
  <2>2. RemoveRecord(s) => dir'[d].files = dir[d].files
    BY <1>0 DEF RemoveRecord, DirState
  <2>3. MakeDir(s) => dir'[d].files = dir[d].files
    BY <1>0 DEF MakeDir, DirState
  <2>4. CreateRecord(s) => dir'[d].files = dir[d].files
    BY <1>0 DEF CreateRecord, DirState
  <2>5. WriteRecord(s) => dir'[d].files = dir[d].files
    BY <1>0 DEF WriteRecord, DirState
  <2>6. UnlinkRecord(s) => dir'[d].files = dir[d].files
    BY <1>0 DEF UnlinkRecord, DirState
  <2> QED
    BY <1>2, <2>1, <2>2, <2>3, <2>4, <2>5, <2>6
<1>3. CASE RemoveDir(s)
  <2>1. PICK U \in {dir, Unlocked(s)} : dir' = [U EXCEPT ![sv[s].dir].there = FALSE]
    BY <1>3 DEF RemoveDir
  <2>2. U \in [Dir -> DirState] /\ U[d].files = dir[d].files
    BY <1>0, UnlockedFacts
  <2> QED
    BY <2>1, <2>2 DEF DirState
<1>4. CASE CopyTree(s)
  <2>1. dir[d].files \subseteq File
    BY DEF IInv, Types
  <2> QED
    BY <1>0, <1>4, <2>1 DEF CopyTree, DirState, File
<1>5. CASE \/ Start(s) \/ OpenRecord(s) \/ SweepDone(s) \/ StopMarked(s) \/ ListProcesses(s) \/ ReadProcess(s)
           \/ ScanDone(s) \/ CopyFails(s) \/ Submit(s) \/ TakeBrief(s) \/ StartWorker(s) \/ WorkerEnds(s) \/ Collect(s)
           \/ Return(s) \/ WriteReply(s) \/ ReplyFails(s) \/ StdinCloses(s) \/ StopInRun(s) \/ StopOutsideRun(s)
           \/ StopHeld(s) \/ RunRaises(s) \/ CancelQueued(s) \/ Stopped(s) \/ StopGivesUp(s) \/ Raise(s) \/ Exit(s)
           \/ Killed(s)
  <2>1. dir' = dir \/ dir' = Unlocked(s)
    BY <1>5 DEF Start, OpenRecord, SweepDone, StopMarked, ListProcesses, ReadProcess, ScanDone, CopyFails, Submit,
       TakeBrief, StartWorker, WorkerEnds, Collect, Return, WriteReply, ReplyFails, StdinCloses, StopInRun,
       StopOutsideRun, StopHeld, RunRaises, CancelQueued, Stopped, StopGivesUp, Raise, Exit, Killed
  <2> QED
    BY <1>1, <2>1
<1> QED
  BY <1>2, <1>3, <1>4, <1>5 DEF Serve, Happens

LEMMA DeletionStep ==
  ASSUME IInv, ScanInv, [Next]_vars, NEW d \in Dir, ~(dir[d].files \subseteq dir'[d].files)
  PROVE  Marked(d) = {}
<1>1. ASSUME NEW s \in Server, Serve(s) \/ Happens(s) PROVE Marked(d) = {}
  <2>1. CASE RemoveFile(s) \/ Tidy(s)
    <3>1. sv[s].pc \in {"remove", "tidy"}
      BY <2>1 DEF RemoveFile, Tidy
    <3>2. d = sv[s].dir
      BY <2>1 DEF RemoveFile, Tidy, IInv, Types
    <3> QED
      BY <3>1, <3>2 DEF ScanInv, Scanned, At
  <2>2. CASE ~RemoveFile(s) /\ ~Tidy(s)
    BY <1>1, <2>2, FilesStay
  <2> QED
    BY <2>1, <2>2
<1>2. ASSUME NEW p \in Proc, Detach(p) \/ Exits(p) PROVE FALSE
  BY <1>2 DEF Detach, Exits
<1>3. CASE UNCHANGED vars
  BY <1>3 DEF vars
<1> QED
  BY <1>1, <1>2, <1>3 DEF Next

\* Nothing is deleted under a process that may write, provided that only
\* processes a running server supervises fork: _in_use reads the process list
\* before it looks at the processes on it, and the run CopiesLateFork shows
\* what a later fork does to that.
THEOREM NoDeletionTheorem ==
  ASSUME LateFork = FALSE
  PROVE  Spec => NoDeletionUnderWriter
<1>1. Init => ScanInv
  BY DEF Init, ScanInv, Scanned, NewServer
<1>2. IInv /\ ScanInv /\ [Next]_vars => ScanInv'
  BY ScanInvKept
<1>3. IInv /\ ScanInv /\ [Next]_vars => (\A d \in Dir : ~(dir[d].files \subseteq dir'[d].files) => Marked(d) = {})
  BY DeletionStep
<1> QED
  BY <1>1, <1>2, <1>3, IInvHolds, NextIInv, PTL DEF Spec, NoDeletionUnderWriter

(***************************************************************************)
(* Types, and the bound on the pool's threads                              *)
(***************************************************************************)
PoolBound == \A d \in Dir : Cardinality(Working(d)) <= Parallel

\* Only a pool thread that takes a brief adds to those at work.
LEMMA FewerAtWork ==
  ASSUME IInv, [Next]_vars, \A s \in Server : ~TakeBrief(s), NEW d \in Dir
  PROVE  Working(d)' \subseteq Working(d)
<1>1. \A b \in Brief : brief \in [Dir -> [Brief -> {"queued", "starting", "running"} \cup Over]]
  BY DEF IInv, Types
<1>2. ASSUME brief' = brief PROVE Working(d)' \subseteq Working(d)
  BY <1>2 DEF Working
<1>3. ASSUME NEW s \in Server, Serve(s) \/ Happens(s) PROVE Working(d)' \subseteq Working(d)
  <2>1. CASE Submit(s) \/ CancelQueued(s)
    BY <1>1, <2>1 DEF Submit, CancelQueued, Working
  <2>2. CASE StartWorker(s)
    <3>1. PICK e \in Owned(s), b \in Brief :
            brief[e][b] = "starting" /\ brief' \in {[brief EXCEPT ![e][b] = "done"], [brief EXCEPT ![e][b] = "running"]}
      BY <2>2 DEF StartWorker
    <3> QED
      BY <1>1, <3>1 DEF Working, Owned
  <2>3. CASE WorkerEnds(s)
    <3>1. PICK e \in Owned(s) : \E p \in Workers(e) : brief' = [brief EXCEPT ![e][proc[p].brief] = "done"]
      BY <2>3 DEF WorkerEnds
    <3> QED
      BY <1>1, <3>1 DEF Working, Owned
  <2>4. CASE Killed(s)
    BY <1>1, <2>4 DEF Killed, Working
  <2>5. CASE ~(Submit(s) \/ CancelQueued(s) \/ StartWorker(s) \/ WorkerEnds(s) \/ Killed(s))
    <3>1. brief' = brief
      BY <1>3, <2>5 DEF Serve, Happens, Start, OpenRecord, SweepDone, LockOrphan, StopMarked, ListProcesses,
         ReadProcess, ScanDone, RemoveFile, RemoveRecord, RemoveDir, MakeDir, CreateRecord, WriteRecord, CopyTree,
         CopyFails, Collect, Tidy, Return, WriteReply, ReplyFails, UnlinkRecord, StdinCloses, StopInRun,
         StopOutsideRun, StopHeld, RunRaises, Stopped, StopGivesUp, Raise, Exit
    <3> QED
      BY <1>2, <3>1
  <2> QED
    BY <2>1, <2>2, <2>3, <2>4, <2>5
<1>4. ASSUME NEW p \in Proc, Detach(p) \/ Exits(p) PROVE Working(d)' \subseteq Working(d)
  BY <1>2, <1>4 DEF Detach, Exits
<1>5. CASE UNCHANGED vars
  BY <1>2, <1>5 DEF vars
<1> QED
  BY <1>3, <1>4, <1>5 DEF Next

LEMMA PoolBoundKept ==
  ASSUME IsFiniteSet(Brief), IInv, PoolBound, [Next]_vars
  PROVE  PoolBound'
<1> SUFFICES ASSUME NEW d \in Dir PROVE Cardinality(Working(d)') <= Parallel
  BY DEF PoolBound
<1>1. Working(d) \in SUBSET Brief /\ IsFiniteSet(Working(d)) /\ Parallel \in Nat
  BY FS_Subset, CopiesAssumption DEF Working
<1>2. Cardinality(Working(d)) \in Nat /\ Cardinality(Working(d)) <= Parallel
  BY <1>1, FS_CardinalityType DEF PoolBound
<1>3. ASSUME Working(d)' \in SUBSET Working(d) PROVE Cardinality(Working(d)') <= Parallel
  <2>1. Cardinality(Working(d)') <= Cardinality(Working(d)) /\ IsFiniteSet(Working(d)')
    BY <1>1, <1>3, FS_Subset
  <2>2. Cardinality(Working(d)') \in Nat
    BY <2>1, FS_CardinalityType
  <2> QED
    BY <2>1, <2>2, <1>1, <1>2
<1>4. ASSUME NEW s \in Server, TakeBrief(s) PROVE Cardinality(Working(d)') <= Parallel
  <2>1. PICK e \in Owned(s), b \in Brief :
          /\ Cardinality(Working(e)) < Parallel /\ brief[e][b] = "queued"
          /\ brief' = [brief EXCEPT ![e][b] = IF sv[s].told THEN "done" ELSE "starting"]
    BY <1>4 DEF TakeBrief
  <2>2. e \in Dir /\ brief \in [Dir -> [Brief -> {"queued", "starting", "running"} \cup Over]]
    BY DEF Owned, IInv, Types
  <2>3. CASE d # e
    <3>1. brief'[d] = brief[d]
      BY <2>1, <2>2, <2>3
    <3> QED
      BY <3>1, <1>3 DEF Working
  <2>4. CASE d = e
    <3>1. Working(d)' \in SUBSET (Working(d) \cup {b})
      BY <2>1, <2>2, <2>4 DEF Working
    <3>2. /\ IsFiniteSet(Working(d) \cup {b})
          /\ Cardinality(Working(d) \cup {b}) = IF b \in Working(d) THEN Cardinality(Working(d)) ELSE Cardinality(Working(d)) + 1
      BY <1>1, FS_AddElement
    <3>3. Cardinality(Working(d)') <= Cardinality(Working(d) \cup {b}) /\ IsFiniteSet(Working(d)')
      BY <3>1, <3>2, FS_Subset
    <3>4. Cardinality(Working(d)') \in Nat
      BY <3>3, FS_CardinalityType
    <3>5. Cardinality(Working(d)) < Parallel
      BY <2>1, <2>4
    <3> QED
      BY <3>2, <3>3, <3>4, <3>5, <1>1, <1>2
  <2> QED
    BY <2>3, <2>4
<1>5. CASE \A s \in Server : ~TakeBrief(s)
  BY <1>3, <1>5, FewerAtWork
<1> QED
  BY <1>4, <1>5

\* Every variable has its type, and no pool of a tool call, whose briefs are
\* finitely many, runs more briefs at once than it has threads.
THEOREM TypeCorrect ==
  ASSUME IsFiniteSet(Brief)
  PROVE  Spec => []TypeOK
<1>1. Init => PoolBound
  <2> SUFFICES ASSUME Init, NEW d \in Dir PROVE Cardinality(Working(d)) <= Parallel
    BY DEF PoolBound
  <2>1. Working(d) = {}
    BY DEF Init, Working
  <2> QED
    BY <2>1, FS_EmptySet, CopiesAssumption
<1>2. IInv /\ PoolBound /\ [Next]_vars => PoolBound'
  BY PoolBoundKept
<1>3. IInv /\ PoolBound => TypeOK
  BY DEF IInv, Types, PoolBound, TypeOK
<1> QED
  BY <1>1, <1>2, <1>3, IInvHolds, NextIInv, PTL DEF Spec
=============================================================================
