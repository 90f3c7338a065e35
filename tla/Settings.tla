------------------------------ MODULE Settings ------------------------------
(* The settings of coding agents under the installers' hands: harness.py     *)
(* (configure and undo, with backups and a manifest), write_config of        *)
(* installer.py and scripts/install-delegation.py. One program runs at a     *)
(* time, may be killed between two of its steps, and users edit their files  *)
(* between the runs.                                                         *)
(*                                                                           *)
(* A settings file is what its readers tell apart: the version of the user's *)
(* own text, whether a program can rewrite it without loss, the entries      *)
(* under the router's names, and which of them lie between its markers. A    *)
(* skill directory is the same with one entry. Left out: the snippets saved  *)
(* for manual steps, empty directories, the wording of every report.         *)
EXTENDS Values, Integers, Sequences, SequencesExt

CONSTANTS
  Homes,      \* what an installer may find, [disk: path -> content or None,
              \* asked: the runs a user may ask for, see Run]
  MaxRuns,    \* runs in a behaviour
  MaxEdits    \* edits of users in a behaviour

VARIABLE u

Keys == {"provider", "delegate", "gateway", "skill", "rule"}
Ours == {"v1", "v2"}   \* entries of configure, for two router addresses
Blank == [text |-> 0, plain |-> TRUE, at |-> [k \in Keys |-> "none"], marks |-> {}, says |-> None]

Skills == {"claude/skill", "agents/skill", "opencode/skill", "openclaw/skill", "hermes/skill"}
Registry == "claude.json"   \* only ever edited through the agent's own CLI
Settled == Skills \cup {Registry}
Paths == Settled \cup {"settings.json", "config.toml", "opencode.json", "mcp-config.json", "vscode.json",
          "cursor.json", "rule", "openclaw.json", "hermes.yaml", "config.yaml", "launcher.yaml"}

InstallerFiles == {"config.yaml", "launcher.yaml"}
JsonFiles == {"settings.json", "opencode.json", "mcp-config.json", "vscode.json", "cursor.json", "openclaw.json"}

Run(op, hs) ==
  [op |-> op, hs |-> hs, value |-> "v1", force |-> FALSE, dry |-> FALSE, delegate |-> TRUE,
   gateway |-> FALSE, project |-> FALSE, cli |-> TRUE, vscode |-> FALSE, config |-> [router |-> 1, launcher |-> 1]]

FilesSaying(config) ==
  [text : Nat, plain : BOOLEAN, at : [Keys -> {"none", "theirs", "other"} \cup Ours],
   marks : SUBSET (Keys \cup {"generated"}), says : {config}]
IsFile(f) == f \in FilesSaying(f.says) /\ None \notin FilesSaying(f.says)
AgentTools == {"claude", "codex", "opencode", "cursor", "openclaw", "hermes", "copilot"}
IsRun(a) ==
  /\ a.value \in Ours /\ (a.op = "delegation" => Head(a.hs) \in AgentTools)
  /\ \A key \in {"router", "launcher"} : None \notin FilesSaying(a.config[key])

\* Before its first run configure has put nothing into the files users edit.
ASSUME HomesFound ==
  /\ None \notin Nat /\ None \notin FilesSaying(None)
  /\ \A home \in Homes :
       /\ home.disk = [p \in Paths |-> home.disk[p]]
       /\ \A p \in Paths : LET f == home.disk[p]
                          IN f # None => /\ IsFile(f) /\ f.marks \subseteq {"generated"}
                                         /\ p \notin Settled => \A k \in Keys : f.at[k] \in {"none", "theirs"}
       /\ \A a \in home.asked : IsRun(a)
----------------------------------------------------------------------------
(* What each agent's configuration consists of *)

Do(how, path, key) == [how |-> how, path |-> path, key |-> key]
If(cond, steps) == IF cond THEN steps ELSE <<>>

ClaudeSteps(a) ==
  If(a.delegate, <<Do("cli", Registry, "delegate"), Do("skill", "claude/skill", "skill")>>)
  \o If(a.gateway, <<Do("json", "settings.json", "gateway")>>)

CodexSteps(a) ==
  If(a.delegate, <<Do("toml", "config.toml", "delegate"), Do("skill", "agents/skill", "skill")>>)

OpencodeSteps(a) ==
  <<Do("json", "opencode.json", "provider")>>
  \o If(a.delegate, <<Do("json", "opencode.json", "delegate"), Do("skill", "opencode/skill", "skill")>>)

\* VS Code counts as installed if one of its directories is there.
CopilotSteps(a, disk) ==
  If(a.delegate, <<Do("json", "mcp-config.json", "delegate")>>
                 \o If(a.vscode \/ disk["vscode.json"] # None, <<Do("json", "vscode.json", "delegate")>>))

CursorSteps(a) ==
  If(a.delegate, <<Do("json", "cursor.json", "delegate")>>
                 \o If(a.project, <<Do("file", "rule", "rule")>>))

OpenclawSteps(a) ==
  <<Do("json", "openclaw.json", "provider")>> \o If(a.delegate, <<Do("json", "openclaw.json", "delegate")>>)

HermesSteps(a) ==
  <<Do("yaml", "hermes.yaml", "provider")>> \o If(a.delegate, <<Do("yaml", "hermes.yaml", "delegate")>>)

\* None: no agent of that name. "installer" stands for the installer's own files.
StepsOf(h, a, disk) ==
  CASE h = "claude-code" -> ClaudeSteps(a)
    [] h = "codex" -> CodexSteps(a)
    [] h = "opencode" -> OpencodeSteps(a)
    [] h = "copilot" -> CopilotSteps(a, disk)
    [] h = "cursor" -> CursorSteps(a)
    [] h = "openclaw" -> OpenclawSteps(a)
    [] h = "hermes" -> HermesSteps(a)
    [] h = "installer" -> <<Do("config", "config.yaml", "router"), Do("config", "launcher.yaml", "launcher")>>
    [] OTHER -> None
----------------------------------------------------------------------------
(* One entry *)

Current(file) == [out |-> "current", file |-> file]
Refused(file) == [out |-> "refused", file |-> file]
Manual(file) == [out |-> "manual", file |-> file]
Written(file, key, value) == [out |-> "written", file |-> [file EXCEPT !.at[key] = value]]
Marked(file, key, value) == Written([file EXCEPT !.marks = @ \cup {key}], key, value)

\* A file with comments is not rewritten: its user merges a snippet.
JsonSet(file, key, a) ==
  CASE ~file.plain -> Manual(file)
    [] file.plain /\ file.at[key] = a.value -> Current(file)
    [] file.plain /\ file.at[key] \notin {"none", a.value} /\ ~a.force -> Refused(file)
    [] OTHER -> Written(file, key, a.value)

\* Any block of ours counts as current; tables are never merged; the result
\* has to parse.
TomlAppend(file, key, a) ==
  CASE file.marks # {} -> Current(file)
    [] file.marks = {} /\ (file.at[key] # "none" \/ ~file.plain) -> Refused(file)
    [] OTHER -> Marked(file, key, a.value)

YamlInsert(file, key, a) ==
  CASE file.plain /\ file.at[key] = a.value -> Current(file)
    [] ~file.plain \/ file.at[key] \notin {"none", a.value} -> Refused(file)
    [] OTHER -> Marked(file, key, a.value)

\* What users added beside the skill's own files does not make it differ.
CopySkill(file, a) ==
  CASE file.at["skill"] = "v1" -> Current(file)
    [] file # Blank /\ file.at["skill"] # "v1" /\ ~a.force -> Refused(file)
    [] OTHER -> Written(Blank, "skill", "v1")

\* A rule is a whole file: any difference is the user's.
CopyRule(file, a) ==
  CASE file = Written(Blank, "rule", "v1").file -> Current(file)
    [] file \notin {Blank, Written(Blank, "rule", "v1").file} /\ ~a.force -> Refused(file)
    [] OTHER -> Written(Blank, "rule", "v1")

\* Without the agent's binary the command is left to the user.
CliAdd(file, key, a) ==
  CASE ~a.cli -> Manual(file)
    [] a.cli /\ file.at[key] # "none" -> Current(file)
    [] OTHER -> Written(file, key, a.value)

Rendered(config) == [Blank EXCEPT !.marks = {"generated"}, !.says = config]

\* A generated file is replaced, after a backup, as long as its first line is
\* still the generator's; the new version goes beside any other file.
WriteConfig(file, config) ==
  CASE file = Rendered(config) -> Current(file)
    [] file # Blank /\ "generated" \notin file.marks -> Manual(file)
    [] OTHER -> [out |-> "written", file |-> Rendered(config)]

Attempt(file, step, a) ==
  CASE step.how = "json" -> JsonSet(file, step.key, a)
    [] step.how = "toml" -> TomlAppend(file, step.key, a)
    [] step.how = "yaml" -> YamlInsert(file, step.key, a)
    [] step.how = "skill" -> CopySkill(file, a)
    [] step.how = "file" -> CopyRule(file, a)
    [] step.how = "cli" -> CliAdd(file, step.key, a)
    [] step.how = "config" -> WriteConfig(file, a.config[step.key])
----------------------------------------------------------------------------
(* configure *)

AtRest == [op |-> "none", a |-> None, hs |-> <<>>, todo |-> <<>>, changes |-> <<>>, h |-> None, open |-> {}]
At(s, path) == IF s.disk[path] = None THEN Blank ELSE s.disk[path]
Quiet(s) == s.proc.op = "none"

SettingsStart(home) ==
  [disk |-> home.disk, asked |-> home.asked, manifest |-> <<>>, backups |-> {}, taken |-> 0,
   proc |-> AtRest, runs |-> 0, edits |-> 0,
   users |-> [p \in Paths |-> IF home.disk[p] = None THEN None ELSE home.disk[p].text],
   theirs |-> [p \in Paths |-> IF home.disk[p] = None THEN {} ELSE {k \in Keys : home.disk[p].at[k] = "theirs"}],
   others |-> {}, unrecorded |-> FALSE, halfUndone |-> FALSE]

Begin(a) ==
  /\ Quiet(u) /\ u.runs < MaxRuns /\ a.op \in {"configure", "undo"}
  /\ u' = [u EXCEPT !.runs = @ + 1,
             !.proc = [op |-> a.op, a |-> a, hs |-> a.hs, todo |-> IF a.op = "undo" THEN Reverse(u.manifest) ELSE <<>>,
                       changes |-> IF a.op = "undo" THEN <<>> ELSE u.manifest, h |-> None, open |-> {}]]

Doing(op) == u.proc.op = op

\* The record of the edits made so far is lost with the program.
Lost(s) == [s EXCEPT !.proc = AtRest, !.unrecorded = @ \/ (s.proc.op # "undo" /\ s.proc.changes # s.manifest),
                     !.halfUndone = @ \/ s.proc.op = "undo"]

\* An unknown name is noticed only when its turn comes.
NextHarness ==
  LET h == Head(u.proc.hs)
      steps == StepsOf(h, u.proc.a, u.disk)
  IN /\ Doing("configure") /\ u.proc.todo = <<>> /\ u.proc.hs # <<>>
     /\ u' = IF steps = None THEN Lost(u)
             ELSE [u EXCEPT !.proc.hs = Tail(@), !.proc.todo = steps, !.proc.h = h, !.proc.open = {}]

Backup(s, path) ==
  IF s.disk[path] = None THEN s
  ELSE [s EXCEPT !.taken = @ + 1, !.backups = @ \cup {[id |-> s.taken + 1, path |-> path, content |-> s.disk[path]]}]

Change(s, kind, path) ==
  [h |-> s.proc.h, kind |-> kind, path |-> path, created |-> s.disk[path] = None,
   backup |-> IF s.disk[path] = None \/ kind = "cli" THEN None ELSE s.taken + 1, json |-> {}, after |-> None]

\* One backup and one record per file and agent, before its first edit.
Opened(s, path) ==
  IF path \in s.proc.open THEN s
  ELSE LET saved == Backup(s, path)
       IN [saved EXCEPT !.proc.open = @ \cup {path}, !.proc.changes = Append(@, Change(s, "file", path))]

Logged(s, step, new) ==
  LET i == SelectLastInSeq(s.proc.changes, LAMBDA c : c.path = step.path)
  IN [s EXCEPT !.disk[step.path] = new, !.proc.changes[i].after = new,
               !.proc.changes[i].json = IF step.how = "json" THEN @ \cup {step.key} ELSE @]

Edit(s, step, new) ==
  CASE step.how = "cli" ->
         [s EXCEPT !.disk[step.path] = new, !.proc.changes = Append(@, Change(s, "cli", step.path))]
    [] step.how = "skill" ->
         [Backup(s, step.path) EXCEPT !.disk[step.path] = new, !.proc.changes = Append(@, Change(s, "dir", step.path))]
    [] step.how = "config" -> [Backup(s, step.path) EXCEPT !.disk[step.path] = new]
    [] OTHER -> Logged(Opened(s, step.path), step, new)

\* One step of an agent: a refusal ends the agent, what was edited stays.
ConfigureStep ==
  LET step == Head(u.proc.todo)
      r == Attempt(At(u, step.path), step, u.proc.a)
      next == [u EXCEPT !.proc.todo = IF r.out = "refused" THEN <<>> ELSE Tail(@)]
  IN /\ Doing("configure") /\ u.proc.todo # <<>>
     /\ u' = IF r.out # "written" \/ u.proc.a.dry THEN next ELSE Edit(next, step, r.file)

\* `claude mcp add` fails.
CliFails ==
  /\ Doing("configure") /\ u.proc.todo # <<>> /\ ~u.proc.a.dry
  /\ Head(u.proc.todo).how = "cli" /\ CliAdd(At(u, Registry), "delegate", u.proc.a).out = "written"
  /\ u' = [u EXCEPT !.proc.todo = <<>>]

\* The manifest is written once, at the end.
SaveManifest ==
  /\ Doing("configure") /\ u.proc.todo = <<>> /\ u.proc.hs = <<>>
  /\ u' = [u EXCEPT !.proc = AtRest, !.manifest = IF u.proc.a.dry THEN @ ELSE u.proc.changes]

\* Killed, or stopped by an error that is no HarnessError (a read-only file).
Abort == ~Quiet(u) /\ u' = Lost(u)
----------------------------------------------------------------------------
(* undo *)

RestoreBackup(s, c) ==
  LET kept == {b \in s.backups : b.id = c.backup}
  IN IF kept = {} THEN s
     ELSE [s EXCEPT !.disk[c.path] = (CHOOSE b \in kept : TRUE).content, !.backups = @ \ kept]

StripBlocks(file) == [file EXCEPT !.at = [k \in Keys |-> IF k \in file.marks THEN "none" ELSE file.at[k]],
                                  !.marks = @ \ Keys]
RemoveJson(file, keys) ==
  IF file.plain THEN [file EXCEPT !.at = [k \in Keys |-> IF k \in keys THEN "none" ELSE file.at[k]]] ELSE file

\* Mutant: whatever was edited since.
UndoFileUnchecked(s, c) ==
  IF c.backup # None THEN RestoreBackup(s, c) ELSE [s EXCEPT !.disk[c.path] = None]

\* Unchanged since: the backup comes back, or a file we created goes. Changed
\* since: our entries and blocks go, the backup stays.
UndoFile(s, c) ==
  LET now == s.disk[c.path]
  IN CASE now = None -> s
       [] now # None /\ now = c.after /\ c.backup # None -> RestoreBackup(s, c)
       [] now # None /\ now = c.after /\ c.backup = None -> [s EXCEPT !.disk[c.path] = None]
       [] OTHER -> [s EXCEPT !.disk[c.path] = RemoveJson(StripBlocks(now), c.json)]

\* The directory goes whatever it holds by now.
UndoDir(s, c) == RestoreBackup([s EXCEPT !.disk[c.path] = None], c)

UndoCli(s, c) == [s EXCEPT !.disk[c.path] = IF @ = None THEN None ELSE [@ EXCEPT !.at["delegate"] = "none"]]

UndoChange(s, c) ==
  CASE c.kind = "cli" -> UndoCli(s, c) [] c.kind = "dir" -> UndoDir(s, c) [] OTHER -> UndoFile(s, c)

KeepChange(c) == (u.proc.hs # <<>> /\ ~Contains(u.proc.hs, c.h)) \/ u.proc.a.dry

\* From the last change to the first; `removed` says whether the agent's own
\* remove command succeeded.
UndoStep ==
  LET c == Head(u.proc.todo)
      next == [u EXCEPT !.proc.todo = Tail(@)]
  IN /\ Doing("undo") /\ u.proc.todo # <<>>
     /\ \E removed \in BOOLEAN :
          /\ (c.kind # "cli" => removed)
          /\ u' = IF KeepChange(c) THEN [next EXCEPT !.proc.changes = <<c>> \o @]
                  ELSE IF removed THEN UndoChange(next, c) ELSE next

FinishUndo ==
  /\ Doing("undo") /\ u.proc.todo = <<>>
  /\ u' = [u EXCEPT !.proc = AtRest, !.manifest = IF u.proc.a.dry THEN @ ELSE u.proc.changes]
----------------------------------------------------------------------------
(* scripts/install-delegation.py: everything is checked first *)

ToolSteps(tool, a) ==
  CASE tool = "claude" -> <<Do("skill", "claude/skill", "skill"), Do("cli", Registry, "delegate")>>
    [] tool = "codex" -> <<Do("skill", "agents/skill", "skill"), Do("cli", "config.toml", "delegate")>>
    [] tool = "opencode" -> <<Do("skill", "opencode/skill", "skill"), Do("json", "opencode.json", "delegate")>>
    [] tool = "cursor" -> <<Do("json", "cursor.json", "delegate")>> \o If(a.project, <<Do("file", "rule", "rule")>>)
    [] tool = "openclaw" -> <<Do("skill", "openclaw/skill", "skill"), Do("json", "openclaw.json", "delegate")>>
    [] tool = "hermes" -> <<Do("skill", "hermes/skill", "skill"), Do("yaml", "hermes.yaml", "delegate")>>
    [] tool = "copilot" -> <<Do("json", IF a.project THEN "vscode.json" ELSE "mcp-config.json", "delegate")>>

\* A skill has to be the same tree, a YAML entry is never replaced.
ToolAttempt(file, step, a) ==
  LET new == CASE step.how = "skill" -> Written(Blank, "skill", "v1").file
               [] step.how = "file" -> Written(Blank, "rule", "v1").file
               [] OTHER -> [file EXCEPT !.at[step.key] = "other"]
      free == IF step.how \in {"skill", "file"} THEN file = Blank ELSE file.at[step.key] = "none"
  IN CASE file = new /\ step.how # "cli" -> Current(file)
       [] step.how \in {"json", "yaml"} /\ ~file.plain -> Refused(file)
       [] (file # new \/ step.how = "cli") /\ ~free /\ (~a.force \/ step.how = "yaml") -> Refused(file)
       [] OTHER -> [out |-> "written", file |-> new]

Delegation(a) ==
  /\ Quiet(u) /\ u.runs < MaxRuns /\ a.op = "delegation"
  /\ LET steps == ToolSteps(Head(a.hs), a)
         refused == \E i \in DOMAIN steps : ToolAttempt(At(u, steps[i].path), steps[i], a).out = "refused"
     IN u' = [u EXCEPT !.runs = @ + 1,
                !.proc = IF refused THEN AtRest
                         ELSE [op |-> "delegation", a |-> a, hs |-> <<>>, todo |-> steps, changes |-> u.manifest,
                               h |-> None, open |-> {}]]

\* A file configure created and nobody else has written: what another installer
\* puts into it makes it neither's (`others`).
Unclaimed(path) == u.users[path] = None /\ u.disk[path] # None

\* Nothing is recorded for an undo. A file is copied aside when an entry of it
\* is replaced, YAML always, a skill or a rule is moved aside; the entries the
\* agent's own CLI holds are removed and added again. For an undo of configure
\* this program is one more user of a file others have written too; the rule
\* is word for word configure's own.
DelegationStep ==
  LET step == Head(u.proc.todo)
      r == ToolAttempt(At(u, step.path), step, u.proc.a)
      saves == step.how # "cli" /\ (step.how = "json" => At(u, step.path).at[step.key] # "none")
      adopts == step.how = "file" \/ Unclaimed(step.path)
      next == [u EXCEPT !.proc = IF Len(u.proc.todo) = 1 THEN AtRest ELSE [u.proc EXCEPT !.todo = Tail(@)]]
  IN /\ Doing("delegation")
     /\ u' = IF r.out # "written" THEN next
             ELSE [(IF saves THEN Backup(next, step.path) ELSE next)
                     EXCEPT !.disk[step.path] = r.file,
                            !.users[step.path] = IF adopts THEN @ ELSE r.file.text,
                            !.others = IF adopts THEN @ \cup {step.path} ELSE @ \ {step.path}]

\* `mcp remove` worked and `mcp add` did not.
DelegationCliFails ==
  LET step == Head(u.proc.todo)
  IN /\ Doing("delegation") /\ step.how = "cli"
     /\ u' = [u EXCEPT !.proc = AtRest, !.others = IF Unclaimed(step.path) THEN @ \cup {step.path} ELSE @,
                !.disk[step.path] = IF @ = None THEN None ELSE [@ EXCEPT !.at["delegate"] = "none"]]
----------------------------------------------------------------------------
(* Users, between the runs *)

CanEdit(path) ==
  /\ Quiet(u) /\ u.edits < MaxEdits /\ u.runs \in 1..(MaxRuns - 1)
  /\ path \notin Settled /\ u.disk[path] # None

Touched(file, text, comment, gone) ==
  [file EXCEPT !.text = text, !.plain = @ /\ ~comment, !.marks = @ \ gone,
               !.at = [k \in Keys |-> IF k \in gone THEN "none" ELSE file.at[k]]]

\* They change their own text, take an entry of ours or the generator's first
\* line out, or add a comment to JSON.
UserEdits(path) ==
  LET parts == {k \in Keys : u.disk[path].at[k] \in Ours} \cup (u.disk[path].marks \cap {"generated"})
  IN /\ CanEdit(path)
     /\ \E gone \in {{}} \cup {{k} : k \in parts}, comment \in BOOLEAN :
          /\ comment => (path \in JsonFiles /\ gone = {})
          /\ u' = [u EXCEPT !.edits = @ + 1, !.users[path] = 10 + u.edits, !.others = @ \ {path},
                     !.disk[path] = Touched(@, 10 + u.edits, comment, gone)]

UserDeletes(path) ==
  /\ CanEdit(path)
  /\ u' = [u EXCEPT !.edits = @ + 1, !.users[path] = None, !.theirs[path] = {},
              !.others = @ \ {path}, !.disk[path] = None]
----------------------------------------------------------------------------
SettingsInit == \E home \in Homes : u = SettingsStart(home)

SettingsNext ==
  \/ \E a \in u.asked : Begin(a) \/ Delegation(a)
  \/ NextHarness \/ ConfigureStep \/ CliFails \/ SaveManifest \/ Abort
  \/ UndoStep \/ FinishUndo \/ DelegationStep \/ DelegationCliFails
  \/ \E path \in Paths : UserEdits(path) \/ UserDeletes(path)

\* Copies of what a file was, itself included.
Versions(path) ==
  {b.content : b \in {x \in u.backups : x.path = path}} \cup (IF u.disk[path] = None THEN {} ELSE {u.disk[path]})

\* What users wrote is in their file or in a backup of it, whatever is
\* configured, forced, killed, undone and edited, in any order; so is what
\* they had under the router's names, unless an undo was killed: run again, it
\* takes the entries it has just restored for the router's. The files the
\* agents' own CLIs edit have no backup.
KeptSomewhere ==
  \A p \in Paths \ Settled :
    /\ u.users[p] # None => \E v \in Versions(p) : v.text = u.users[p]
    /\ (~u.halfUndone /\ p # "config.toml") =>
         \A k \in u.theirs[p] : \E v \in Versions(p) : v.at[k] = "theirs"

\* When nothing is left to undo, no entry of configure is left where a program
\* can take it out, and every file holds its user's text or is gone, except for
\* a file another installer shares with configure alone (an undo takes entries
\* for its own by their names, and a rule by its text); unless a run died
\* before it saved its record.
NothingOfOurs ==
  \A p \in Paths \ (Settled \cup InstallerFiles) :
    LET file == u.disk[p]
    IN /\ p \notin u.others =>
            /\ u.users[p] # None => (file # None /\ file.text = u.users[p])
            /\ file # None => u.users[p] # None
       /\ (file # None /\ file.plain) => \A k \in Keys \ {"rule"} : file.at[k] \notin Ours

UndoRestores ==
  /\ KeptSomewhere
  /\ (Quiet(u) /\ u.manifest = <<>> /\ ~u.unrecorded /\ ~u.halfUndone) => NothingOfOurs
=============================================================================
