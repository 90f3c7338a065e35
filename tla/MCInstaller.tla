--------------------------- MODULE MCInstaller ----------------------------
(* Homes with and without files of the user's, with entries of their own     *)
(* under the router's names and with comments; machines with and without     *)
(* cards, keys and model servers.                                            *)
EXTENDS Installer, TLC

Bare == [p \in Paths |-> None]
Mine == [Blank EXCEPT !.text = 1]
Holding(keys) == [Mine EXCEPT !.at = [k \in Keys |-> IF k \in keys THEN "theirs" ELSE "none"]]
Undo(hs) == Run("undo", hs)
Forced(hs) == [Run("configure", hs) EXCEPT !.force = TRUE, !.value = "v2", !.gateway = TRUE, !.project = TRUE]
Dry(run) == [run EXCEPT !.dry = TRUE]
Home(disk, asked) == [disk |-> disk, asked |-> asked]

UserHomes == {
  Home(Bare, {Run("configure", <<"opencode", "hermes">>), Forced(<<"opencode">>), Undo(<<>>),
              Dry(Undo(<<>>)), [Run("delegation", <<"opencode">>) EXCEPT !.force = TRUE]}),
  Home([Bare EXCEPT !["opencode.json"] = Holding({"delegate"}), !["opencode/skill"] = Mine, !["rule"] = Mine],
       {Forced(<<"opencode">>), Forced(<<"cursor">>), Run("configure", <<"opencode", "cursor">>), Undo(<<>>)}),
  Home([Bare EXCEPT !["hermes.yaml"] = Mine, !["config.toml"] = Mine, !["settings.json"] = Mine, !["config.yaml"] = Mine],
       {Run("configure", <<"installer", "codex", "hermes">>), Forced(<<"claude-code">>), Undo(<<"hermes">>),
        Undo(<<>>), [Run("configure", <<"installer">>) EXCEPT !.config.router = 2]}),
  Home([Bare EXCEPT !["hermes.yaml"] = Holding({"delegate"}), !["config.toml"] = Holding({"delegate"}),
                    !["openclaw.json"] = Holding({"provider"}), !["mcp-config.json"] = Blank,
                    !["vscode.json"] = [Mine EXCEPT !.plain = FALSE]],
       {Run("configure", <<"hermes", "codex", "openclaw">>), Run("configure", <<"copilot", "mistyped">>), Undo(<<>>),
        Run("delegation", <<"copilot">>), Run("delegation", <<"hermes">>)}),
  Home(Bare, {Run("delegation", <<t>>) : t \in {"claude", "codex", "cursor", "hermes", "openclaw"}}
             \cup {Dry(Run("configure", <<"hermes">>)), Run("configure", <<"claude-code", "openclaw">>), Undo(<<>>)}),
  Home(Bare, {[Run("configure", <<"claude-code", "copilot">>) EXCEPT !.cli = FALSE, !.vscode = TRUE],
              Run("delegation", <<"copilot">>), Undo(<<>>)})}

\* Sizes and thresholds of data/local_models.json, in tenths of a GB.
MCBonsai == [small |-> [gb |-> 60, vram |-> 75, unified |-> None, ram |-> 120],
             big |-> [gb |-> 73, vram |-> 90, unified |-> 160, ram |-> None]]
NeedsOf(vram, unified, ram) == [vendors |-> None, vram |-> vram, unified |-> unified, ram |-> ram]
Tier(id, gb, gguf, needs) == [id |-> id, gb |-> gb, commercial |-> TRUE, default |-> TRUE, gguf |-> gguf, needs |-> needs]
MCTiers ==
  <<[Tier("decider", 85, FALSE, [NeedsOf(200, None, None) EXCEPT !.vendors = {"nvidia"}]) EXCEPT !.default = FALSE],
    Tier("q8", 45, TRUE, NeedsOf(60, 120, 120)), Tier("q4", 28, TRUE, NeedsOf(40, 80, 80)),
    Tier("laya", 9, FALSE, NeedsOf(None, None, 40)), Tier("webgpu", 3, FALSE, None)>>
MCCloud == {[name |-> "flash", tensorx |-> TRUE, direct |-> FALSE], [name |-> "astra", tensorx |-> FALSE, direct |-> TRUE]}

PC(os, ram) == [os |-> os, ram |-> ram, cards |-> None, nvidia |-> None, rocm |-> None]
Machines ==
  {PC("linux", None), PC("linux", 60), PC("linux", 160)}
  \cup {[PC("linux", ram) EXCEPT !.nvidia = sizes] :
          ram \in {80, 320}, sizes \in {<<80>>, <<100>>, <<160>>, <<240>>, <<60, 120>>, <<None, 40>>}}
  \cup {[PC("linux", 320) EXCEPT !.nvidia = <<80>>, !.rocm = <<160>>]}
  \cup {[PC("macos", ram) EXCEPT !.cards = <<[vendor |-> "apple", vram |-> None]>>] : ram \in {80, 160, 240, 360}}
  \cup {[PC("windows", 160) EXCEPT !.cards = <<[vendor |-> "nvidia", vram |-> 40], [vendor |-> "intel", vram |-> 10]>>,
                                   !.nvidia = nv] : nv \in {None, <<120>>}}
Serving(word) == [answers |-> TRUE, models |-> {word}, url |-> "port 1234"]
Box(machine, keys, servers) ==
  [machine |-> machine, keys |-> keys, servers |-> servers, network |-> TRUE, binaries |-> {"hermes"}, directories |-> {}]
Args == [models |-> Groups, harness |-> <<>>, classifier |-> "auto", withBonsai |-> TRUE, withJev |-> TRUE,
         gateway |-> FALSE, dry |-> FALSE, force |-> FALSE, delegate |-> TRUE]
Asker == [yes |-> TRUE, interactive |-> FALSE, confirms |-> FALSE, groups |-> None, harnesses |-> None]
Silent == [Asker EXCEPT !.yes = FALSE]
Keyed == {"OPENROUTER", "TYPESAFE", "OPENAI"}

\* Every machine once, and every way to ask on one machine.
Installs ==
  {RunInstall(Args, Box(machine, {}, <<>>), Asker) : machine \in Machines}
  \cup {RunInstall([Args EXCEPT !.models = models], [Box(PC("linux", 160), keys, servers) EXCEPT !.network = network], asker) :
          models \in {None, {"cloud"}, {"subscription", "jev-local"}, {"bonsai", "jev-local"}}, keys \in {{}, Keyed},
          servers \in {<<>>, <<Serving("bonsai"), Serving("jev")>>}, network \in BOOLEAN,
          asker \in {Asker, Silent, [Silent EXCEPT !.interactive = TRUE, !.groups = {"jev-local"}]}}

MCHomes == UserHomes \cup {Home(Bare, {install}) : install \in Installs \ {None}}
===========================================================================
