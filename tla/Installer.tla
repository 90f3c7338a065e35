----------------------------- MODULE Installer ------------------------------
(* installer.py: from flags, answers, the machine and what already runs on   *)
(* it to the run of Settings that writes the router's configuration and      *)
(* points the chosen agents at the router.                                    *)
EXTENDS Settings, Machine

CONSTANTS CloudModels   \* [name, tensorx, direct]: which other providers also sell it

Groups == {"cloud", "subscription", "bonsai", "jev-local"}
AllAgents == <<"claude-code", "codex", "opencode", "copilot", "cursor", "openclaw", "hermes">>

\* A binary on PATH or the directory of its settings.
Detected(box) == SelectSeq(AllAgents, LAMBDA h : h \in box.binaries \/ h \in box.directories)

\* Servers that answer on loopback, in the order of their ports.
ProbeLocal(box) == SelectSeq(box.servers, LAMBDA s : s.answers)
MatchEndpoint(endpoints, word) ==
  LET hits == {i \in DOMAIN endpoints : word \in endpoints[i].models}
  IN IF hits = {} THEN None ELSE endpoints[Min(hits)].url

Confirm(asker, default) == CASE asker.yes -> TRUE
                             [] ~asker.yes /\ ~asker.interactive -> default
                             [] OTHER -> asker.confirms
Replied(asker, answer, default) == IF asker.interactive /\ answer # None THEN answer ELSE default

\* Without a flag the user is asked, with what was found as the default.
PlanInstall(args, box, endpoints, asker) ==
  LET jevRuns == MatchEndpoint(endpoints, "jev")
      groups == IF args.models # None THEN args.models
                ELSE Replied(asker, asker.groups, {"cloud"} \cup (IF jevRuns = None THEN {} ELSE {"jev-local"}))
      harnesses == IF args.harness # None THEN args.harness
                   ELSE Replied(asker, asker.harnesses, If(asker.interactive \/ asker.yes, Detected(box)))
      gateway == args.gateway \/ (Contains(harnesses, "claude-code") /\ "subscription" \in groups
                                   /\ asker.interactive /\ Confirm(asker, FALSE))
  IN [groups |-> groups, harnesses |-> harnesses, gateway |-> gateway,
      bonsai |-> IF "bonsai" \in groups THEN MatchEndpoint(endpoints, "bonsai") ELSE None,
      jev |-> IF "jev-local" \in groups THEN jevRuns ELSE None,
      classifier |-> CASE args.classifier # "auto" -> args.classifier
                       [] args.classifier = "auto" /\ "jev-local" \in groups -> "jev-local"
                       [] args.classifier = "auto" /\ "jev-local" \notin groups /\ "TYPESAFE" \in box.keys -> "hosted"
                       [] OTHER -> "heuristic"]

\* A download that was asked for, fits and is agreed to; a failing one ends the
\* installer before it has written anything.
WantsModel(kind, args, p, rec) ==
  /\ IF kind = "bonsai" THEN "bonsai" \in p.groups /\ p.bonsai = None /\ args.withBonsai /\ rec.bonsai.fits
     ELSE "jev-local" \in p.groups /\ p.jev = None /\ args.withJev /\ rec.jev.id # None /\ rec.jev.gguf

Download(box) == box.network
FetchLocal(kind, args, p, rec, asker) ==
  IF ~WantsModel(kind, args, p, rec) \/ ~Confirm(asker, FALSE) THEN p
  ELSE IF kind = "bonsai" THEN [p EXCEPT !.bonsai = "port 8081"] ELSE [p EXCEPT !.jev = "port 8082"]

\* The fallback once it is clear that no Jev-class endpoint will serve.
Settle(p, box) ==
  IF p.classifier = "jev-local" /\ p.jev = None
  THEN [p EXCEPT !.classifier = IF "TYPESAFE" \in box.keys THEN "hosted" ELSE "heuristic"] ELSE p

SettleKeeps(p, box) == p

Listed(name, provider, basis) == [name |-> name, provider |-> provider, basis |-> basis]

CloudRoutes(keys) ==
  UNION {{Listed(<<m.name, "openrouter">>, "openrouter", "bench")}
         \cup (IF m.tensorx THEN {Listed(<<m.name, "tensorx">>, "tensorx", "bench")} ELSE {})
         \cup (IF m.direct /\ "OPENAI" \in keys THEN {Listed(<<m.name, "openai">>, "openai", "bench")} ELSE {})
         : m \in CloudModels}

\* The router's configuration: routes of the chosen groups, those of them whose
\* key was set enabled. An empty `enabled` is left out, which enables every route.
RenderConfig(p, keys) ==
  LET cloud == IF "cloud" \in p.groups THEN CloudRoutes(keys) ELSE {}
      planRoutes == IF "subscription" \in p.groups THEN {Listed(<<"claude", "plan">>, "anthropic", "plan")} ELSE {}
      bonsai == IF p.bonsai # None THEN {Listed(<<"bonsai", "local">>, "local-bonsai", "free")} ELSE {}
      key(r) == CASE r.provider = "openrouter" -> "OPENROUTER" [] r.provider = "tensorx" -> "TENSORX" [] OTHER -> "OPENAI"
      ready == {r \in cloud : key(r) \in keys} \cup planRoutes \cup bonsai
  IN [providers |-> (IF "cloud" \in p.groups THEN {"openrouter", "tensorx"} ELSE {})
                    \cup (IF "cloud" \in p.groups /\ "OPENAI" \in keys THEN {"openai"} ELSE {})
                    \cup (IF planRoutes = {} THEN {} ELSE {"anthropic"}) \cup (IF bonsai = {} THEN {} ELSE {"local-bonsai"}),
      models |-> cloud \cup planRoutes \cup bonsai,
      enabled |-> IF ready = {} THEN None ELSE {r.name : r \in ready},
      backend |-> CASE p.classifier = "jev-local" /\ p.jev # None -> "local-jev"
                    [] p.classifier \in {"hosted", "laya"} -> p.classifier
                    [] OTHER -> "heuristic",
      server |-> p.jev]

\* The launcher's file names the same routes whatever was found.
RenderLauncher(p) == [subscription |-> "subscription" \in p.groups]

\* None: the installed router takes the configuration.
ValidateRouterConfig(config) ==
  CASE config.backend \notin {"local-jev", "hosted", "laya", "heuristic"} -> "unknown backend"
    [] \E r \in config.models : r.provider \notin config.providers -> "unknown provider"
    [] \E r \in config.models : r.basis \notin {"bench", "prices", "free", "plan", "like"} -> "no price"
    [] OTHER -> None

\* A configuration the installed router does not take is written again with
\* the heuristic classifier.
Accepting(p, config) ==
  IF ValidateRouterConfig(config) # None /\ p.classifier = "jev-local" THEN [p EXCEPT !.classifier = "heuristic"] ELSE p

Configured(args, box, p, hw, rec) ==
  [Run("configure", <<"installer">> \o p.harnesses) EXCEPT
     !.gateway = p.gateway, !.dry = args.dry, !.force = args.force,
     !.delegate = args.delegate /\ box.machine.os # "windows",
     !.cli = "claude-code" \in box.binaries, !.vscode = "vscode" \in box.directories,
     !.config = [router |-> RenderConfig(p, box.keys), launcher |-> RenderLauncher(p),
                 plan |-> p, machine |-> hw, rec |-> rec]]

Installed(args, box, p, hw, rec) ==
  Configured(args, box, Accepting(p, RenderConfig(p, box.keys)), hw, rec)

Fetched(args, box, asker, p, hw, rec) ==
  IF /\ ~args.dry /\ ~Download(box) /\ Confirm(asker, FALSE)
     /\ \E kind \in {"bonsai", "jev"} : WantsModel(kind, args, p, rec)
  THEN None
  ELSE Installed(args, box, Settle(FetchLocal("jev", args, FetchLocal("bonsai", args, p, rec, asker), rec, asker), box),
                 hw, rec)

\* None: the installer ended before it wrote anything.
RunInstall(args, box, asker) ==
  LET on(hw) == Fetched(args, box, asker, PlanInstall(args, box, ProbeLocal(box), asker), hw, Recommend(hw))
  IN on(Detect(box.machine))
----------------------------------------------------------------------------
\* Every configuration the installer writes loads: each route has a provider
\* and a price, each enabled name is a route, and the classifier it names has a
\* server to ask.
ConfigLoads(config) ==
  /\ ValidateRouterConfig(config.router) = None
  /\ config.router.enabled # None => config.router.enabled \subseteq {r.name : r \in config.router.models}
  /\ config.router.backend = "local-jev" => config.router.server # None
  /\ config.plan.classifier = "jev-local" => config.router.backend = "local-jev"

\* What the installer configures works on the machine it found: its files
\* load, and the two local models it may fetch fit the memory together.
InstallSound ==
  \A a \in u.asked : "machine" \in DOMAIN a.config =>
    ConfigLoads(a.config) /\ PicksFit(a.config.machine, a.config.rec.bonsai, a.config.rec.jev)
=============================================================================
