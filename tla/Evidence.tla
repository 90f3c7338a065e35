------------------------------ MODULE Evidence ------------------------------
(***************************************************************************)
(* Where the numbers of the catalog come from: the benchmark client with   *)
(* its cache on disk, shared by every process of one user, its bundled     *)
(* snapshot, and the configuration that turns documents into routes        *)
(* (bench.py, config.py).                                                  *)
(*                                                                         *)
(* A process loads its configuration document by document. Each fetch is   *)
(* in steps, because other processes read and replace the same files in    *)
(* between. A document is known by its path and the tick it was served.    *)
(***************************************************************************)
EXTENDS Catalog, SequencesExt, FiniteSetsExt

CONSTANTS
  Reader,            \* processes that share one cache directory
  Configs,           \* the configurations a process may load or take a snapshot for
  Documents,            \* path -> what the API serves there, apart from its age
  SnapshotAt,        \* when the bundled snapshot was taken, before tick 0
  TTL, MaxStale,     \* of the disk cache
  MaxClock, MaxSlow, \* bounds: the clock, ticks that pass while one process loads
  MaxLoads           \* bound on the loads of all processes

ASSUME EvidenceNumbers ==
  /\ IsFiniteSet(Reader)
  /\ {TTL, MaxStale, MaxClock, MaxSlow, MaxLoads} \subseteq Nat

VARIABLE e   \* the clock, the cache directory, the snapshot and the processes

Path == DOMAIN Documents
Bench(id) == <<"models", id>>
Report(id) == <<"benchmaxxing", id>>
----------------------------------------------------------------------------
(* What a document says (bench.py) *)

\* Each option is <<value, strength>>; the first with a value counts.
Pick(options) ==
  LET known == SelectSeq(options, LAMBDA o : o[1] # None)
  IN IF known = <<>> THEN None ELSE Head(known)

DesignCapability(doc) ==
  IF doc.design = None THEN None
  ELSE <<Within(0, 50 + (doc.design.elo - 1200) \div 4, 100),
         IF doc.design.battles >= 200 THEN "direct" ELSE "weak">>

Mean(all, categories) ==
  <<MapThenSumSet(LAMBDA c : all[c][1], categories) \div Cardinality(categories), "derived">>

\* What stands in for a category nothing measures: summarisation is a mean
\* of its neighbours, general of everything, and design is taken from coding.
WithFallbacks(all) ==
  LET known(among) == {c \in among : all[c] # None}
      parts == known({"long_context", "knowledge", "general"})
      sum   == all @@ (IF parts = {} THEN <<>> ELSE "summarisation" :> Mean(all, parts))
      had   == {c \in DOMAIN sum : sum[c] # None}
      full  == [c \in had |-> sum[c]]
               @@ (IF had = {} THEN <<>> ELSE "general" :> Mean(sum, had))
  IN full @@ (IF "coding" \in had THEN "design" :> <<full["coding"][1], "derived">> ELSE <<>>)

\* The headline numbers first, category scores only after them. `derived`
\* wherever a neighbouring index stands in.
CapabilityEvidence(doc) ==
  LET b == doc.benchmarks
      cats == doc.categories
      general == IF b.intelligence = None THEN None ELSE (3 * b.intelligence) \div 2
  IN WithFallbacks(
       [coding |-> Pick(<< <<b.coding, "direct">>, <<cats.coding, "direct">> >>),
        agentic |-> Pick(<< <<b.agent, "direct">>,
                            <<IF b.terminal = None THEN None ELSE (72 * b.terminal) \div 100, "derived">>,
                            <<cats.agentic, "direct">> >>),
        math |-> Pick(<< <<b.math, "direct">>, <<general, "derived">>, <<cats.science, "derived">> >>),
        knowledge |-> Pick(<< <<general, "derived">>, <<cats.science, "direct">>, <<b.gpqa, "direct">> >>),
        long_context |-> Pick(<< <<b.lcr, "direct">>, <<cats.longContext, "direct">> >>),
        tool_use |-> Pick(<< <<b.tau2, "direct">>, <<general, "derived">>, <<cats.agentic, "derived">> >>),
        general |-> Pick(<< <<general, "derived">> >>),
        design |-> DesignCapability(doc)])

\* Exact platform and provider, then the platform, then an offer that
\* publishes cache prices; the cheapest of those.
PickOffer(doc, wanted) ==
  LET on(o) == wanted # None /\ o.platform = wanted.platform
      exact == {o \in doc.offers : on(o) /\ wanted.provider \in {None, o.provider}}
      loose == {o \in doc.offers : on(o)}
      cached == {o \in doc.offers : o.prices.read # None}
      pool == IF exact # {} THEN exact ELSE IF loose # {} THEN loose
              ELSE IF cached # {} THEN cached ELSE doc.offers
      price(o) == IF exact \cup loose # {} THEN o.prices.in ELSE 3 * o.prices.in + o.prices.out
  IN IF doc.offers = {} THEN None ELSE CHOOSE o \in pool : \A x \in pool : price(o) <= price(x)

ContextLength(doc) ==
  IF doc.context # None THEN doc.context
  ELSE IF doc.offers = {} THEN None ELSE Max({o.context : o \in doc.offers})

TaskTokens(doc) == IF doc.tokens = None \/ doc.tokens.stale \/ doc.tokens.output <= 0
                   THEN None ELSE doc.tokens.output

\* What the snapshot keeps of a document.
MinimalDocument(doc) ==
  [doc EXCEPT !.tokens = IF TaskTokens(doc) = None THEN None ELSE @]
----------------------------------------------------------------------------
(* One route from one entry of the configuration (config.py) *)

Stale(got) == got.source \in {"stale-cache", "bundled-snapshot", "missing"}
Usable(got) == got.source # "missing"
NotFetched == [source |-> "missing", path |-> None, at |-> None]
Content(got) == IF got.source = "bundled-snapshot" THEN MinimalDocument(Documents[got.path])
                ELSE Documents[got.path]

Override(old, by) ==
  [x \in DOMAIN old \cup DOMAIN by |-> IF x \in DOMAIN by THEN by[x] ELSE old[x]]

Known(got, F(_)) == IF Usable(got) THEN F(Content(got)) ELSE None
Either(a, b) == IF a # None THEN a ELSE b

\* The endpoint's own price list, a write premium it does not charge left
\* out; nothing is charged on a plan or on this machine. None is a route
\* without prices.
PricesOf(entry, offer, local) ==
  LET listed == IF entry.prices # None THEN entry.prices
                ELSE IF offer # None THEN offer.prices ELSE None
  IN IF entry.free \/ entry.plan # None \/ (local /\ entry.prices = None) THEN Free
     ELSE IF listed # None /\ ~entry.writePremium THEN [listed EXCEPT !.write = None]
     ELSE listed

\* What `ev`, read from `source`, and the operator say together.
Combined(entry, prices, source, ev, report, context, tokens, provider) ==
  LET stated == DOMAIN entry.capability
  IN [name |-> entry.name, key |-> Either(entry.key, entry.name), vision |-> entry.vision,
      tools |-> entry.tools, context |-> Either(context, 128), maxOutput |-> 32,
      capability |-> Override([c \in DOMAIN ev |-> ev[c][1]], entry.capability),
      strength |-> Override([c \in DOMAIN ev |-> IF entry.like # None THEN "weak" ELSE ev[c][2]],
                            [c \in stated |-> "direct"]),
      override |-> stated,
      stale |-> Stale(source) /\ ~(ev = <<>> /\ stated # {}),
      benchmaxxing |-> IF entry.benchmaxxing # None THEN entry.benchmaxxing
                       ELSE IF Stale(report) THEN 0
                       ELSE Either(Known(report, LAMBDA doc : doc.score), 0),
      latency |-> 5, appetite |-> 10, taskTokens |-> tokens,
      plan |-> entry.plan, reference |-> entry.listPrice,
      prices |-> prices, cache |-> provider.cache]

\* build_model: its own document `own`, its benchmaxxing `report` and the
\* document `alias` of the model it is said to resemble, whose capabilities
\* replace its own. None is the ValueError of a route without prices.
BuildModel(entry, providers, own, report, alias) ==
  LET provider == providers[entry.provider]
      local    == Either(entry.local, provider.local)
      source   == IF entry.like # None THEN alias ELSE own
      prices   == PricesOf(entry, Known(own, LAMBDA doc : PickOffer(doc, entry.offer)), local)
  IN IF prices = None THEN None
     ELSE Combined(entry, prices, source, Either(Known(source, CapabilityEvidence), <<>>), report,
                   Either(entry.context, Either(Known(own, ContextLength), Known(alias, ContextLength))),
                   Either(Known(own, TaskTokens), Known(alias, TaskTokens)), provider)

\* apply_token_appetite: tokens per task against the catalog's median, within
\* a quarter and four times, in tenths.
Median(tokens) ==
  LET s == SortSeq(tokens, <)
      n == Len(s)
  IN IF n % 2 = 1 THEN s[(n + 1) \div 2] ELSE (s[n \div 2] + s[n \div 2 + 1]) \div 2

ApplyTokenAppetite(models) ==
  LET measured == SelectSeq(models, LAMBDA m : m.taskTokens # None)
      median == Median([i \in DOMAIN measured |-> measured[i].taskTokens])
  IN IF Len(measured) < 2 THEN models
     ELSE [i \in DOMAIN models |->
             IF models[i].taskTokens = None THEN models[i]
             ELSE [models[i] EXCEPT !.appetite =
                     Within(2, (10 * models[i].taskTokens) \div median, 40)]]

\* enabled_names and select_models; None is the error of an unknown name.
SelectModels(cfg) ==
  LET known == {m.name : m \in Range(cfg.models)}
  IN IF cfg.enabled = None THEN cfg.models
     ELSE IF ~(cfg.enabled \subseteq known) THEN None
     ELSE SelectSeq(cfg.models, LAMBDA m : m.name \in cfg.enabled)

\* validate_paid_rule
PaidRuleSound(cfg, models) ==
  cfg.paidRule = None
    \/ \E m \in Range(models) : m.name = cfg.paidRule /\ m.plan = None /\ ~IsFree(m.prices)

\* resolve_reference: the index the answers of other routes are held to.
ResolveReference(cfg, got) ==
  LET measured == IF Usable(got) THEN Content(got).benchmarks.intelligence ELSE None
  IN IF measured # None THEN [index |-> measured, source |-> got.source]
     ELSE IF cfg.threshold # None THEN [index |-> cfg.threshold, source |-> "configured"]
     ELSE [index |-> None, source |-> "none"]

\* for_http: without the routes only a launched client can reach.
HttpRoutable(cfg, models) ==
  {m \in Range(models) : \A x \in Range(cfg.models) : x.name = m.name => ~x.launchOnly}

\* Routes that are switched off but give a plan its list price.
References(cfg, chosen) ==
  LET names == {m.name : m \in Range(chosen)}
      wanted == {m.listPrice : m \in Range(chosen)} \ names
  IN SelectSeq(cfg.models, LAMBDA m : m.name \in wanted)

\* The documents a configuration asks for, in order.
Needs(cfg) ==
  LET asks(m) == (IF m.bench = None THEN <<>>
                  ELSE << <<m.name, "own", Bench(m.bench)>>, <<m.name, "report", Report(m.bench)>> >>)
                 \o (IF m.like = None THEN <<>> ELSE << <<m.name, "alias", Bench(m.like)>> >>)
      chosen == SelectModels(cfg)
      all(ms) == FlattenSeq([i \in DOMAIN ms |-> asks(ms[i])])
  IN IF chosen = None THEN <<>>
     ELSE all(chosen) \o (IF cfg.reference = None THEN <<>>
                          ELSE << <<"policy", "reference", Bench(cfg.reference)>> >>)
          \o all(References(cfg, chosen))

\* Whatever a configuration may ask for has a place in the cache.
Need == STRING \X {"own", "report", "alias", "reference"} \X Path
ASSUME ConfigsAsk == \A cfg \in Configs : Needs(cfg) \in Seq(Need)

\* Every route and every reference has prices, and the operator's rule pays.
Accepted(cfg, built, others, reference) ==
  LET priced(ms) == \A i \in DOMAIN ms : ms[i] # None
  IN IF ~priced(built) \/ ~priced(others) \/ ~PaidRuleSound(cfg, built) THEN None
     ELSE [models |-> HttpRoutable(cfg, ApplyTokenAppetite(built)), references |-> others,
           reference |-> reference]

\* load_config, once every document is in. `got` maps a need to its answer.
LoadConfig(cfg, got) ==
  LET answer(name, kind) ==
        LET asked == {n \in DOMAIN got : n[1] = name /\ n[2] = kind}
        IN IF asked = {} THEN NotFetched ELSE got[CHOOSE n \in asked : TRUE]
      all(ms) == [i \in DOMAIN ms |->
                    BuildModel(ms[i], cfg.providers, answer(ms[i].name, "own"),
                               answer(ms[i].name, "report"), answer(ms[i].name, "alias"))]
      chosen == SelectModels(cfg)
  IN IF chosen = None THEN None
     ELSE Accepted(cfg, all(chosen), all(References(cfg, chosen)),
                   ResolveReference(cfg, answer("policy", "reference")))
----------------------------------------------------------------------------
(* One fetch *)

\* A file is an inode: a rename replaces which one a name means, while those
\* who have it open go on writing to it. What the name means and what every
\* process has open are all there are at once.
NoFile == 0
Inodes == 1..(Cardinality(Reader) + 1)
Empty == [at |-> None, state |-> "empty", mtime |-> 0]
CachePath == [disk |-> NoFile, tmp |-> NoFile, inode |-> [i \in Inodes |-> Empty]]

NewReader == [pc |-> "idle", job |-> "load", cfg |-> None, todo |-> <<>>, got |-> <<>>,
              offline |-> FALSE, age |-> None, body |-> None, handle |-> NoFile, slow |-> 0,
              since |-> 0, loaded |-> None]

Reads(p, s) == e' = [e EXCEPT !.reader[p] = s]
Wanted(p) == Head(e.reader[p].todo)[3]
CacheFile(p) == e.file[Wanted(p)]
Readable(p) ==
  CacheFile(p).disk # NoFile /\ CacheFile(p).inode[CacheFile(p).disk].state = "whole"

\* The client of a refresh takes nothing from disk.
Ttl(s) == IF s.job = "load" THEN TTL ELSE 0
FreshEnough(s) == s.age # None /\ s.age <= MaxStale

\* Mutant: what an offline client may use counts as fresh.
SourceOffline(s) == IF s.age < Ttl(s) \/ s.offline THEN "cache" ELSE "stale-cache"

Source(s) == IF s.age < Ttl(s) THEN "cache" ELSE "stale-cache"

\* The document is in; the next one is asked for.
Answered(p, source, at) ==
  LET s == e.reader[p]
      t == Tail(s.todo)
      r == [source |-> source, path |-> Wanted(p), at |-> at]
  IN [s EXCEPT !.got = Override(@, [n \in {Head(s.todo)} |-> r]),
               !.todo = t, !.pc = IF t = <<>> THEN "building" ELSE "stat",
               !.age = None, !.body = None, !.handle = NoFile]

CachedAt(p) == CacheFile(p).inode[CacheFile(p).disk].at

StartLoad(p, cfg) ==
  /\ e.reader[p].pc = "idle" /\ e.loads < MaxLoads
  /\ e' = [e EXCEPT !.loads = @ + 1,
              !.reader[p] = [NewReader EXCEPT
                 !.pc = IF Needs(cfg) = <<>> THEN "building" ELSE "stat",
                 !.job = cfg.job, !.cfg = cfg, !.todo = Needs(cfg),
                 !.offline = cfg.offline,
                 !.since = e.now]]

Stat(p) ==
  LET s == [e.reader[p] EXCEPT !.age =
              IF CacheFile(p).disk = NoFile THEN None
              ELSE e.now - CacheFile(p).inode[CacheFile(p).disk].mtime]
  IN /\ e.reader[p].pc = "stat"
     /\ Reads(p, [s EXCEPT !.pc =
          IF FreshEnough(s) /\ (s.offline \/ s.age < Ttl(s)) THEN "cached"
          ELSE IF s.offline THEN "fallback" ELSE "network"])

ReadCached(p) ==
  LET s == e.reader[p]
  IN /\ s.pc = "cached"
     /\ Reads(p, IF Readable(p) THEN Answered(p, Source(s), CachedAt(p))
                 ELSE [s EXCEPT !.pc = IF s.offline THEN "fallback" ELSE "network"])

\* The API answers, or any failure sends the client to its older copies.
Network(p) ==
  /\ e.reader[p].pc = "network"
  /\ \/ Reads(p, [e.reader[p] EXCEPT !.pc = "open", !.body = e.now])
     \/ Reads(p, [e.reader[p] EXCEPT !.pc = "fallback"])

\* The temporary file has one name for all processes; opening it empties it.
OpenTmp(p) ==
  LET f == CacheFile(p)
      open == {f.disk} \cup {e.reader[q].handle : q \in
                 {q \in Reader : e.reader[q].todo # <<>> /\ Wanted(q) = Wanted(p)}}
      i == IF f.tmp # NoFile THEN f.tmp ELSE Min(Inodes \ open)
  IN /\ e.reader[p].pc = "open"
     /\ e' = [e EXCEPT !.reader[p].pc = "write", !.reader[p].handle = i,
                       !.file[Wanted(p)].tmp = i, !.file[Wanted(p)].inode[i] = Empty]

\* Over what another process wrote since, bytes of a longer body may remain.
WriteTmp(p) ==
  LET s == e.reader[p]
      i == s.handle
  IN /\ s.pc = "write"
     /\ \E state \in IF CacheFile(p).inode[i].state = "empty" THEN {"whole"} ELSE {"whole", "broken"} :
          e' = [e EXCEPT !.reader[p].pc = "replace",
                         !.file[Wanted(p)].inode[i] = [at |-> s.body, state |-> state, mtime |-> e.now]]

\* The rename fails if another process has renamed the file already.
ReplaceCached(p) ==
  /\ e.reader[p].pc = "replace"
  /\ e' = IF CacheFile(p).tmp = NoFile
          THEN [e EXCEPT !.reader[p].pc = "fallback", !.reader[p].handle = NoFile]
          ELSE [e EXCEPT !.file[Wanted(p)].disk = CacheFile(p).tmp,
                         !.file[Wanted(p)].tmp = NoFile,
                         !.reader[p] = Answered(p, "network", e.reader[p].body)]

\* The older copy with the age it had at first, else the snapshot.
FallBack(p) ==
  LET s == e.reader[p]
      snap == IF s.job = "load" /\ e.snapshot # None /\ Wanted(p) \in DOMAIN e.snapshot
              THEN e.snapshot[Wanted(p)] ELSE None
  IN /\ s.pc = "fallback"
     /\ Reads(p, IF FreshEnough(s) /\ Readable(p) THEN Answered(p, Source(s), CachedAt(p))
                 ELSE IF snap # None THEN Answered(p, "bundled-snapshot", snap)
                 ELSE Answered(p, "missing", None))

\* The configuration is loaded, or refused with a ValueError.
Built(p) ==
  LET s == e.reader[p]
  IN /\ s.pc = "building" /\ s.job = "load"
     /\ Reads(p, [s EXCEPT !.pc = "up", !.loaded = LoadConfig(s.cfg, s.got)])

\* build_snapshot raises unless every model document is live; the file is
\* then rewritten in place, here by one process at a time.
SnapshotWritten(p) ==
  LET s == e.reader[p]
      live == {n \in DOMAIN s.got : s.got[n].source \in {"network", "cache"}}
  IN /\ s.pc = "building" /\ s.job = "snapshot"
     /\ e' = [e EXCEPT !.reader[p] = NewReader,
              !.snapshot = IF \E n \in DOMAIN s.got : n[2] # "report" /\ n \notin live THEN @
                           ELSE [path \in {n[3] : n \in live} |->
                                   s.got[CHOOSE n \in live : n[3] = path].at]]

\* A process ends, at any moment.
ReaderEnds(p) == e.reader[p].pc # "idle" /\ Reads(p, NewReader)

Loading(p) == e.reader[p].pc \notin {"idle", "up"}

Second ==
  /\ e.now < MaxClock /\ \A p \in Reader : Loading(p) => e.reader[p].slow < MaxSlow
  /\ e' = [e EXCEPT !.now = @ + 1,
                    !.reader = [p \in Reader |-> IF Loading(p) THEN [e.reader[p] EXCEPT !.slow = @ + 1]
                                                ELSE e.reader[p]]]

EvidenceInit ==
  e = [now |-> 0, loads |-> 0, file |-> [path \in Path |-> CachePath],
       snapshot |-> [path \in Path |-> SnapshotAt], reader |-> [p \in Reader |-> NewReader]]

EvidenceNext ==
  \/ \E p \in Reader, cfg \in Configs : StartLoad(p, cfg)
  \/ \E p \in Reader : \/ Stat(p) \/ ReadCached(p) \/ Network(p) \/ OpenTmp(p) \/ WriteTmp(p)
                       \/ ReplaceCached(p) \/ FallBack(p) \/ Built(p) \/ SnapshotWritten(p)
                       \/ ReaderEnds(p)
  \/ Second
----------------------------------------------------------------------------
(* Properties *)

\* A capability the router counts as direct evidence was stated by the
\* operator, or rests on a document the API itself served for this very
\* model within the cache's lifetime: no older copy, snapshot or borrowed
\* model passes for a measurement, whichever processes write the shared
\* cache, fail in the middle or work offline meanwhile.
DirectIsCurrent ==
  \A p \in Reader : e.reader[p].pc = "up" /\ e.reader[p].loaded # None =>
    \A m \in e.reader[p].loaded.models, c \in Category :
      EvidenceStrength(m, c) = "direct" =>
        \/ c \in m.override
        \/ \E n \in DOMAIN e.reader[p].got :
             /\ n[1] = m.name /\ n[2] = "own"
             /\ e.reader[p].got[n].at > e.reader[p].since - TTL - MaxSlow
=============================================================================
