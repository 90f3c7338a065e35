----------------------------- MODULE MCEvidence -----------------------------
(* Evidence with two models the API documents, and three entries: one with *)
(* its own document, one that resembles another model, and a plan's.       *)
EXTENDS Evidence, TLC
NoNumbers == [intelligence |-> None, coding |-> None, agent |-> None, terminal |-> None, math |-> None,
              gpqa |-> None, lcr |-> None, tau2 |-> None]
NoCategories == [coding |-> None, agentic |-> None, science |-> None, longContext |-> None]
Offer(platform, in, read) == [platform |-> platform, provider |-> "host", context |-> 60,
                              prices |-> [in |-> in, out |-> 4, read |-> read, write |-> 3]]
Document == [benchmarks |-> NoNumbers, categories |-> NoCategories, design |-> None, offers |-> {},
             context |-> None, tokens |-> None, score |-> None]
MCDocuments ==
     Bench("x") :> [Document EXCEPT !.benchmarks = [NoNumbers EXCEPT !.intelligence = 40, !.coding = 55, !.terminal = 50],
                      !.design = [elo |-> 1240, battles |-> 90], !.context = 100,
                      !.offers = {Offer("a", 2, 1), Offer("b", 1, None)},
                      !.tokens = [output |-> 8, stale |-> FALSE]]
  @@ Report("x") :> [Document EXCEPT !.score = 3]
  @@ Bench("y") :> [Document EXCEPT !.categories = [NoCategories EXCEPT !.science = 50, !.agentic = 45],
                      !.benchmarks = [NoNumbers EXCEPT !.math = 70], !.offers = {Offer("a", 1, None)},
                      !.design = [elo |-> 1300, battles |-> 300], !.tokens = [output |-> 2, stale |-> FALSE]]
Entry == [name |-> "a", key |-> None, provider |-> "p", bench |-> None, like |-> None, offer |-> None,
          prices |-> None, writePremium |-> TRUE, free |-> FALSE, local |-> None, plan |-> None,
          listPrice |-> None, capability |-> <<>>, benchmaxxing |-> None, context |-> None,
          vision |-> FALSE, tools |-> TRUE, launchOnly |-> FALSE]
MCProviders == "p" :> [local |-> FALSE, cache |-> [ttl |-> 2, min |-> 4, hit |-> 9]]
EntryA == [Entry EXCEPT !.bench = "x", !.offer = [platform |-> "a", provider |-> None]]
EntryB == [Entry EXCEPT !.name = "b", !.like = "y", !.capability = ("coding" :> 70), !.writePremium = FALSE,
             !.prices = [in |-> 2, out |-> 3, read |-> None, write |-> 3]]
EntryP == [Entry EXCEPT !.name = "p", !.plan = "claude", !.listPrice = "b", !.launchOnly = TRUE,
             !.capability = ("math" :> 90)]
Config(job, offline, models, enabled, paid, reference) ==
  [job |-> job, offline |-> offline, models |-> models, enabled |-> enabled,
   providers |-> MCProviders, paidRule |-> paid, reference |-> reference, threshold |-> 50]
MCConfigs ==
  {Config("load", FALSE, <<EntryA>>, None, "a", None),
   Config("load", TRUE, <<EntryA>>, None, None, None),
   Config("snapshot", FALSE, <<EntryA>>, None, None, None),
   Config("load", TRUE, <<EntryB, EntryP>>, {"b"}, None, None),
   Config("load", FALSE, <<EntryB, EntryP>>, {"p"}, "p", "y"),
   Config("load", TRUE, <<EntryA, EntryP>>, {"a", "z"}, None, "y")}
MCSnap == -9
=============================================================================
