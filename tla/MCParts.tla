------------------------------ MODULE MCParts ------------------------------
(* The parts of a gateway that share no state in memory, each by itself in *)
(* one run: the initial state says which part moves, the others stay as    *)
(* they start.                                                             *)
EXTENDS MCSurfaces, MCRouting, MCEvidence, MCInstaller, MCClassify, MCExperiments,
        MCDelegation

VARIABLE part   \* the part that moves

surfaces == <<h, tr, yielded, client>>
parts == <<part, surfaces, g, e, u, k, x, y>>

SurfacesRest == h = Idle(CHOOSE req \in Requests : TRUE) /\ tr = NewTranslation
                /\ yielded = Nothing /\ client = NewClient

ReaderSymmetry == Permutations(Reader)

PartsInit ==
  /\ part \in {"surfaces", "routing", "evidence", "settings", "classify", "experiments",
             "delegation"}
  /\ IF part = "surfaces" THEN Init ELSE SurfacesRest
  /\ IF part = "routing" THEN RoutingInit ELSE g = RoutingStart(CHOOSE s \in Setups : TRUE)
  /\ EvidenceInit
  /\ IF part = "settings" THEN SettingsInit ELSE u = SettingsStart(Home(Bare, {}))
  /\ IF part = "classify" THEN ClassifyInit ELSE k = ClassifyStart(CHOOSE s \in ClassifierSetups : TRUE)
  /\ IF part = "experiments" THEN ExperimentsInit ELSE x = ExperimentStart(PlainDirectory)
  /\ IF part = "delegation" THEN DelegationInit ELSE y = DelegationStart(Message)

SurfacesMove == part = "surfaces" /\ Next /\ UNCHANGED <<part, g, e, u, k, x, y>>
RoutingMove == part = "routing" /\ RoutingNext /\ UNCHANGED <<part, surfaces, e, u, k, x, y>>
EvidenceMove == part = "evidence" /\ EvidenceNext /\ UNCHANGED <<part, surfaces, g, u, k, x, y>>
SettingsMove == part = "settings" /\ SettingsNext /\ UNCHANGED <<part, surfaces, g, e, k, x, y>>

ClassifyMove == part = "classify" /\ ClassifyNext /\ UNCHANGED <<part, surfaces, g, e, u, x, y>>
ExperimentsMove == part = "experiments" /\ ExperimentsNext /\ UNCHANGED <<part, surfaces, g, e, u, k, y>>
DelegationMove == part = "delegation" /\ DelegationNext /\ UNCHANGED <<part, surfaces, g, e, u, k, x>>

PartsNext == SurfacesMove \/ RoutingMove \/ EvidenceMove \/ SettingsMove \/ ClassifyMove
             \/ ExperimentsMove \/ DelegationMove
PartsSpec == PartsInit /\ [][PartsNext]_parts
=============================================================================
