----------------------------- MODULE ModelRegistry -----------------------------
(***************************************************************************)
(* The MLflow registry of the classifier, the service process that         *)
(* promotes versions and serves one of them, and the steps by which        *)
(* register_model adds a version.  Stages and tags are changed by single   *)
(* calls to MLflow, so that a worker, a `make train` and the service can   *)
(* get between each other's calls.                                         *)
(***************************************************************************)
EXTENDS Naturals, Sequences, FiniteSetsExt

CONSTANTS
    Client,     \* who trains or asks for a promotion
    NoClient,   \* nobody
    Cli,        \* `make train`
    Auc         \* test AUCs a training can end with

ASSUME ClientsAreKnown == Cli \in Client /\ NoClient \notin Client
ASSUME AucIsPositive == Auc \subseteq Nat \ {0}

VARIABLES
    versions,   \* the registered versions, by number
    inbox,      \* POST /promotion/promote received and not looked at yet
    promo,      \* the request the promote handler is busy with
    served,     \* the version the service has loaded, 0 for none
    torn,       \* history: a handler stopped between its two transitions
    mixed       \* history: a trainer took another's version for its own

registryVars == <<versions, inbox, promo, served, torn, mixed>>

Stage   == {"None", "Staging", "Production", "Archived"}
\* auc is what the pipeline is worth, tag the tag the gates read: 0 until it is
\* set.  The recall tag is set with it and passes its gate by the choice of the
\* threshold, so that having a tag stands for it.  granted is a history: whom
\* the version was promoted for.
Version == [stage : Stage, auc : Auc, tag : Auc \cup {0},
            by : Client, granted : Client \cup {NoClient}]
Request == [client : Client, target : Nat, try : Nat]
Handler == [step : {"idle", "archive", "promote"},
            req : Request, prev : Nat]

NoRequest == [client |-> Cli, target |-> 0, try |-> 0]
IdleHandler == [step |-> "idle", req |-> NoRequest, prev |-> 0]

RegistryTypeOK ==
    /\ versions \in Seq(Version)
    /\ inbox \subseteq Request
    /\ promo \in Handler
    /\ served \in 0 .. Len(versions)
    /\ torn \in BOOLEAN
    /\ mixed \in BOOLEAN

\* After the setup of the README: one version in Staging, and a service started
\* before or after it was trained.
RegistryInit ==
    /\ \E a \in Auc :
          versions = <<[stage |-> "Staging", auc |-> a, tag |-> a,
                        by |-> Cli, granted |-> NoClient]>>
    /\ inbox = {}
    /\ promo = IdleHandler
    /\ served \in {0, 1}
    /\ torn = FALSE
    /\ mixed = FALSE

-----------------------------------------------------------------------------
Numbers == 1 .. Len(versions)

In(stage) == {v \in Numbers : versions[v].stage = stage}

\* get_latest_versions: the highest number in the stage.
Latest(stage) == IF In(stage) = {} THEN 0 ELSE Max(In(stage))

Promoted == {v \in Numbers : versions[v].granted # NoClient}

\* load_model.  Mutants: the newest version comes first; nothing but Production
\* is loaded.
ProductionOnly == Latest("Production")
NewestVersion == IF In("Staging") # {} THEN Latest("Staging")
                 ELSE Latest("Production")
VersionToLoad == IF In("Production") # {} THEN Latest("Production")
                 ELSE Latest("Staging")

-----------------------------------------------------------------------------
(* register_model.                                                         *)

\* mlflow.sklearn.log_model(registered_model_name=...).
LogModel(c, a) ==
    /\ versions' = Append(versions, [stage |-> "None", auc |-> a, tag |-> 0,
                                     by |-> c, granted |-> NoClient])
    /\ UNCHANGED <<inbox, promo, served, torn, mixed>>

\* archive_existing_versions archives the other versions of the stage.
\* Mutant: whatever is in use is archived.
ArchiveInUse(v) == versions[v].stage \in {"Staging", "Production"}
ArchivedByStaging(v) == versions[v].stage = "Staging"

\* The version with the highest number goes to Staging, whoever logged it.
StageLatest(c) ==
    LET last == Len(versions) IN
       /\ versions' = [v \in Numbers |->
             IF v = last THEN [versions[v] EXCEPT !.stage = "Staging"]
             ELSE IF ArchivedByStaging(v)
                  THEN [versions[v] EXCEPT !.stage = "Archived"]
             ELSE versions[v]]
       /\ mixed' = (mixed \/ versions[last].by # c)
       /\ UNCHANGED <<inbox, promo, served, torn>>

\* A retrain takes the version in Staging for the one it has just registered.
TakeStaging(c) ==
    /\ mixed' = (mixed \/ \E v \in In("Staging") : versions[v].by # c)
    /\ UNCHANGED <<versions, inbox, promo, served, torn>>

TagVersion(v, a) ==
    /\ versions' = [versions EXCEPT ![v].tag = a]
    /\ UNCHANGED <<inbox, promo, served, torn, mixed>>

-----------------------------------------------------------------------------
(* POST /promotion/promote.  The handler awaits nothing: the service does  *)
(* one promotion at a time and answers it before the next.                 *)

\* Gates 1 to 3, over tags.  Mutants: each leaves out one gate.
GateAnyStage(v) ==
    /\ versions[v].tag # 0
    /\ In("Production") # {} =>
          versions[v].tag >= versions[Latest("Production")].tag
GateAnyAuc(v) == versions[v].stage = "Staging" /\ versions[v].tag # 0
Gate(v) ==
    /\ versions[v].stage = "Staging"
    /\ versions[v].tag # 0
    /\ In("Production") # {} =>
          versions[v].tag >= versions[Latest("Production")].tag

Receive(req) ==
    /\ inbox' = inbox \cup {req}
    /\ UNCHANGED <<versions, promo, served, torn, mixed>>

Refuse(req) ==
    /\ promo.step = "idle"
    /\ req \in inbox
    /\ ~Gate(req.target)
    /\ inbox' = inbox \ {req}
    /\ UNCHANGED <<versions, promo, served, torn, mixed>>

\* The gates are passed; with a Production version its archiving is next.
PassGates(req) ==
    /\ promo.step = "idle"
    /\ req \in inbox
    /\ Gate(req.target)
    /\ inbox' = inbox \ {req}
    /\ promo' = [step |-> IF In("Production") = {} THEN "promote" ELSE "archive",
                 req |-> req, prev |-> Latest("Production")]
    /\ UNCHANGED <<versions, served, torn, mixed>>

\* Mutant: the previous version keeps its stage.
LeftInPlace(v) == versions
Retired(v) == [versions EXCEPT ![v].stage = "Archived"]

ArchivePrevious ==
    /\ promo.step = "archive"
    /\ versions' = Retired(promo.prev)
    /\ promo' = [promo EXCEPT !.step = "promote"]
    /\ UNCHANGED <<inbox, served, torn, mixed>>

Promote ==
    /\ promo.step = "promote"
    /\ versions' = [versions EXCEPT ![promo.req.target].stage = "Production",
                                    ![promo.req.target].granted = promo.req.client]
    /\ promo' = IdleHandler
    /\ UNCHANGED <<inbox, served, torn, mixed>>

Torn == torn \/ (promo.step = "promote" /\ promo.prev # 0)

\* A transition fails: the handler ends in a 500 and undoes nothing.
PromoteFails ==
    /\ promo.step # "idle"
    /\ promo' = IdleHandler
    /\ torn' = Torn
    /\ UNCHANGED <<versions, inbox, served, mixed>>

\* The service dies and starts again: the lifespan loads a version.
RestartService ==
    /\ inbox' = {}
    /\ promo' = IdleHandler
    /\ torn' = Torn
    /\ served' = VersionToLoad
    /\ UNCHANGED <<versions, mixed>>
=============================================================================
