------------------------------- MODULE Startup -------------------------------
(***************************************************************************)
(* How a server process of src/src/infra/runtime.py comes up and goes down: *)
(* its settings from their layers, the checks before and while the parts   *)
(* are built, the embedding model it finds in the ledger or puts there,    *)
(* the worker and the threads of src/src/application.py, stop and crash.   *)
(* What its threads do is in WorkerRuntime, and the migrations, one run of *)
(* which is a step here, are in Migrations.                                *)
(*                                                                         *)
(* Only keys that are compared with something are there; fractions of a    *)
(* second or of one are counted in tenths.  A worker row is new with every *)
(* start, so that it is never STOPPED at its registration; what is not     *)
(* installed, such as a client library, is left out.                       *)
(***************************************************************************)
EXTENDS Integers, FiniteSets, Sequences, TLC

CONSTANTS Servers,        \* processes that share the ledgers
          Layers,         \* what each may be started with: [file, profile, environment,
                          \* bucket, variables]
          ModelOf,        \* the embedding model of each one's release
          MaxLaunches,    \* bound: processes started
          LongestPeriod,  \* that a timedelta holds: 999999999 days
          Malformed       \* a value that is not of the type of its key

\* The variables of a process whose value may be such that only the part that reads it finds
\* it wrong: a cache of models inside the project (HF_HOME, and HF_HUB_CACHE alike), and an
\* address that the client of the cache cannot parse.
LateVariables == {"HF_HOME", "REDIS_URL"}

ASSUME StartupAssumption ==
    /\ MaxLaunches \in Nat /\ LongestPeriod \in Nat
    /\ \A s \in Servers : \A layers \in Layers[s] : layers.variables \subseteq LateVariables

VARIABLES server,    \* the process of each server
          registry,  \* embedding_models: the model of each active row
          launches   \* processes started so far

startupVars == <<server, registry, launches>>

DefaultPeriods ==
       "indexing.worker.heartbeat-interval" :> 100 @@ "indexing.worker.dead-threshold" :> 300
    @@ "indexing.worker.poll-interval" :> 10 @@ "indexing.worker.empty-poll-max" :> 100
    @@ "indexing.worker.lease-duration" :> 3000 @@ "indexing.worker.lease-renew-interval" :> 600
    @@ "indexing.worker.recovery-interval" :> 300 @@ "indexing.worker.shutdown-grace" :> 300
    @@ "indexing.worker.retry-initial" :> 100 @@ "indexing.worker.retry-max" :> 3000
    @@ "embedding.connect-timeout" :> 50 @@ "embedding.response-timeout" :> 50
    @@ "embedding.document-batch-response-timeout" :> 300 @@ "embedding.circuit-open-seconds" :> 300
    @@ "sync.dispatcher.poll-interval" :> 10 @@ "sync.dispatcher.lease-duration" :> 300
    @@ "sync.dispatcher.recovery-interval" :> 100
    @@ "sync.dispatcher.retry-initial" :> 50 @@ "sync.dispatcher.retry-max" :> 600
    @@ "sync.reconciliation.period" :> 3000 @@ "sync.reconciliation.stalled-threshold" :> 9000
    @@ "sync.reconciliation.orphan-grace" :> 864000
    @@ "dashboard.push-debounce" :> 3 @@ "jwt.expiration" :> 36000

DefaultLimits ==
       "indexing.worker.max-concurrency" :> 2 @@ "indexing.worker.recovery-batch-size" :> 100
    @@ "indexing.worker.retry-jitter" :> 2 @@ "indexing.job.max-retries" :> 3
    @@ "document.chunking.chunk-size" :> 1000 @@ "document.chunking.overlap" :> 200
    @@ "embedding.batch-size" :> 4 @@ "embedding.character-budget" :> 4000
    @@ "embedding.token-budget" :> 900 @@ "embedding.circuit-failure-threshold" :> 5
    @@ "sync.dispatcher.recovery-batch" :> 100 @@ "sync.dispatcher.max-retries" :> 5
    @@ "sync.reconciliation.batch" :> 100 @@ "scheduler.background-worker-pool" :> 4
    @@ "server.port" :> 8080

Defaults ==
    DefaultPeriods @@ DefaultLimits
    @@ "storage.type" :> "local" @@ "storage.bucket" :> ""
    @@ "sync.reconciliation.mode" :> "DRY_RUN"
    @@ "indexing.worker.enabled" :> FALSE @@ "sync.dispatcher.enabled" :> FALSE
    @@ "sync.reconciliation.enabled" :> FALSE

\* A key without a default.
Keys == DOMAIN Defaults \union {"jwt.secret"}

\* No process, so that nothing is loaded.
NoServer == [at |-> "down", settings |-> <<>>, variables |-> {}, opened |-> FALSE, saw |-> <<>>,
             model |-> 0, worker |-> "none", threads |-> {}, stop |-> FALSE]

StartupInit ==
    /\ server = [s \in Servers |-> NoServer]
    /\ registry = <<>>
    /\ launches = 0

Arrive(s, at) == server' = [server EXCEPT ![s].at = at]

----------------------------------------------------------------------------
(* load_settings *)

Readable(layers) ==
    \A layer \in {layers.file, layers.profile, layers.environment} :
        DOMAIN layer \subseteq Keys /\ \A key \in DOMAIN layer : layer[key] # Malformed

\* Later layers win: the file, the selected profile, the environment.
Overlaid(layers) == layers.environment @@ layers.profile @@ layers.file @@ Defaults

\* The bucket of S3 may come from the variable of its provider, unless they differ.
BucketsAgree(layers, settings) ==
    settings["storage.type"] = "s3" => layers.bucket = "" \/ settings["storage.bucket"] \in {"", layers.bucket}

Aliased(layers, settings) ==
    IF settings["storage.type"] = "s3" /\ layers.bucket # ""
    THEN [settings EXCEPT !["storage.bucket"] = layers.bucket]
    ELSE settings

RequiredThere(settings) ==
    /\ settings["server.port"] \in 1 .. 65535
    /\ "jwt.secret" \in DOMAIN settings /\ settings["jwt.secret"] # ""
    /\ settings["storage.type"] \in {"local", "minio", "s3"}
    /\ settings["storage.type"] # "local" => settings["storage.bucket"] # ""

LoadSettings(s) ==
    /\ server[s].at \in {"down", "refused", "failed", "stopped"}
    /\ launches < MaxLaunches
    /\ launches' = launches + 1
    /\ \E layers \in Layers[s] :
        LET overlaid == Overlaid(layers)
            settings == Aliased(layers, overlaid)
            loads == Readable(layers) /\ BucketsAgree(layers, overlaid) /\ RequiredThere(settings)
        IN  server' = [server EXCEPT ![s] =
                IF loads THEN [NoServer EXCEPT !.at = "loaded", !.settings = settings,
                                               !.variables = layers.variables]
                         ELSE [NoServer EXCEPT !.at = "refused"]]
    /\ UNCHANGED registry

----------------------------------------------------------------------------
(* validate_settings *)

Positive ==
    {"jwt.expiration", "server.port", "dashboard.push-debounce", "scheduler.background-worker-pool",
     "document.chunking.chunk-size",
     "indexing.worker.heartbeat-interval", "indexing.worker.dead-threshold",
     "indexing.worker.poll-interval", "indexing.worker.empty-poll-max",
     "indexing.worker.lease-duration", "indexing.worker.lease-renew-interval",
     "indexing.worker.recovery-interval", "indexing.worker.recovery-batch-size",
     "indexing.worker.retry-initial", "indexing.worker.retry-max", "indexing.worker.max-concurrency",
     "embedding.connect-timeout", "embedding.response-timeout",
     "embedding.document-batch-response-timeout", "embedding.circuit-open-seconds",
     "embedding.circuit-failure-threshold", "embedding.batch-size",
     "embedding.character-budget", "embedding.token-budget",
     "sync.dispatcher.poll-interval", "sync.dispatcher.lease-duration",
     "sync.dispatcher.recovery-interval", "sync.dispatcher.recovery-batch",
     "sync.dispatcher.retry-initial", "sync.dispatcher.retry-max",
     "sync.reconciliation.period", "sync.reconciliation.stalled-threshold",
     "sync.reconciliation.batch"}

NotNegative == {"indexing.worker.shutdown-grace", "indexing.worker.retry-jitter",
                "indexing.job.max-retries", "document.chunking.overlap", "sync.dispatcher.max-retries"}

WorkerConfigured(settings) ==
    /\ settings["indexing.worker.heartbeat-interval"] < settings["indexing.worker.dead-threshold"]
    /\ settings["indexing.worker.poll-interval"] <= settings["indexing.worker.empty-poll-max"]
    /\ settings["indexing.worker.lease-renew-interval"] < settings["indexing.worker.lease-duration"]

\* Mutant of ValidSettings: the delays of the outbox are not compared.
ValidWithoutDelays(settings) ==
    /\ \A key \in Positive : settings[key] > 0
    /\ \A key \in NotNegative : settings[key] >= 0
    /\ WorkerConfigured(settings)
    /\ settings["indexing.worker.retry-initial"] <= settings["indexing.worker.retry-max"]
    /\ settings["indexing.worker.retry-jitter"] <= 10
    /\ settings["document.chunking.overlap"] < settings["document.chunking.chunk-size"]
    /\ settings["embedding.batch-size"] <= 64
    /\ settings["sync.reconciliation.mode"] \in {"DRY_RUN", "REPAIR"}

ValidSettings(settings) ==
    /\ \A key \in Positive : settings[key] > 0
    /\ \A key \in NotNegative : settings[key] >= 0
    /\ WorkerConfigured(settings)
    /\ settings["indexing.worker.retry-initial"] <= settings["indexing.worker.retry-max"]
    /\ settings["indexing.worker.retry-jitter"] <= 10
    /\ settings["document.chunking.overlap"] < settings["document.chunking.chunk-size"]
    /\ settings["embedding.batch-size"] <= 64
    /\ settings["sync.dispatcher.retry-initial"] <= settings["sync.dispatcher.retry-max"]
    /\ settings["sync.reconciliation.mode"] \in {"DRY_RUN", "REPAIR"}

\* The second check of the type of storage knows of no client for minio.
ValidateSettings(s) ==
    /\ server[s].at = "loaded"
    /\ Arrive(s, IF ValidSettings(server[s].settings) /\ server[s].settings["storage.type"] # "minio"
               THEN "validated" ELSE "refused")
    /\ UNCHANGED <<registry, launches>>

----------------------------------------------------------------------------
(* build_application *)

\* What is looked at first: the variables of the database, a cache address without a host,
\* no key of the language model, and the storage.
EnvironmentRefuses(s) ==
    /\ server[s].at = "validated"
    /\ Arrive(s, "refused")
    /\ UNCHANGED <<registry, launches>>

\* Migrations, then the versions of the server and of its extension.
OpenLedgers(s) ==
    /\ server[s].at = "validated"
    /\ \E at \in {"opened", "failed"} :
        server' = [server EXCEPT ![s].at = at, ![s].opened = TRUE]
    /\ UNCHANGED <<registry, launches>>

\* Of the options that are made into periods before a part is built.
Periods == {"indexing.worker.lease-duration", "indexing.worker.dead-threshold",
            "indexing.worker.retry-initial", "indexing.worker.retry-max",
            "sync.dispatcher.poll-interval", "sync.dispatcher.lease-duration",
            "sync.dispatcher.recovery-interval", "sync.dispatcher.retry-initial",
            "sync.dispatcher.retry-max", "sync.reconciliation.period",
            "sync.reconciliation.stalled-threshold", "sync.reconciliation.orphan-grace"}
PeriodsFit(settings) == \A key \in Periods : settings[key] \in -LongestPeriod .. LongestPeriod

IndexingTakes(settings) ==
    /\ \A key \in {"indexing.worker.lease-duration", "indexing.worker.dead-threshold",
                   "indexing.worker.retry-initial"} : settings[key] > 0
    /\ settings["indexing.worker.retry-initial"] <= settings["indexing.worker.retry-max"]
    /\ settings["indexing.worker.retry-jitter"] >= 0 /\ settings["indexing.worker.retry-jitter"] <= 10
    /\ settings["indexing.job.max-retries"] >= 0

\* ensure_embedding_model begins its transaction, READ COMMITTED, and lists the models.
ListModels(s) ==
    /\ server[s].at = "opened"
    /\ IF PeriodsFit(server[s].settings) /\ IndexingTakes(server[s].settings)
       THEN server' = [server EXCEPT ![s].at = "listed", ![s].saw = registry]
       ELSE Arrive(s, "refused")
    /\ UNCHANGED <<registry, launches>>

\* Nothing but the primary key, which is new, stands between two that saw none.
InsertModel(s) ==
    /\ server[s].at = "listed" /\ server[s].saw = <<>>
    /\ registry' = Append(registry, ModelOf[s])
    /\ server' = [server EXCEPT ![s].at = "modelled", ![s].model = Len(registry) + 1]
    /\ UNCHANGED launches

\* Mutant of MatchingModel: the only active model is taken as it is.
MatchingAnyModel(s) == Len(server[s].saw) = 1

MatchingModel(s) == Len(server[s].saw) = 1 /\ server[s].saw[1] = ModelOf[s]

FindModel(s) ==
    /\ server[s].at = "listed" /\ server[s].saw # <<>>
    /\ server' = [server EXCEPT ![s].at = IF MatchingModel(s) THEN "modelled" ELSE "failed",
                                ![s].model = IF MatchingModel(s) THEN 1 ELSE 0]
    /\ UNCHANGED <<registry, launches>>

DetectorTakes(settings) == settings["sync.reconciliation.orphan-grace"] >= 0

SyncTakes(settings) ==
    /\ \A key \in {"sync.dispatcher.poll-interval", "sync.dispatcher.lease-duration",
                   "sync.dispatcher.recovery-interval", "sync.dispatcher.recovery-batch",
                   "sync.dispatcher.retry-initial", "sync.reconciliation.batch",
                   "sync.reconciliation.period", "sync.reconciliation.stalled-threshold"} : settings[key] > 0
    /\ settings["sync.dispatcher.retry-initial"] <= settings["sync.dispatcher.retry-max"]
    /\ settings["sync.dispatcher.max-retries"] >= 0
    /\ settings["sync.reconciliation.mode"] \in {"DRY_RUN", "REPAIR"}

\* The models of the language service, and the reranker, whose cache has a place.
AdaptersTake(settings, variables) ==
    /\ "HF_HOME" \notin variables
    /\ \A key \in {"embedding.circuit-failure-threshold", "embedding.circuit-open-seconds",
                   "embedding.connect-timeout", "embedding.response-timeout", "embedding.batch-size",
                   "embedding.character-budget", "embedding.token-budget",
                   "embedding.document-batch-response-timeout"} : settings[key] > 0
    /\ settings["embedding.batch-size"] <= 64

CacheTakes(variables) == "REDIS_URL" \notin variables

BuildParts(s) ==
    /\ server[s].at = "modelled"
    /\ LET settings == server[s].settings
           variables == server[s].variables
       IN  Arrive(s, IF /\ DetectorTakes(settings) /\ SyncTakes(settings)
                        /\ AdaptersTake(settings, variables) /\ CacheTakes(variables)
                     THEN "built" ELSE "refused")
    /\ UNCHANGED <<registry, launches>>

\* create_application checks the settings again.
CreateApplication(s) ==
    /\ server[s].at = "built"
    /\ Arrive(s, IF ValidSettings(server[s].settings) THEN "created" ELSE "refused")
    /\ UNCHANGED <<registry, launches>>

----------------------------------------------------------------------------
(* start and stop *)

\* What create_application has kept of the parts.
HasWorker(s) == server[s].settings["indexing.worker.enabled"]
HasDispatcher(s) ==
    \/ server[s].settings["sync.dispatcher.enabled"] \/ server[s].settings["sync.reconciliation.enabled"]
TasksOf(s) == (IF HasDispatcher(s) THEN <<"sync">> ELSE <<>>) \o <<"retention", "dashboard">>

\* A registration that fails is logged: the server goes on without a worker.  When one of
\* its threads cannot be started the worker is shut down: it takes no claim any more, though
\* the join of that thread raises before its row is STOPPED.
StartWorker(s) ==
    /\ server[s].at = "created"
    /\ \/ ~HasWorker(s) /\ Arrive(s, "starting")
       \/ /\ HasWorker(s)
          /\ \E worker \in {"accepting", "unregistered"} :
                server' = [server EXCEPT ![s].at = "starting", ![s].worker = worker]
       \/ /\ HasWorker(s)
          /\ server' = [server EXCEPT ![s].at = "failed", ![s].worker = "shut", ![s].stop = TRUE]
    /\ UNCHANGED <<registry, launches>>

AllStarted(s) == Cardinality(server[s].threads) = Len(TasksOf(s))

StartTask(s) ==
    /\ server[s].at = "starting" /\ ~AllStarted(s)
    /\ server' = [server EXCEPT ![s].threads = @ \union {TasksOf(s)[Cardinality(@) + 1]}]
    /\ UNCHANGED <<registry, launches>>

\* A thread that cannot be started is in the list of those to join, where joining it raises
\* another exception before the worker is shut down.
TaskNotStarted(s) ==
    /\ server[s].at = "starting" /\ ~AllStarted(s)
    /\ server' = [server EXCEPT ![s].at = "left", ![s].stop = TRUE]
    /\ UNCHANGED <<registry, launches>>

Serve(s) ==
    /\ server[s].at = "starting" /\ AllStarted(s)
    /\ Arrive(s, "up")
    /\ UNCHANGED <<registry, launches>>

\* Mutant of StopServer: the worker is left to the end of the process.
StopTasksOnly(s) ==
    /\ server[s].at = "up"
    /\ server' = [server EXCEPT ![s].at = "stopped", ![s].stop = TRUE]
    /\ UNCHANGED <<registry, launches>>

\* The event is set, each thread is waited for a second, the worker is shut down.
StopServer(s) ==
    /\ server[s].at = "up"
    /\ server' = [server EXCEPT ![s].at = "stopped", ![s].stop = TRUE,
                                ![s].worker = IF @ = "accepting" THEN "shut" ELSE @]
    /\ UNCHANGED <<registry, launches>>

\* A task sees the event.
EndTask(s, task) ==
    /\ task \in server[s].threads /\ server[s].stop
    /\ server' = [server EXCEPT ![s].threads = @ \ {task}]
    /\ UNCHANGED <<registry, launches>>

\* The process dies; a transaction that has not inserted its model is rolled back.
CrashServer(s) ==
    /\ server[s].at \notin {"down", "refused", "failed"}
    /\ server' = [server EXCEPT ![s] = NoServer]
    /\ UNCHANGED <<registry, launches>>

BuildStep(s) ==
    \/ LoadSettings(s) \/ ValidateSettings(s) \/ EnvironmentRefuses(s) \/ OpenLedgers(s) \/ ListModels(s)
    \/ InsertModel(s) \/ FindModel(s) \/ BuildParts(s) \/ CreateApplication(s)
LifeStep(s) ==
    \/ StartWorker(s) \/ StartTask(s) \/ TaskNotStarted(s) \/ Serve(s) \/ StopServer(s)
    \/ CrashServer(s) \/ \E task \in server[s].threads : EndTask(s, task)

StartupNext == \E s \in Servers : BuildStep(s) \/ LifeStep(s)
StartupSpec == StartupInit /\ [][StartupNext]_startupVars

----------------------------------------------------------------------------
(* What validate_settings compares is refused before anything is opened or *)
(* written, and each part takes it then.  After the migrations, and most   *)
(* of it after the model is written too, a start is refused for what no    *)
(* earlier check looks at and for nothing else: a period no timedelta      *)
(* holds, a negative grace of orphans, a cache of models inside the        *)
(* project, an address the client of the cache cannot parse.  Until the    *)
(* periods are made the model is not written.                              *)
FoundLate(s) == \/ ~PeriodsFit(server[s].settings) \/ ~DetectorTakes(server[s].settings)
                \/ server[s].variables # {}
RefusedEarly ==
    \A s \in Servers :
        /\ server[s].at = "refused" /\ server[s].opened => FoundLate(s)
        /\ server[s].model # 0 => PeriodsFit(server[s].settings)
        /\ server[s].at \in {"built", "created", "starting", "up"} =>
              ValidSettings(server[s].settings) /\ ~FoundLate(s)

(* Servers that are up work with a row of the model of their release: so  *)
(* as long as there is one row they agree, whatever their releases, in     *)
(* whichever order they start, crash and start again.  There are two only  *)
(* when both saw none, and each works with its own.                        *)
ModelAgreed ==
    \A s \in Servers :
        server[s].at \in {"modelled", "built", "created", "starting", "up"} =>
            /\ server[s].model \in 1 .. Len(registry) /\ registry[server[s].model] = ModelOf[s]
            /\ server[s].model > 1 => server[s].saw = <<>>

(* Whichever way a server has ended, no worker of it accepts claims and    *)
(* every thread left has been told to end; one that is up has the threads  *)
(* it is configured to have.                                               *)
NothingLeft ==
    \A s \in Servers :
        /\ server[s].at \in {"refused", "failed", "stopped"} =>
                server[s].worker # "accepting" /\ (server[s].threads # {} => server[s].stop)
        /\ server[s].at = "up" =>
                /\ server[s].threads = {TasksOf(s)[i] : i \in 1 .. Len(TasksOf(s))}
                /\ server[s].worker # "none" <=> HasWorker(s)

(* See RefusedEarly, ModelAgreed and NothingLeft.                          *)
StartupSound == RefusedEarly /\ ModelAgreed /\ NothingLeft
=============================================================================
