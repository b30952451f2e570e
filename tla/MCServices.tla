----------------------------- MODULE MCServices -----------------------------
(***************************************************************************)
(* Small instances of the services around the documents.  As in MCStorage  *)
(* a behaviour is one of the component it has picked; Identity is picked   *)
(* as its roles, its logouts or its API keys, and Administration as its    *)
(* accounts or its collections, none of which reads what another writes.   *)
(***************************************************************************)
EXTENDS Identity, Embedding, Dashboard, Administration, Transactions, Migrations, Startup

\* One process serves the admin and one of the requests, the other one the other request.
CONSTANTS r1, r2, a1, p1, p2
MCHome == [x \in {r1, r2, a1} |-> IF x = r2 THEN p2 ELSE p1]

\* A text that fits a batch with another, and one that exceeds it alone.
MCSizes == {[chars |-> 1, tokens |-> 1], [chars |-> CharBudget + 1, tokens |-> 1]}

\* The clerks are threads of one process.
MCProcessOf == [c \in Clerks |-> CHOOSE d \in Clerks : TRUE]

CONSTANTS q1, q2, q3, digest1, digest2, digest3, other2

\* Two processes of one package, and one of a package that differs.
MCPackage == (q1 :> <<digest1, digest2, digest3>>) @@ (q2 :> <<digest1, digest2, digest3>>)
             @@ (q3 :> <<digest1, other2, digest3>>)

\* One server is given settings of which each would make some part refuse to start, or is
\* the smaller of two releases; the other has every thread there is.
CONSTANTS h1, h2
MCModelOf == (h1 :> "small") @@ (h2 :> "large")
MCStarted(layers) ==
    [file |-> <<>>, profile |-> <<>>, environment |-> layers, bucket |-> "", variables |-> {}]
MCSecret == "jwt.secret" :> "secret"
MCUnfit == {[MCStarted(MCSecret) EXCEPT !.variables = {unfit}] :
                unfit \in {"HF_HOME", "REDIS_URL"}}
MCOdd ==
    {"indexing.worker.heartbeat-interval" :> 300, "indexing.worker.lease-renew-interval" :> 3000,
     "indexing.worker.poll-interval" :> 101, "indexing.worker.retry-initial" :> 3001,
     "indexing.worker.retry-jitter" :> 11, "document.chunking.overlap" :> 1000,
     "embedding.batch-size" :> 65, "embedding.token-budget" :> 0,
     "sync.dispatcher.retry-initial" :> 601, "sync.dispatcher.max-retries" :> (-1),
     "sync.reconciliation.orphan-grace" :> (-1), "indexing.worker.lease-duration" :> Malformed,
     "indexing.worker.lease-duration" :> LongestPeriod + 1, "indexing.worker.lease" :> 1, "sync.reconciliation.mode" :> "REPAIR",
     "sync.dispatcher.enabled" :> TRUE, "indexing.worker.enabled" :> TRUE, "jwt.secret" :> ""}
MCBuckets ==
    {[file |-> "storage.type" :> "local" @@ "storage.bucket" :> bucket,
      profile |-> "storage.type" :> "s3", environment |-> environment @@ MCSecret, bucket |-> "b1",
      variables |-> {}] :
        bucket \in {"", "b2"}, environment \in {<<>>, "storage.type" :> "minio"}}
MCLayers ==
    (h1 :> ({MCStarted(odd @@ MCSecret) : odd \in MCOdd \union {<<>>}}
            \union MCBuckets \union MCUnfit))
    @@ (h2 :> {MCStarted("indexing.worker.enabled" :> TRUE @@ "sync.dispatcher.enabled" :> TRUE
                         @@ MCSecret)})

VARIABLE part

Init ==
    /\ part \in {"roles", "logout", "keys", "embedding", "dashboard",
                "accounts", "collections", "transaction", "migrations", "startup"}
    /\ IdentityInit /\ EmbeddingInit /\ DashboardInit
    /\ AdministrationInit /\ TxInit /\ MigrationInit /\ StartupInit

\* The modules of requests and calls, and those of accounts, databases and servers.
serviceVars == <<identityVars, embeddingVars, dashboardVars>>
serverVars == <<administrationVars, txVars, migrationVars, startupVars>>

Next ==
    \/ /\ part = "roles" /\ (RoleStep \/ RequestStep \/ Tick)
       /\ UNCHANGED <<part, embeddingVars, dashboardVars, serverVars>>
    \/ /\ part = "logout" /\ (Logout \/ RequestStep \/ Tick)
       /\ UNCHANGED <<part, embeddingVars, dashboardVars, serverVars>>
    \/ /\ part = "keys" /\ (ApiKeyStep \/ Tick)
       /\ UNCHANGED <<part, embeddingVars, dashboardVars, serverVars>>
    \/ /\ part = "embedding" /\ EmbeddingNext
       /\ UNCHANGED <<part, identityVars, dashboardVars, serverVars>>
    \/ /\ part = "dashboard" /\ DashboardNext
       /\ UNCHANGED <<part, identityVars, embeddingVars, serverVars>>
    \/ /\ part = "accounts" /\ (AccountStep \/ RefusedStep)
       /\ UNCHANGED <<part, serviceVars, txVars, migrationVars, startupVars>>
    \/ /\ part = "collections" /\ (CollectionStep \/ RefusedStep)
       /\ UNCHANGED <<part, serviceVars, txVars, migrationVars, startupVars>>
    \/ /\ part = "transaction" /\ TxNext
       /\ UNCHANGED <<part, serviceVars, administrationVars, migrationVars, startupVars>>
    \/ /\ part = "migrations" /\ MigrationNext
       /\ UNCHANGED <<part, serviceVars, administrationVars, txVars, startupVars>>
    \/ /\ part = "startup" /\ StartupNext
       /\ UNCHANGED <<part, serviceVars, administrationVars, txVars, migrationVars>>

\* A call and a wait for the slot have timeouts, and a sleep ends.
EmbeddingFairness ==
    \A c \in Embedders : WF_embeddingVars(part = "embedding" /\ EmbedStep(c))

\* The loop goes on, is started again when it ends, and does not fail for ever.
DashboardFairness == /\ WF_dashboardVars(part = "dashboard" /\ PushStep)
                     /\ <>[][~SummaryFails]_dashboardVars

Spec == /\ Init /\ [][Next]_<<part, serviceVars, serverVars>>
        /\ EmbeddingFairness
        /\ DashboardFairness
=============================================================================
