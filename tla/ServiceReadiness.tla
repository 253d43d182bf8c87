-------------------------- MODULE ServiceReadiness --------------------------
(***************************************************************************)
(* The health checks of the API (routes/health.py, dashboard_status.py),   *)
(* the cached clients of the resident workers (runtime/worker_clients.py)  *)
(* and what a worker does for a probe, for an analysis and for OCR         *)
(* (torch_context_worker.py, paddle_ocr_worker.py).                        *)
(*                                                                         *)
(* A check looks at one part after another, and between two looks the      *)
(* database, the migrations, Redis and the model files may change.  All    *)
(* handlers share one event loop, and a call of a worker does not give it  *)
(* back before the worker answered, the time was up or the worker died.    *)
(* Clients are cached by their arguments, of which only the time limit     *)
(* differs: callers with other limits have a client, and a process, each.  *)
(*                                                                         *)
(* One exchange with a worker is one step here; ResidentWorker,            *)
(* TorchWorkerClient and MlInferenceQueue have what happens inside it.     *)
(* The addresses that the status page shows are left out.                  *)
(***************************************************************************)
EXTENDS Naturals, Sequences, FiniteSets

CONSTANTS
  Checks,           \* requests of a health route
  Jobs,             \* analyses and images that need a worker
  ReadinessTimeout, AnalyzeTimeout, OcrTimeout,  \* limits the clients are made with
  Settings,         \* settings the API may run with: worker_readiness_required, how many of
                    \* the two context runtimes are enabled, both manifests configured, database URL and
                    \* token secrets configured, Redis configured
  MaxChanges,       \* bound on the changes of the surroundings
  None

VARIABLES
  settings,
  order,     \* for each part of the surroundings: it is in order
  processes,   \* for each cached client: its worker process, and whether its models are loaded
  loop,      \* the check or job that keeps the event loop, or None
  check, job,
  changes,
  everBad, alwaysBad  \* history: parts that were out of order at some time, all the time of a check

readinessVars == <<settings, order, processes, loop, check, job, changes, everBad, alwaysBad>>

Workers == {"torch", "paddle"}
Surroundings == {"postgres", "migrations", "filter_table", "redis", "torch", "paddle"}
Routes == {"readyz", "healthz", "status", "dashboard"}
Clients == {<<"torch", t>> : t \in {ReadinessTimeout, AnalyzeTimeout}}
             \cup {<<"paddle", t>> : t \in {ReadinessTimeout, OcrTimeout}}

ASSUME ReadinessAssumption ==
  /\ Settings \subseteq [workers: BOOLEAN, context: 0 .. 2, manifests: BOOLEAN, secrets: BOOLEAN, redis: BOOLEAN]
  /\ Checks \cap Jobs = {} /\ None \notin Checks \cup Jobs /\ MaxChanges \in Nat

(***************************************************************************)
(* What a check asks for                                                   *)
(***************************************************************************)
Looks(route) ==
  CASE route = "readyz"    -> <<"postgres", "migrations", "config", "torch", "paddle">>
    [] route = "dashboard" -> <<"postgres", "migrations", "config", "torch", "paddle", "filter_table">>
    [] OTHER               -> <<"postgres", "migrations", "config", "torch", "paddle", "redis">>

WorkerRequired(worker) == settings.workers /\ (worker = "torch" => settings.context > 0)

Required(part) == part # "redis" /\ (part \in Workers => WorkerRequired(part))

ProbeClient(worker) == <<worker, ReadinessTimeout>>

JobClient(worker) == <<worker, IF worker = "torch" THEN AnalyzeTimeout ELSE OcrTimeout>>

\* Mutant: a required worker that is unhealthy only degrades the service.
AggregateWithoutWorkers(found) ==
  LET reported == DOMAIN found \ {"filter_table"} IN
  IF \E part \in reported : Required(part) /\ part \notin Workers /\ found[part] = "unhealthy" THEN "unhealthy"
  ELSE IF \E part \in reported : found[part] \in {"unhealthy", "degraded"} THEN "degraded"
  ELSE "healthy"

Aggregate(found) ==
  LET reported == DOMAIN found \ {"filter_table"} IN
  IF \E part \in reported : Required(part) /\ found[part] = "unhealthy" THEN "unhealthy"
  ELSE IF \E part \in reported : found[part] \in {"unhealthy", "degraded"} THEN "degraded"
  ELSE "healthy"

\* The dashboard looks at the three parts it has a field for.
Unavailable(route, found) ==
  CASE route = "readyz" -> Aggregate(found) # "healthy"
    [] route = "dashboard" -> \E part \in {"postgres", "migrations", "filter_table"} : found[part] = "unhealthy"
    [] OTHER -> Aggregate(found) = "unhealthy"

(***************************************************************************)
(* Parts out of order                                                      *)
(***************************************************************************)
\* Loaded models are kept when their files go; a probe of Paddle loads none.
InOrder(part) ==
  CASE part \in {"postgres", "redis"} -> order[part]
    [] part \in {"migrations", "filter_table"} -> order["postgres"] /\ order[part]
    [] part = "config" -> settings.secrets
    [] part = "torch" -> settings.manifests /\ (order["torch"] \/ processes[ProbeClient("torch")] = "warm")
    [] part = "paddle" -> TRUE

Bad ==
  {part \in Surroundings \cup {"config"} : ~InOrder(part)}
    \cup (IF order["paddle"] THEN {} ELSE {"paddle_models"})

Asking(c) == check[c].pc \in {"looking", "probing"}

\* failed: what a probe that fails in this step has found out of order.
WatchAnd(failed) ==
  /\ everBad' = [c \in Checks |-> IF Asking(c) THEN everBad[c] \cup Bad' \cup failed[c] ELSE everBad[c]]
  /\ alwaysBad' = [c \in Checks |-> IF Asking(c) THEN alwaysBad[c] \cap Bad' ELSE alwaysBad[c]]

Watch == WatchAnd([c \in Checks |-> {}])

Unwatched == UNCHANGED <<everBad, alwaysBad>>

ReadinessInit ==
  /\ settings \in Settings
  /\ order = [part \in Surroundings |-> TRUE]
  /\ processes = [k \in Clients |-> "none"]
  /\ loop = None
  /\ check \in [Checks -> {[route |-> route, pc |-> "new", found |-> << >>, code |-> None] : route \in Routes}]
  /\ job \in [Jobs -> {[worker |-> w, pc |-> "new", result |-> None] : w \in Workers}]
  /\ changes = 0
  /\ everBad = [c \in Checks |-> {}]
  /\ alwaysBad = [c \in Checks |-> {}]

Part(c) == Looks(check[c].route)[Cardinality(DOMAIN check[c].found) + 1]

InUse(k) ==
  \/ loop \in Checks /\ k = ProbeClient(Part(loop))
  \/ loop \in Jobs /\ k = JobClient(job[loop].worker)

(***************************************************************************)
(* Surroundings                                                            *)
(***************************************************************************)
Change(part) ==
  /\ changes < MaxChanges
  /\ order' = [order EXCEPT ![part] = ~@]
  /\ changes' = changes + 1
  /\ UNCHANGED <<settings, processes, loop, check, job>>
  /\ Watch

ProcessDies(k) ==
  /\ changes < MaxChanges /\ processes[k] # "none" /\ ~InUse(k)
  /\ processes' = [processes EXCEPT ![k] = "none"]
  /\ changes' = changes + 1
  /\ UNCHANGED <<settings, order, loop, check, job>>
  /\ Watch

(***************************************************************************)
(* Checks                                                                  *)
(***************************************************************************)
Finds(c, status) ==
  check' = [check EXCEPT ![c].pc = "looking",
                         ![c].found = [p \in DOMAIN @ \cup {Part(c)} |-> IF p = Part(c) THEN status ELSE @[p]]]

MoreToLook(c) == Cardinality(DOMAIN check[c].found) < Len(Looks(check[c].route))

Begin(c) ==
  /\ loop = None /\ check[c].pc = "new"
  /\ check' = [check EXCEPT ![c].pc = "looking"]
  /\ everBad' = [everBad EXCEPT ![c] = Bad]
  /\ alwaysBad' = [alwaysBad EXCEPT ![c] = Bad]
  /\ UNCHANGED <<settings, order, processes, loop, job, changes>>

\* Redis is optional, and disabled where it has no URL.
Look(c) ==
  /\ loop = None /\ check[c].pc = "looking" /\ MoreToLook(c)
  /\ Part(c) \notin Workers
  /\ Finds(c, IF Part(c) = "redis" /\ ~settings.redis THEN "disabled"
              ELSE IF InOrder(Part(c)) THEN "healthy"
              ELSE IF Part(c) = "redis" THEN "degraded"
              ELSE "unhealthy")
  /\ UNCHANGED <<settings, order, processes, loop, job, changes>>
  /\ Unwatched

SkipProbe(c) ==
  /\ loop = None /\ check[c].pc = "looking" /\ MoreToLook(c)
  /\ Part(c) \in Workers
  /\ ~WorkerRequired(Part(c)) \/ (Part(c) = "torch" /\ ~settings.manifests)
  /\ Finds(c, IF WorkerRequired(Part(c)) THEN "unhealthy" ELSE "disabled")
  /\ UNCHANGED <<settings, order, processes, loop, job, changes>>
  /\ Unwatched

Started(k) == IF processes[k] = "none" THEN "running" ELSE processes[k]

Probe(c) ==
  /\ loop = None /\ check[c].pc = "looking" /\ MoreToLook(c)
  /\ Part(c) \in Workers /\ WorkerRequired(Part(c)) /\ (Part(c) = "torch" => settings.manifests)
  /\ loop' = c
  /\ check' = [check EXCEPT ![c].pc = "probing"]
  /\ processes' = [processes EXCEPT ![ProbeClient(Part(c))] = Started(ProbeClient(Part(c)))]
  /\ UNCHANGED <<settings, order, job, changes>>
  /\ Unwatched

\* context_warmup loads the models unless they are loaded.
WarmUp(c) ==
  LET k == ProbeClient("torch") IN
  /\ loop = c /\ Part(c) = "torch"
  /\ processes' = [processes EXCEPT ![k] = IF order["torch"] THEN "warm" ELSE @]
  /\ Finds(c, IF processes'[k] = "warm" THEN "healthy" ELSE "unhealthy")
  /\ loop' = None
  /\ UNCHANGED <<settings, order, job, changes>>
  /\ Unwatched

\* ocr_smoke is answered without PaddleOCR.
Smoke(c) ==
  /\ loop = c /\ Part(c) = "paddle"
  /\ Finds(c, "healthy")
  /\ loop' = None
  /\ UNCHANGED <<settings, order, processes, job, changes>>
  /\ Unwatched

\* The time is up or the worker died: its process is stopped, and the models
\* it had loaded are gone for other checks too.
ProbeFails(c) ==
  /\ changes < MaxChanges /\ loop = c
  /\ processes' = [processes EXCEPT ![ProbeClient(Part(c))] = "none"]
  /\ Finds(c, "unhealthy")
  /\ loop' = None
  /\ changes' = changes + 1
  /\ UNCHANGED <<settings, order, job>>
  /\ WatchAnd([x \in Checks |-> IF x = c THEN {Part(c)} ELSE {}])

Answer(c) ==
  /\ loop = None /\ check[c].pc = "looking" /\ ~MoreToLook(c)
  /\ check' = [check EXCEPT ![c].pc = "answered",
                            ![c].code = IF Unavailable(check[c].route, check[c].found) THEN 503 ELSE 200]
  /\ UNCHANGED <<settings, order, processes, loop, job, changes>>
  /\ Unwatched

(***************************************************************************)
(* Analyses and images                                                     *)
(***************************************************************************)
\* Without both runtimes and both manifests an analysis has no worker.
Use(j) ==
  LET k == JobClient(job[j].worker) IN
  /\ loop = None /\ job[j].pc = "new"
  /\ job[j].worker = "torch" => settings.context = 2 /\ settings.manifests
  /\ loop' = j
  /\ job' = [job EXCEPT ![j].pc = "waiting"]
  /\ processes' = [processes EXCEPT ![k] = Started(k)]
  /\ UNCHANGED <<settings, order, check, changes>>
  /\ Unwatched

\* The first use loads the models; a worker that cannot says so and stays.
Used(j) ==
  LET k == JobClient(job[j].worker) IN
  /\ loop = j
  /\ processes' = [processes EXCEPT ![k] = IF order[job[j].worker] THEN "warm" ELSE @]
  /\ job' = [job EXCEPT ![j].pc = "done", ![j].result = IF processes'[k] = "warm" THEN "ok" ELSE "failed"]
  /\ loop' = None
  /\ UNCHANGED <<settings, order, check, changes>>
  /\ Watch

UseFails(j) ==
  /\ changes < MaxChanges /\ loop = j
  /\ processes' = [processes EXCEPT ![JobClient(job[j].worker)] = "none"]
  /\ job' = [job EXCEPT ![j].pc = "done", ![j].result = "failed"]
  /\ loop' = None
  /\ changes' = changes + 1
  /\ UNCHANGED <<settings, order, check>>
  /\ Watch

CheckStep(c) == Begin(c) \/ Look(c) \/ SkipProbe(c) \/ Probe(c) \/ Answer(c)

Reply(x) ==
  \/ x \in Checks /\ (WarmUp(x) \/ Smoke(x) \/ ProbeFails(x))
  \/ x \in Jobs /\ (Used(x) \/ UseFails(x))

ReadinessNext ==
  \/ \E part \in Surroundings : Change(part)
  \/ \E k \in Clients : ProcessDies(k)
  \/ \E c \in Checks : CheckStep(c)
  \/ \E j \in Jobs : Use(j)
  \/ \E x \in Checks \cup Jobs : Reply(x)

ReadinessSpec == ReadinessInit /\ [][ReadinessNext]_readinessVars

(***************************************************************************)
(* Properties                                                              *)
(***************************************************************************)
ReadinessTypeOK ==
  /\ order \in [Surroundings -> BOOLEAN]
  /\ processes \in [Clients -> {"none", "running", "warm"}]
  /\ loop \in Checks \cup Jobs \cup {None}
  /\ \A c \in Checks : DOMAIN check[c].found \subseteq {Looks(check[c].route)[i] : i \in DOMAIN Looks(check[c].route)}

AnswersFor(route) ==
  CASE route = "readyz" -> {part \in Surroundings \cup {"config"} : Required(part)} \ {"filter_table"}
    [] route = "dashboard" -> {"postgres", "migrations", "filter_table"}
    [] OTHER -> {part \in Surroundings \cup {"config"} : Required(part)} \ {"filter_table"}

\* Although the parts are looked at one after the other while they change, a
\* check never answers 200 when a part it answers for was out of order all the
\* time, and never 503 when all of them were in order all the time.
AnswersAreHonest ==
  \A c \in Checks : check[c].pc = "answered" =>
    /\ check[c].code = 200 => alwaysBad[c] \cap AnswersFor(check[c].route) = {}
    /\ check[c].code = 503 => everBad[c] \cap AnswersFor(check[c].route) # {}

\* promptguard_analysis_contract_v3.5.4.md: a worker fails readiness when a
\* required model cannot be loaded.
ReadyMeansModelsLoad ==
  \A c \in Checks :
    check[c].pc = "answered" /\ check[c].route = "readyz" /\ check[c].code = 200 /\ WorkerRequired("paddle") =>
      "paddle_models" \notin alwaysBad[c] \/ \E k \in Clients : k[1] = "paddle" /\ processes[k] = "warm"
=============================================================================
