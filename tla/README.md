# Verification of Drift Triage Co-Pilot

TLA+ models of the agent, of the drift endpoints of the model service, of the
worker with the model registry it changes, and of the drift and training
mathematics, with TLC configurations that check them on small instances and
TLAPS proofs that hold for every size.

Paths below are relative to `backend/src/` unless they start at the repository
root. Run the checks in this directory:

    tlc -config AgentRecovery.cfg MCAgentGraph
    tlapm AgentGraphProofs.tla

## 1. The system

| Component | Code | State | Operations | Made correct by |
|---|---|---|---|---|
| Drift report and alert | `service/routers/drift.py` | report cache, lock, `drift_alert_state`, predictions window | `GET /drift/report`, background webhook, `POST /drift/reset` | one computation per cached report; the row never ahead of the agent; a lasting severity ends up in the row (that the agent ends up with it is a finding) |
| Prediction | `service/routers/prediction.py` | predictions table | `POST /predict` | rows only added |
| Webhook intake | `agent/routers/webhook.py` | `investigations` | `POST /webhook/drift` | one investigation per event |
| Investigation graph | `agent/graph.py`, `agent/tools/` | LangGraph checkpoints, one thread per investigation | seven nodes and a supervisor | every thread reaches a human or its end; the checkpoint agrees with the tables |
| Human approval, reset | `agent/routers/hil.py`, `admin.py` | `hil_approvals` | `POST /hil/approve`, `POST /admin/reset` | nothing dispatched without a granted approval; closed stays closed |
| Dispatch and deduplication | `worker/dedup.py` | Redis keys, arq queue | `enqueue_with_dedup`, `push_to_dlq` | at most one job per investigation and window |
| Worker jobs | `worker/*.py` | arq job state, dead-letter list, mlflow's active run | `replay_test`, `retrain`, `rollback` | every job ends; what is dead-lettered had its tries and no effect; each try promotes at most once |
| Registry and promotion | `service/routers/promotion.py`, `ml/register.py`, `service/main.py` | MLflow versions, stages and tags, the served version | register, promote, load | at most one Production version, kept once there is one, and the best that was promoted; always a version to load |
| Drift mathematics | `drift/` | none | PSI, chi-squared, output drift, report, top features | a shift is seen; what is shown explains the severity |
| Training | `ml/train.py`, `ml/threshold.py`, `ml/data.py`, `ml/reference_stats.py` | none | split, threshold search, choice of the model, reference | the threshold meets the recall the promotion asks for |

The rest is in `PROJECT.json` with the reason it is not modelled: the LLM
client, read-only endpoints, settings and migrations, the dashboard (a client
whose calls the models take at any time) and the demo scripts.

Interaction: predictions fill the window; a report request computes a severity
and, if it differs from `drift_alert_state`, posts a webhook to the agent; the
agent opens an investigation and runs its graph, which reads the report back
from the service, asks for an approval, pauses, is resumed by the approval, and
enqueues a job in Redis; the worker runs the job and asks the service to promote
a version. Three processes, `make train` on the host, Postgres, Redis and
MLflow; each process is one asyncio loop, so steps interleave at awaits, and
between calls to MLflow when two processes make them.

The hard behaviours: overlapping HTTP requests that read before an await and act
after it; effects (a committed row, an accepted webhook, a Redis key, an archived
version) that precede the record of them; a crash or a failed call in between;
two runs of one thread overwriting each other's checkpoint; decisions that can
be given twice; a retry of what has already been done; two trainings that each
take the newest version for their own. `PROJECT.json` lists each at its line with
the properties that cover it.

## 2. Modules

| Module | Content |
|---|---|
| `AgentGraph` | intake, graph, approvals, reset, dispatch, crashes |
| `AgentGraphInv`, `AgentGraphProofs` | the inductive invariant of `AgentGraph`; its theorems |
| `AgentOutcomeProofs` | theorems about how an investigation ends |
| `HilContract` | what the agent promises of an action, abstractly |
| `AgentContract`, `AgentContractProofs` | `AgentGraph` as an implementation of `HilContract`; the proof |
| `MCAgentGraph` | TLC instances: symmetry of the ids |
| `DriftService`, `DriftServiceProofs` | drift report, cache, lock, alert, reset, crashes, and its invariant; its theorems |
| `JobQueue` | dispatch keys, the life of an arq job, the dead-letter list |
| `ModelRegistry` | versions, stages and tags, the steps of `register_model`, the promote handler, `load_model` |
| `Worker`, `WorkerProofs` | the worker and `make train`, composed of the two above; its invariant and theorems about the registry |
| `WorkerOutcomeProofs` | theorems about what becomes of a job |
| `MCWorker` | TLC instances: which keys are dispatched |
| `Training` | split, threshold search, choice among the candidates, reference rate |
| `DriftMath` | PSI, chi-squared, output drift, report and its two summaries |
| `MathLemmas`, `DriftMathProofs` | extrema, products, division and sums over finite sets; the theorems of the two modules above |
| `MCDriftMath` | TLC instances: sizes of the data sets |

### AgentGraph

A `task` is one HTTP request of the agent: a webhook delivery together with the
background graph run it starts, or an approval together with the run it resumes.
`pc` is the node it is about to execute or the point it waits at.

| TLA+ | Code |
|---|---|
| `reports`, `current` | the reports the model service has computed and the one `GET /drift/report` returns |
| `inv`, `hil` | the tables `investigations` and `hil_approvals` |
| `ckpt` | latest LangGraph checkpoint of a thread: state and next node |
| `dedup`, `jobs` | Redis keys of `enqueue_with_dedup`; the arq queue |
| `granted` | history: the approvals that were ever approved |
| `Deliver`, `InsertRow`, `InsertConflict` | `_create_investigation`: SELECT, INSERT, unique violation |
| `StartGraph`, `Resume` | `ainvoke(initial_state)` and `ainvoke(None)` |
| `Supervisor` / `Route` | `supervisor_node` and the conditional edge |
| `TriageAgent` .. `CommsAgent` | the node of that name, one disjunct per exit |
| `Save` | the checkpoint after a node whose effect is outside the graph |
| `CheckFreshness`, `ClaimKey`, `Enqueue` | the awaits inside `dispatch_node` |
| `Approve`, `Reject`, `AdminReset`, `Crash` | the endpoints, and the loss of everything in memory |

Points worth knowing:

- A node that writes outside the graph takes two steps, the effect and `Save`.
  A node without an effect saves its checkpoint in the same step.
- `interrupt_before=["pause_for_human"]` stops a run when a supervisor step
  leads to that node; only a resume that starts from such a checkpoint runs it.
- A webhook without a report id, or an approval for an investigation that does
  not exist, is not modelled. Any existing approval and investigation can be
  combined in a decision.
- The event id and the report id of a webhook are drawn together, so both
  unique constraints are modelled on the report.
- `reconcile_model_uri` either goes on or blocks the dispatch; its failure is
  one of the `Fault` disjuncts of `CheckFreshness`. The drift endpoint always
  sends model version 1, so the version comparison of `_approval_is_valid` is
  left out.
- `rollback` is an action of the type and never proposed by `propose_action`.
- The key's 24 h TTL does not expire in this module; it does in `JobQueue`.

### HilContract and AgentContract

`HilContract` has four variables and no graph: the severity each investigation
was opened with, what humans were asked, what one agreed to, what was sent.
`Ask` is only for the action the severity calls for, `Agree` only to what was
asked, `Send` only what was agreed, once per investigation. `AgentContract` maps
them to the tables and the queue: `alert` to the severity of the alert of each
open or closed row, `asked` to the rows of `hil_approvals` as pairs of
investigation and action, `agreed` to those that were ever granted, `sent` to the
queue without its approval ids. Every step of `AgentGraph` is one of the four or
a stutter, so that all the retries, crashes and double resumes of the graph are
invisible from the contract.

### DriftService

`req[t]` is one `GET /drift/report` with the background task it leaves behind,
`lock` and `cache` are `_drift_lock` and `_drift_cache`, `alert` is
`drift_alert_state.last_severity`. A report is its severity, and the rolling
window is the severity it would give, or `"empty"`: nothing in this code looks
at anything else. `last` and `heard` are the agent's side: it accepts an event
once and recognises a repeated one by its id (`known`). The runs instantiate this
module itself.

`Acquire`, `Fetch` and `Compute` are the body of the lock: the second look at the
cache, the query, and the computation up to the release, which has no await and ends
what a forced request differs in. `LookUp`, `Post` and `Store` are the background
task: the SELECT, one webhook attempt each time, the upsert. `Reset` commits and
`ClearCache` clears, because other handlers run between the commit and the clear.
The 503 of a service without a model is left out; it changes nothing.

### JobQueue, ModelRegistry and Worker

| TLA+ | Code |
|---|---|
| `keys`, `job`, `dlq` | Redis: `dispatch:{action}:{investigation}`, arq's jobs with `job_try`, `drift_actions:dlq` |
| `versions`, `served` | the registry of the classifier; `app.state.pipeline` |
| `inbox`, `promo` | requests the service has received; the promote handler between its two transitions |
| `run` | where each client is: a job, or `make train` (`Cli`) |
| `activeRun` | mlflow's active run in the worker process |
| `granted`, `torn`, `mixed` | history: whom a version was promoted for; a handler that stopped between its transitions; a trainer that took another's version for its own |
| `Start`, `Drop`, `Retry`, `DeadLetter`, `DeadLetterFails`, `Finish`, `JobTimeout`, `Reclaim` | what arq and the `except` clause of each job do with a try |
| `ReplayLoad`, `ReplayLog` | `replay_test`: load and replay, the mlflow run |
| `Train`, `StageNewest`, `Tag`, `Compare` | `retrain` and `register_model` between the calls another process sees |
| `Post`, `Refused`, `Passed`, `Archived`, `PromotedAndAnswered`, `TransitionFails`, `HttpTimeout` | the promotion request, on both sides |
| `WorkerCrash`, `ServiceRestart` | loss of what a process has in memory; the service loads a version again |

Points worth knowing:

- `replay_test` and `retrain` never await before their request, so that one of
  them holds the worker's loop (`LoopIsFree`); `make train` and the service
  interleave with every call to MLflow. The promote handler never awaits either,
  so that promotions are serialised, and a restart or a failed transition can
  stop it between its two transitions.
- `HttpTimeout` and `JobTimeout` end a try at either end of its request: before it
  is made (a connection that is refused, a job whose time is up when it comes to its
  first await), or while its answer is awaited, which leaves the request at the
  service. Answers find their job by its try.
- A rollback's target is the model version in its payload, which is that of the
  alert: a version in Production, or archived since. No proposal of the agent is a
  rollback today; the worker registers the function, so the models dispatch it.
- `auc` is what a version is worth and `tag` what the gates read, which is set
  after the version is in Staging. The recall tag is set with it and passes its
  gate by the choice of the threshold (`TrainedModelPassesGate`).
- The expiry of a dispatch key is also that of the job's body in arq, the two
  being written within one call and each kept for a day.
- Half of `JobQueue` is arq's and marked external; the counting of tries, the
  claims and the failure of a job without a body are as arq 0.26 does them.

### Training and DriftMath

These functions have no state and interact with nothing, so that `call` is one
call with its arguments and its result and each action draws the inputs. A fitted
pipeline is the scores it gives, probabilities are multiples of `1/Grid`, rates
pairs, PSI and statistics thousandths, logarithms a table of the counts that
occur, the chi-squared p-value its critical values at 0.05 and 0.01. The
half-open bins, the epsilon, the truncation of a percentage and the stability of the
sorts are as in numpy and Python.

Quantile edges are exact, times the number of bins, except where floating point
matters: an edge that should fall on a value of the reference can come out just above
it and put the rows of that value a bin lower (`np.linspace(0, 1, 6)[3]` is
0.6000000000000001, so a reference of 0 to 5 in 5 bins has an edge at
3.0000000000000004). Which edges do is a choice of each call (`rounded`), over all
sets of edges. Only an edge that is interpolated between different values can
(`Interpolates`): numpy's interpolation between equal ones is exact. An edge just below
its exact value is below the same values as the exact one.

## 3. Runs

| Run | Instance | Shows |
|---|---|---|
| `AgentRecovery` | 1 report, 2 investigation ids, 2 approvals, 2 requests, 1 fault, 1 crash | the inductive invariant, one investigation per event, at most one job, approved jobs, checkpoints that keep their approval, a closed row for an ended thread, closed stays closed |
| `AgentRests` | 2 reports of any severity, 2 investigations, 2 approvals, 1 request, 1 fault, fair | the graph implements `HilContract`; jobs fit their alert while the report changes; what a dispatch says is in the queue; every opened investigation reaches its approval or its end |
| `AgentResumes` | 1 report, 2 approvals, 2 requests, fair | a resumed run takes its thread to the end, whatever the other run and the operators do |
| `DriftOverlap` | 2 requests, forced or not, 2 attempts, 1 fault, 1 crash, fair | invariant, row behind the agent, single flight, and the row follows a lasting severity through overlapping tasks, a lost webhook and a crash |
| `WorkerJobs` | 2 jobs of any kind, 2 tries, 1 fault, 1 crash, 1 expiry, fair | at most one Production version, kept once there is one; a version to load at every moment; at most one promotion per try; a dead-letter list without duplicates; no job lost without a cause of its own; replays that survive fewer faults than tries; restarts that serve what was promoted; every job ends |
| `WorkerRegistry` | 2 retrains, 1 `make train`, 2 AUCs, no fault | one Production version, the best that was promoted; an approved retrain promotes once; a dead letter has had no effect; a retrain that ended well is in use |
| `DriftMath` | all inputs up to the bounds | the threshold is the highest with enough recall and passes the gate; shifts and unknown categories are seen; no bin has more than its share but for ties; the webhook explains the severity; both summaries agree |

Runs that find what a document or comment says and the code does not do:

| Run | Said | Done |
|---|---|---|
| `AgentRestart` | `README.md:172`: a killed agent resumes investigations from the last checkpoint | the lifespan resumes nothing; the run stays where it was |
| `AgentEarlyApproval` | `agent/routers/hil.py:35`: the decision resumes the paused graph | an approval between the committed row and the paused checkpoint resumes an earlier node; a second approval replaces the granted one |
| `DriftMissedAlert` | `service/routers/drift.py:1`: webhook on severity change | two overlapping background tasks send in one order and store in the other: row and window agree, and the agent keeps the older severity, with nothing failing |
| `WorkerRollback` | `worker/rollback.py:22`: a rollback re-promotes a previous stable version to Production | the first gate refuses what is not in Staging: the rollback is refused on each try and dead-lettered, with nothing failing |
| `OutputDrift` | `README.md:140`: output PSI catches silent drift | the rebuilt reference has 100 zeros, so its median is 0 and every label falls into one bin: the PSI is 0 for all 0 against all 1 |

### Bounds

- Two requests are enough for every race of the agent and of the drift report: a
  property relates at most two runs of one thread, or two report requests. Two
  approvals allow the second request of one investigation that a crash or an
  early approval causes; two investigations tell apart keys and rows that forget
  the investigation.
- `RecursionLimit` is LangGraph's 25 in the code. A run from triage to its
  approval takes 6 supersteps and a resumed one 6; the instances use 7 to 9, so
  the limit can be reached with a failing call, and ends the run as in the code.
  `AgentRests` has room for its fault, as the code has for nine.
- `MaxFaults` counts failing calls, `MaxCrashes` crashes. One of each reaches
  every pair (effect, lost record). `Attempts` is 3 in the code and 2 in
  `DriftOverlap`: a lost attempt and its retry. A webhook is given up there by an
  error status, which is not retried. The counterexample of `DriftMissedAlert` needs
  no fault, no crash and one attempt.
- `MaxTries` is 3 in the code and 2 in the instances: a first try, a retry and a
  dead letter are what there is to tell apart. A permanent failure (a rollback,
  which is refused each time) uses up its tries without a fault, so one fault is
  enough to add a failing push or a lost answer. One expiry suffices for a key
  whose job is still queued and for a second job of the same key.
- `WorkerRollback` has a rollback and two retrains, the second of which archives the
  version that the first promoted and the rollback names.
- `WorkerRegistry` has two AUCs, for a better, an equal and a worse candidate,
  and one `make train` between two retrains, which is what it takes for one
  trainer to stage or pick up another's version.
- `DriftMath` runs all samples of two validation rows and their scores in quarters
  for two candidates, references of 3 to 5 values out of five in 3 bins with any of
  their edges rounded, with windows of 1 or 2, one or two categories with up to 8
  unknown rows, and up to two numeric and two categorical features. `MinRecall` is
  50 there so that the limit is met exactly by one of two positive rows, and 75 as
  in the code in `OutputDrift`. `Top` and `DashboardTop` are 5 and 3 in the code and
  3 and 2 here, less than the features there are.
- Symmetry is used in safety runs only. Ids are uuids that the code compares for
  equality.
- Deadlock is checked except in `Worker`, which stops when every job has ended
  and the bounds are used up. There `EveryJobEnds` takes its place.

### Fairness

`AgentGraph!FairSpec`: weak fairness of each request in flight, because the
event loop serves it until it ends. Nothing is assumed of operators, of the
model service, of crashes. Faults are bounded, so they do not recur forever.
`DriftService!FairSpec`: the same for requests and for a reset under way; cached
reports expire (TTL of 60 s); and somebody keeps asking for the report without
forcing, as the agent's triage and the dashboard do. Without the last a severity
is never looked at.
`Worker!FairSpec`: the worker polls its queue and runs what it has picked up, an
in-progress key in Redis expires, the service answers what it has received.
Nothing is assumed of `make train`, of dispatches, of expiries and of crashes.

## 4. Proofs

`AgentGraphProofs` proves `Spec => []IInv` for any number of investigations,
approvals, reports, requests, faults and crashes, assuming only that `NoId` is
not an id and the bounds are natural numbers. `AgentGraphInv` states `IInv`:

- `RowsOK`: a row exists exactly when it has its report or investigation, and an
  approved row was granted.
- `TasksOK`: where a request is agrees with its investigation and its limit.
- `StatesOK`, from `GoodState` and `GoodAt`: what the state in a checkpoint or in
  a running request must satisfy, in general and given the node that comes next.
  This is the strengthening: the approval a state names is a row of its own
  investigation and proposal, the proposal is the one the alert asks for, and
  past the dispatch it is resolved. The safety properties are not inductive
  without it, since two runs overwrite each other's checkpoint and a resume
  goes on from whatever checkpoint is there.
- `QueueOK`: each job has its key, and a request between claiming a key and
  enqueueing is the only one and has no job before it.

From it follow `TypeOK`, `OneInvestigationPerReport`, `AtMostOneJob`,
`JobApproved`, `JobFitsAlert`, `CheckpointApproval`, and, with one more step
argument, the action property `ResolvedStaysResolved`. The proof has one lemma
per group of actions that can disturb a conjunct; the rest are framed.

`AgentOutcomeProofs` adds `OutcomesOK` for the other two, `DispatchedIsQueued`
and `EndedIsResolved`. `Told`: what a state says of its dispatch is true of the
queue, where a claimed key stands for a job that is there, a request about to
enqueue it, or a failure. `Closing`: as long as no call has failed, the state of
an actionable alert is resolved only once it has the triaged report, so that its
comms node does write the row, and a row it has written stays closed. Both are
carried by every checkpoint and every running request, because a resume takes
over whatever checkpoint is there.

`AgentContractProofs` proves the refinement, `Spec => ImplementsContract`, from
the same invariant: only `InsertRow` opens, only `RequestHil` asks and, by
`GoodAt`, for the action of the alert, only `Approve` grants, only `Enqueue`
sends and, by `QueueOK`, what was granted and what has no job yet.

`DriftServiceProofs` proves `IInv` = `TypeOK`, `LockHeld`, `Reported`,
`StoredWasHeard`, `ComputesUncached`, and from it `StoredWasHeard` (the row
never holds what the agent was not told) and `SingleFlight`. `LockHeld` is
needed because only the holder of the lock fills the cache.

`WorkerProofs` works on two projections, `QueueStep` and `RegistryStep`: what
each step of the system is to the queue and to the registry (`Frames`). Its
`IInv`, for any number of jobs, tries, trainings, faults and crashes, is

- `StagesOK`: one version in Staging and one in Production, and while the promote
  handler is between its transitions Production is empty. `OneProduction` is not
  inductive without it, as the handler archives the version it read earlier.
- `JobsOK`: a client that is somewhere has a running job, and what is in the
  dead-letter list is on its way out, so that it is not pushed again.
- `TargetsOK`: what a promotion is asked for, taken up or archived exists and has
  left the stage None.
- `ForwardOK`: as long as no trainer has taken another's version for its own, a
  version that was promoted is in Production or archived, the one being promoted
  was not, and the last version of a trainer about to stage it is untouched.
- `TagsOK`: likewise, a tag is 0 or the AUC, since each trainer tags its own.
- `BestOK`: with no torn promotion either, what is in Production was promoted and
  is the best that was, and so is what the handler is about to promote; between
  its transitions, when Production is empty, the handler carries this.

From it follow `TypeOK`, `OneProduction`, `DeadLetteredOnce`, `ProductionKept`,
`ProductionIsBest` and, with one step argument, `RestartServesPromoted`.

`WorkerOutcomeProofs` adds to it what becomes of a job, again for any number of
jobs, tries, trainings, faults and crashes (`Outcomes`):

- `LostOK`: while no key expires, every job has its body and with it its key, so that
  no second job has the same one; while nothing fails or dies, a queued job has a try
  left, none is claimed, and a lost one has no body any more, which is
  `LostIsExplained`.
- `KindsOK`: where a job can be, by its kind; only a replay loads, only a retrain
  trains, a replay never asks for a promotion.
- `LoadOK`: there is always a version to load, because the Staging version is
  newer than the one in Production and than the one being promoted. Without it
  the archiving transition could empty both stages, and a replay would fail with
  no fault. `ModelLoadable` is a part of it (`SomethingToLoad`), and that of interest
  to a service that restarts.
- `RetriesOK`: with no run left open, each failed try of a replay has cost a
  fault, whoever else fails. `RetriesSuffice` follows for the last try.
- `RequestsOK`: a request is of one try of its job, and a job on a later try or in
  a training has none of its own on the way that could be taken for its answer.
- `OwnersOK`: what is in Production was promoted, and what a job logged is that of
  a retrain.
- `SentOK`: while nothing fails or dies, each request is the one its job waits
  for, no job has two, and each promoted version is of a different job, one that
  ended well. `DeadLetterHasNoEffect` is its fourth conjunct; `PromotesOnce` takes
  the fifth and that two jobs of one key do not exist.
- `GrantsOK`: the versions promoted for a job, its requests at the service and the
  one it is about to send are together no more than its tries, a request moving
  from one of these to the next and a try making one at most. A request whose try
  was cut off still counts, and so `OnePromotionPerTry` survives every fault and
  crash (`TriesPromoteOnce`).
- `UsedOK`: the last version of a retrain, from logging to staging, tagging,
  comparison and request, is the one it works on; when the retrain has ended well,
  a promoted one is as good. It holds after faults, crashes and lost answers too,
  but not when a trainer took another's version for its own (`mixed`).

One lemma per part shows that a step keeps it (`LostStep` to `UsedStep`), most of
them from `OthersStay`, by which a job moves only by its own steps, the service's
answers and crashes.

`DriftMathProofs` proves the invariants of `Training` and `DriftMath`. The state
is one call, so that each is a theorem of its function:

- `ThresholdIsHighest`, `TrainedModelPassesGate`: the lowest score labels every
  row, so that some threshold always has enough recall, the fallback to the best
  F1 in `find_threshold` is never taken, and a threshold between two scores does
  no better than the next score above it. The stratified split leaves a positive
  row for validation.
- `ViewsAgree`, `WebhookExplainsSeverity`: `Place` is a bijection of the items and
  their ranks (`PlacesAreFilled`), and the rank orders by severity first whatever
  comes second, so that the k-th severity depends on the severities alone.
- `BinsAreBalanced`: an edge whose position is before that of a row is not above
  its value, however it is rounded, since it is an interpolation that ends there at
  the latest; one at the row or behind it is not below its value (`EdgeBefore`).
  Hence a row that is not among the least of its bin lies behind the lower edge of
  the bin and not behind the upper one (`RowsAbove`), and a stretch of that length
  holds only so many rows (`RowsBetween`). It holds for any number of bins, any ties
  and any rounded edges.
- `ShiftIsSeen`: the rows of such a window are all in the first or the last bin, and
  a row of the reference is in another: below, by `EdgeBefore`; above, as the last
  edge is not above the last row of the least value exactly when its position is not
  (`LastOfValue`, `EdgeBelow`), where ties count. No term of the PSI is negative,
  and the term of that other bin alone is above 0.25, since the logarithms of a
  share that occurs and of the epsilon differ by more than 16. It holds for any
  number of bins and any values, any rounded edges, and for up to six rows of each
  series, the logarithms there are.
- `UnknownIsSeen`: with `d` the difference of a category and `u` the unknown rows,
  `(d + u * r)^2` is no less than 0, which bounds its term from below by a linear
  function of its two counts (`TermIsAbove`). The sum of these bounds is `u * u`
  over the rows of the window, whatever the counts (`StatisticIsAbove`). It holds
  for features of up to three categories, the degrees of freedom `Critical` has.

The sums and products are folds over finite sets, and the library's induction
theorems cannot be instantiated by these provers. `MathLemmas` argues by a least
counterexample instead: a smallest subset for which the recursion of the fold has no
solution (`IterExists`), for which a summand exceeds the sum (`SumIsAtLeast`), for
which the counts do not add up to the number of rows (`SumOfCounts`), for which a
linear bound of the terms does not carry over to the sum (`SumIsLinear`), or for
which a factor does not divide the product (`ProductOfFactors`).

Only model-checked:

- the liveness properties `EveryInvestigationRests`, `ResumedRunEnds`,
  `AlertFollowsWindow` and `EveryJobEnds`, as the prover has
  neither fairness nor ENABLED;
- the properties of the runs that end in a violation.

## 5. What the models show besides

Behaviour met while modelling that no document promises otherwise, or that the
number of runs leaves no room for:

- Two overlapping deliveries of one event: the second meets the unique
  constraint outside the handler's `try` (`agent/routers/webhook.py:113`) and is
  answered with an error instead of the duplicate's answer (`ARCH.md:63`,
  idempotent intake).
- The freshness check compares severities only when the report ids differ
  (`agent/graph.py:433`), although its comment at 417 says it blocks when the
  severity differs.
- A dispatch whose `enqueue_job` fails keeps its key (`worker/dedup.py:60`), so
  that no job can be queued for 24 hours. `DispatchedIsQueued` allows for it.
- A promotion torn between its transitions leaves no Production version, and the
  next one meets no AUC gate (`torn` in `ProductionKept`, `ProductionIsBest`).
- A lost answer makes a retried retrain train and promote again, or ends in the
  dead-letter list with its model in Production. `PromotesOnce` and
  `DeadLetterHasNoEffect` hold only undisturbed.
- Two overlapping background tasks of the same severity both send it: an alert need
  not be a change. The agent opens an investigation for each.
- A crash between a webhook's answer and its upsert (`service/routers/drift.py:164`)
  has the effect of `DriftMissedAlert` with a single request: the row still holds the
  severity before, a window that goes back to it is not announced.
- "Uses quantile bins from the reference distribution to avoid empty bins"
  (`drift/psi.py:44`, likewise `DECISIONS.md`): ties leave bins empty, and so do
  rounded edges, as with a reference of 0 to 5 in 5 bins or 0 to 10 in 10. What
  remains true is `BinsAreBalanced`.
- A `make train` during a retrain can have its version promoted by it, or take a
  Production version back to Staging (`mixed`).
- After a failed `log_metrics` the run of a replay stays active in the worker and
  fails every later replay with a Production version, and every retrain, until
  the process is restarted (`activeRun` in `RetriesSuffice`).
- A promoted version is served only after the service is restarted, with the
  reference that the last training wrote, promoted or not.
- The reference rate is counted at 0.5 (`ml/reference_stats.py`) and the window
  at the operating threshold.
- The queue depth endpoint reads another Redis key than arq's and is always 0.

## 6. Not modelled

Fitting and scoring of pipelines (scikit-learn), preparation of features, missing
values in the drift tests, texts (prompts, summaries, the dashboard's wording),
metrics and logs, authentication, configuration. A hypothesis that
`propose_action` rejects for its length fails on every try and ends in the
recursion limit; the models have no failure that depends on a text. What the demo
scripts and the dashboard do is to call endpoints, which the models allow at any
time. The read-only endpoints change nothing.

## 7. Plan

1. Done: `AgentGraph`, `DriftService`, `JobQueue`, `ModelRegistry`, `Worker`,
   `Training`, `DriftMath`, `HilContract`, and the proofs of section 4.
2. Done: the outcome of jobs and the invariants of the mathematics
   (`WorkerOutcomeProofs`, `DriftMathProofs`): every property of a passing run but
   the liveness ones has a theorem.
3. A composition of `DriftService` with the intake, so that a lasting severity
   opens an investigation.
