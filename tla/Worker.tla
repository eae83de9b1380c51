-------------------------------- MODULE Worker --------------------------------
(***************************************************************************)
(* The arq worker and its three jobs, composed with the queue they come    *)
(* from (JobQueue) and with the registry and the service they change       *)
(* (ModelRegistry).  A client is a job, or a `make train` on the host.     *)
(*                                                                         *)
(* The worker is one event loop.  replay_test and retrain never await      *)
(* before their promotion request, so that one of them holds the loop      *)
(* until it ends or waits for an answer; the service and `make train` are  *)
(* other processes and go on meanwhile.                                    *)
(***************************************************************************)
EXTENDS JobQueue, ModelRegistry

CONSTANTS
    MaxTrainings,   \* bound: `make train` after the first
    MaxFaults,      \* bound: failing calls and lost answers
    MaxCrashes      \* bound: crashes of the worker or restarts of the service

ASSUME ClientsAreJobs ==
    Client = Job \cup {Cli} /\ Cli \notin Job /\ NoClient = NoId
ASSUME WorkerBounds == {MaxTrainings, MaxFaults, MaxCrashes} \subseteq Nat

VARIABLES
    run,         \* where each client is, and what it holds in memory
    activeRun,   \* mlflow's active run, left open in the worker process
    trainings,
    faults,
    crashes

bounds == <<trainings, faults, crashes>>
vars   == <<queueVars, registryVars, run, activeRun, bounds>>

\* The synchronous points of a job, the awaited ones, and the two ends.
Blocking == {"load", "log_metrics", "train", "stage", "tag", "compare"}
Waiting  == {"post", "sent"}
Ending   == {"failed", "return"}
Run == [pc      : Blocking \cup Waiting \cup Ending \cup {"idle"},
        auc     : Auc \cup {0},
        version : Nat]
IdleRun == [pc |-> "idle", auc |-> 0, version |-> 0]

TypeOK ==
    /\ QueueTypeOK
    /\ RegistryTypeOK
    /\ run \in [Client -> Run]
    /\ activeRun \in BOOLEAN
    /\ trainings \in 0 .. MaxTrainings
    /\ faults \in 0 .. MaxFaults
    /\ crashes \in 0 .. MaxCrashes

Init ==
    /\ QueueInit
    /\ RegistryInit
    /\ run = [c \in Client |-> IdleRun]
    /\ activeRun = FALSE
    /\ trainings = 0
    /\ faults = 0
    /\ crashes = 0

-----------------------------------------------------------------------------
LoopIsFree == \A j \in Job : run[j].pc \notin Blocking

Fault == faults < MaxFaults /\ faults' = faults + 1
         /\ UNCHANGED <<trainings, crashes>>
NoFault == UNCHANGED bounds

Goto(c, pc) == run' = [run EXCEPT ![c].pc = pc]

Registry == UNCHANGED <<queueVars, activeRun>>   \* only the registry changes
Local    == UNCHANGED <<queueVars, registryVars, activeRun>>

\* The body of the job raises: on to its except clause.
Raise(c) == Goto(c, IF c = Cli THEN "idle" ELSE "failed")

-----------------------------------------------------------------------------
(* The queue, as the worker drives it.                                     *)

\* A rollback names a version that exists; the other jobs name none.
Targets(kind) == IF kind = "rollback" THEN Numbers ELSE {0}

Dispatch(j, k, target) ==
    /\ EnqueueJob(j, k, target)
    /\ UNCHANGED <<registryVars, run, activeRun, bounds>>

FirstStep(kind) == CASE kind = "replay_test" -> "load"
                     [] kind = "retrain" -> "train"
                     [] kind = "rollback" -> "post"

Start(j) ==
    /\ LoopIsFree
    /\ PickUp(j)
    /\ run' = [run EXCEPT ![j] = [pc |-> FirstStep(job[j].key.kind), auc |-> 0,
                                  version |-> job[j].target]]
    /\ UNCHANGED <<registryVars, activeRun, bounds>>

Drop(j) ==
    /\ LoopIsFree
    /\ GiveUpJob(j)
    /\ UNCHANGED <<registryVars, run, activeRun, bounds>>

Retry(j) ==
    /\ LoopIsFree
    /\ run[j].pc = "failed"
    /\ RetryJob(j)
    /\ run' = [run EXCEPT ![j] = IdleRun]
    /\ UNCHANGED <<registryVars, activeRun, bounds>>

DeadLetter(j) ==
    /\ LoopIsFree
    /\ run[j].pc = "failed"
    /\ PushToDlq(j)
    /\ Goto(j, "return")
    /\ UNCHANGED <<registryVars, activeRun, bounds>>

\* The push is outside the try: its error ends the job.
DeadLetterFails(j) ==
    /\ LoopIsFree
    /\ run[j].pc = "failed"
    /\ LastTry(j)
    /\ FailJob(j)
    /\ run' = [run EXCEPT ![j] = IdleRun]
    /\ Fault
    /\ UNCHANGED <<registryVars, activeRun>>

Finish(j) ==
    /\ LoopIsFree
    /\ run[j].pc = "return"
    /\ FinishJob(j)
    /\ run' = [run EXCEPT ![j] = IdleRun]
    /\ UNCHANGED <<registryVars, activeRun, bounds>>

\* job_timeout takes effect where the job awaits, before or after its request
\* is on its way, and is not an Exception the job could catch: arq fails it
\* without a retry.
JobTimeout(j) ==
    /\ LoopIsFree
    /\ run[j].pc \in Waiting
    /\ FailJob(j)
    /\ run' = [run EXCEPT ![j] = IdleRun]
    /\ Fault
    /\ UNCHANGED <<registryVars, activeRun>>

Reclaim(j) ==
    /\ ClaimExpires(j)
    /\ UNCHANGED <<registryVars, run, activeRun, bounds>>

DayPasses(k) ==
    /\ KeyExpires(k)
    /\ UNCHANGED <<registryVars, run, activeRun, bounds>>

-----------------------------------------------------------------------------
(* replay_test.                                                            *)

\* A version is loaded and the test set replayed through it.
ReplayLoad(j) ==
    /\ run[j].pc = "load"
    /\ \/ NoFault /\ Goto(j, IF VersionToLoad = 0 THEN "failed" ELSE "log_metrics")
       \/ Fault /\ Raise(j)
    /\ Local

\* The metrics go to the run of the Production version, if there is one.  The
\* run is opened without a context manager: log_metrics that fails leaves it
\* active, and mlflow opens no other run in this process.
ReplayLog(j) ==
    /\ run[j].pc = "log_metrics"
    /\ \/ /\ NoFault
          /\ Goto(j, IF In("Production") # {} /\ activeRun THEN "failed"
                     ELSE "return")
          /\ activeRun' = activeRun
       \/ /\ Fault
          /\ In("Production") # {}
          /\ Raise(j)
          /\ activeRun' = TRUE
    /\ UNCHANGED <<queueVars, registryVars>>

-----------------------------------------------------------------------------
(* retrain, and `make train` up to its registration.                       *)

\* load_data, train, find_threshold and the run with its logged model: nothing
\* another process sees before the version exists.
Train(c, a) ==
    /\ run[c].pc = "train"
    /\ ~(activeRun /\ c # Cli)
    /\ LogModel(c, a)
    /\ run' = [run EXCEPT ![c].pc = "stage", ![c].auc = a]
    /\ NoFault
    /\ Registry

TrainFails(c) ==
    /\ run[c].pc = "train"
    /\ \/ activeRun /\ c # Cli /\ NoFault
       \/ Fault
    /\ Raise(c)
    /\ Local

StageNewest(c) ==
    /\ run[c].pc = "stage"
    /\ \/ /\ NoFault
          /\ StageLatest(c)
          /\ run' = [run EXCEPT ![c].pc = "tag", ![c].version = Len(versions)]
       \/ /\ Fault
          /\ Raise(c)
          /\ UNCHANGED registryVars
    /\ Registry

\* The fidelity check that ends `make train` changes nothing.
Tag(c) ==
    /\ run[c].pc = "tag"
    /\ \/ /\ NoFault
          /\ TagVersion(run[c].version, run[c].auc)
          /\ Goto(c, IF c = Cli THEN "idle" ELSE "compare")
       \/ /\ Fault
          /\ Raise(c)
          /\ UNCHANGED registryVars
    /\ Registry

ProductionTag == IF In("Production") = {} THEN 0
                 ELSE versions[Latest("Production")].tag

\* register_model loads the Staging version at its end, which fails if there is
\* none; then the retrain asks for the promotion of whatever is in Staging if
\* its own AUC is not below the tag of the Production version.
Compare(j) ==
    /\ run[j].pc = "compare"
    /\ \/ /\ NoFault
          /\ TakeStaging(j)
          /\ run' = [run EXCEPT ![j].pc =
                        IF In("Staging") = {} THEN "failed"
                        ELSE IF run[j].auc >= ProductionTag THEN "post"
                        ELSE "return",
                     ![j].version = Latest("Staging")]
       \/ /\ Fault
          /\ Raise(j)
          /\ UNCHANGED registryVars
    /\ Registry

MakeTrain ==
    /\ trainings < MaxTrainings
    /\ run[Cli].pc = "idle"
    /\ trainings' = trainings + 1
    /\ run' = [run EXCEPT ![Cli] = [IdleRun EXCEPT !.pc = "train"]]
    /\ UNCHANGED <<faults, crashes>>
    /\ Local

-----------------------------------------------------------------------------
(* The promotion request of a retrain or a rollback.                       *)

RequestOf(j) == [client |-> j, target |-> run[j].version, try |-> job[j].tries]

Post(j) ==
    /\ LoopIsFree
    /\ run[j].pc = "post"
    /\ Receive(RequestOf(j))
    /\ Goto(j, "sent")
    /\ NoFault
    /\ Registry

\* The answer finds the job only if this try of it still waits.
Answered(req, pc) ==
    run' = IF run[req.client].pc = "sent" /\ job[req.client].tries = req.try
           THEN [run EXCEPT ![req.client].pc = pc]
           ELSE run

\* Mutants: any answer will do; only a 201 will.
AnyStatus == "return"
NotSuccess == "failed"
OnlyCreated == "failed"
Success == "return"

Refused(req) ==
    /\ Refuse(req)
    /\ Answered(req, NotSuccess)
    /\ NoFault
    /\ Registry

Passed(req) ==
    /\ PassGates(req)
    /\ run' = run
    /\ NoFault
    /\ Registry

Archived ==
    /\ ArchivePrevious
    /\ run' = run
    /\ NoFault
    /\ Registry

PromotedAndAnswered ==
    /\ Promote
    /\ Answered(promo.req, Success)
    /\ NoFault
    /\ Registry

TransitionFails ==
    /\ PromoteFails
    /\ Answered(promo.req, NotSuccess)
    /\ Fault
    /\ Registry

\* A connection that is refused, and no request is made; the 30 s of the client
\* or a connection that breaks, and the service goes on.
HttpTimeout(j) ==
    /\ LoopIsFree
    /\ run[j].pc \in Waiting
    /\ Goto(j, "failed")
    /\ Fault
    /\ UNCHANGED <<queueVars, registryVars, activeRun>>

-----------------------------------------------------------------------------
(* Crashes.                                                                *)

Crashed == crashes < MaxCrashes /\ crashes' = crashes + 1
           /\ UNCHANGED <<trainings, faults>>

WorkerCrash ==
    /\ Crashed
    /\ AbandonJobs
    /\ run' = [c \in Client |-> IF c = Cli THEN run[c] ELSE IdleRun]
    /\ activeRun' = FALSE
    /\ UNCHANGED registryVars

\* The connections of the waiting jobs break.
ServiceRestart ==
    /\ Crashed
    /\ RestartService
    /\ run' = [c \in Client |-> IF run[c].pc = "sent"
                                THEN [run[c] EXCEPT !.pc = "failed"] ELSE run[c]]
    /\ Registry

-----------------------------------------------------------------------------
WorkerStep(j) ==
    \/ Start(j) \/ Drop(j) \/ Retry(j) \/ DeadLetter(j) \/ DeadLetterFails(j)
    \/ Finish(j) \/ JobTimeout(j) \/ ReplayLoad(j) \/ ReplayLog(j)
    \/ Compare(j) \/ Post(j) \/ HttpTimeout(j)

TrainingStep(c) ==
    \/ \E a \in Auc : Train(c, a)
    \/ TrainFails(c) \/ StageNewest(c) \/ Tag(c)

ServiceStep ==
    \/ \E req \in inbox : Refused(req) \/ Passed(req)
    \/ Archived \/ PromotedAndAnswered \/ TransitionFails

Next ==
    \/ \E j \in Job, k \in Key :
          \E target \in Targets(k.kind) : Dispatch(j, k, target)
    \/ \E j \in Job : WorkerStep(j) \/ Reclaim(j)
    \/ \E c \in Client : TrainingStep(c)
    \/ MakeTrain
    \/ ServiceStep
    \/ \E k \in Key : DayPasses(k)
    \/ WorkerCrash
    \/ ServiceRestart

Spec == Init /\ [][Next]_vars

\* The worker polls the queue and runs what it has picked up, Redis lets the
\* in-progress key of a dead worker expire, the service answers.  Nothing is
\* assumed of `make train`, of dispatches, of expiries and of crashes.
FairSpec ==
    /\ Spec
    /\ \A j \in Job : /\ WF_vars(WorkerStep(j))
                      /\ WF_vars(TrainingStep(j))
                      /\ WF_vars(Reclaim(j))
    /\ WF_vars(ServiceStep)

-----------------------------------------------------------------------------
(* Safety.                                                                 *)

Disturbed == faults + crashes > 0

\* At most one version is in Production, whatever trainings, requests, failing
\* transitions and restarts come between a promotion's two calls.
OneProduction == \A v, w \in In("Production") : v = w

\* Once a version was promoted there is one in Production: it is missing only
\* between the two transitions of a promotion, after a handler stopped between
\* them, or after a trainer took another's version for its own.
ProductionKept ==
    Promoted # {} /\ In("Production") = {} =>
        promo.step = "promote" \/ torn \/ mixed

\* The Production version is worth at least as much as every version that was
\* promoted before it, as far as tags tell the truth and none was skipped.
ProductionIsBest ==
    ~torn /\ ~mixed =>
        \A v \in In("Production"), w \in Promoted :
            versions[v].auc >= versions[w].auc

\* A service that starts finds a model to load at every moment: between the two
\* transitions of a promotion, after one that failed there, and before the
\* first.
ModelLoadable == VersionToLoad # 0

\* After the first promotion a restarted service loads only promoted versions,
\* and never one that still waits in Staging for its approval.
RestartServesPromoted ==
    [][served' # served /\ Promoted # {} =>
          served' \in Promoted \/ torn' \/ mixed']_vars

\* An approved retrain replaces Production at most once, however it is retried,
\* as long as no answer is lost, nothing crashes and its key stands.
PromotesOnce ==
    ~Disturbed /\ expiries = 0 =>
        \A v, w \in Promoted :
            LET k == job[versions[v].granted].key IN
               k.kind = "retrain" /\ job[versions[w].granted].key = k => v = w

\* Lost answers, timeouts and crashes of either process repeat a promotion at
\* most once per try: no try is granted two.
OnePromotionPerTry ==
    \A j \in Job :
        Cardinality({v \in Promoted : versions[v].granted = j}) <= job[j].tries

\* What is in the dead-letter list has no effect: a retrain or rollback there
\* has promoted nothing, unless an answer was lost or a process died.
DeadLetterHasNoEffect ==
    ~Disturbed =>
        \A v \in Promoted : ~DeadLettered(versions[v].granted)

\* The model of a retrain that ended well is promoted, or one at least as good
\* is, as long as each trainer works on its own version.
RetrainIsUsed ==
    ~mixed =>
        \A j \in Job, v \in Numbers :
            (/\ job[j].status = "done"
             /\ ~DeadLettered(j)
             /\ versions[v].by = j
             /\ \A w \in Numbers : versions[w].by = j => w <= v)
                => \E w \in Promoted : versions[w].auc >= versions[v].auc

\* A job is in the dead-letter list once, and only after all its tries.
DeadLetteredOnce ==
    \A m, n \in 1 .. Len(dlq) :
        /\ dlq[m] = dlq[n] => m = n
        /\ job[dlq[m]].tries = MaxTries

\* arq gives a job up only when its own body expired, a worker died or a call
\* failed: a job that runs out of tries is in the dead-letter list before arq
\* sees it, and the expiry of another job does it no harm.
LostIsExplained ==
    \A j \in Job :
        job[j].status = "lost" => Disturbed \/ ~HasBody(j)

\* The tries of a replay outlast fewer failures than there are tries, unless a
\* failed one has left its run open, which fails all that follow.
RetriesSuffice ==
    \A j \in Job :
        (/\ DeadLettered(j)
         /\ job[j].key.kind = "replay_test"
         /\ faults < MaxTries
         /\ crashes = 0) => activeRun

\* Every job that was queued is done or failed in the end, through retries, lost
\* answers and crashes of both processes.
EveryJobEnds == \A j \in Job : job[j].status = "queued" ~> Ended(j)

\* worker/rollback.py: "Re-promote a previous stable version to Production via
\* the promotion gate".  A rollback to a version that was in Production brings it
\* back, unless something fails or the version there has a higher tag.
RollbackRestores ==
    \A j \in Job :
        (/\ job[j].status = "queued"
         /\ job[j].key.kind = "rollback"
         /\ job[j].target \in Promoted \cap In("Archived"))
            ~> \/ job[j].target \in In("Production")
               \/ job[j].target \in {v \in Numbers : versions[v].tag < ProductionTag}
               \/ Disturbed \/ expiries > 0
=============================================================================
