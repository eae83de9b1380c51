------------------------------ MODULE WorkerProofs ------------------------------
(* Proofs about Worker: the types, what is in Production and how good it is,  *)
(* what a restart serves, and the dead-letter list.                           *)
EXTENDS Worker, TLAPS

-----------------------------------------------------------------------------
\* What each step of the system is to the queue.
QueueStep ==
    \/ \E j \in Job, k \in Key : \E target \in Targets(k.kind) : EnqueueJob(j, k, target)
    \/ \E j \in Job : \/ PickUp(j) \/ GiveUpJob(j) \/ ClaimExpires(j)
                      \/ run[j].pc = "failed" /\ RetryJob(j)
                      \/ run[j].pc = "failed" /\ PushToDlq(j)
                      \/ run[j].pc # "idle" /\ (FinishJob(j) \/ (FailJob(j) /\ Fault))
    \/ \E k \in Key : KeyExpires(k)
    \/ AbandonJobs /\ Crashed

\* What it is to the registry and the service.
RegistryStep ==
    \/ \E c \in Client, a \in Auc : run[c].pc = "train" /\ LogModel(c, a)
    \/ \E c \in Client : run[c].pc = "stage" /\ run'[c].pc = "tag" /\ StageLatest(c)
    \/ \E c \in Client : TakeStaging(c)
    \/ \E c \in Client : run[c].pc = "tag" /\ TagVersion(run[c].version, run[c].auc)
    \/ \E j \in Job : run[j].pc = "post" /\ Receive(RequestOf(j))
    \/ \E req \in inbox : Refuse(req) \/ PassGates(req)
    \/ ArchivePrevious \/ Promote \/ PromoteFails \/ RestartService

\* What a step of a worker, of a training or of the service leaves alone.
LEMMA WorkerFrame ==
    ASSUME NEW j \in Job, WorkerStep(j)
    PROVE  /\ QueueStep \/ UNCHANGED queueVars
           /\ \/ TakeStaging(j) \/ UNCHANGED registryVars
              \/ run[j].pc = "post" /\ Receive(RequestOf(j))
<1>. USE DEF QueueStep
<1>1. CASE Start(j) \/ Drop(j) \/ Finish(j)
  BY <1>1 DEF Start, Drop, Finish
<1>2. CASE Retry(j) \/ DeadLetter(j)
  BY <1>2 DEF Retry, DeadLetter
<1>3. CASE DeadLetterFails(j) \/ JobTimeout(j)
  BY <1>3 DEF DeadLetterFails, JobTimeout, Waiting
<1>4. CASE ReplayLoad(j) \/ ReplayLog(j) \/ HttpTimeout(j)
  BY <1>4 DEF ReplayLoad, ReplayLog, HttpTimeout, Local
<1>5. CASE Compare(j) \/ Post(j)
  BY <1>5 DEF Compare, Post, Registry
<1>. QED  BY <1>1, <1>2, <1>3, <1>4, <1>5 DEF WorkerStep

LEMMA TrainingFrame ==
    ASSUME run \in [Client -> Run], NEW c \in Client, TrainingStep(c)
    PROVE  /\ UNCHANGED queueVars
           /\ \/ \E a \in Auc : run[c].pc = "train" /\ LogModel(c, a)
              \/ run[c].pc = "stage" /\ run'[c].pc = "tag" /\ StageLatest(c)
              \/ run[c].pc = "tag" /\ TagVersion(run[c].version, run[c].auc)
              \/ UNCHANGED registryVars
<1>. USE DEF Registry, Local, Run
<1>1. CASE TrainFails(c) \/ \E a \in Auc : Train(c, a)
  BY <1>1 DEF TrainFails, Train
<1>2. CASE StageNewest(c) \/ Tag(c)
  BY <1>2 DEF StageNewest, Tag
<1>. QED  BY <1>1, <1>2 DEF TrainingStep

LEMMA ServiceFrame ==
    ASSUME ServiceStep
    PROVE  UNCHANGED queueVars /\ RegistryStep
BY DEF ServiceStep, Refused, Passed, Archived, PromotedAndAnswered, TransitionFails,
       Registry, RegistryStep

LEMMA Frames ==
    ASSUME run \in [Client -> Run], Next
    PROVE  /\ QueueStep \/ UNCHANGED queueVars
           /\ RegistryStep \/ UNCHANGED registryVars
<1>1. CASE \E j \in Job, k \in Key :
              \E target \in Targets(k.kind) : Dispatch(j, k, target)
  BY <1>1 DEF Dispatch, QueueStep
<1>2. CASE \E j \in Job : WorkerStep(j)
  BY <1>2, WorkerFrame, ClientsAreJobs DEF RegistryStep
<1>3. CASE \E j \in Job : Reclaim(j)
  BY <1>3 DEF Reclaim, QueueStep
<1>4. CASE \E c \in Client : TrainingStep(c)
  BY <1>4, TrainingFrame DEF RegistryStep
<1>5. CASE MakeTrain
  BY <1>5 DEF MakeTrain, Local
<1>6. CASE \E k \in Key : DayPasses(k)
  BY <1>6 DEF DayPasses, QueueStep
<1>7. CASE WorkerCrash
  BY <1>7 DEF WorkerCrash, QueueStep
<1>8. CASE ServiceRestart
  BY <1>8 DEF ServiceRestart, Registry, RegistryStep
<1>. QED
  BY <1>1, <1>2, <1>3, <1>4, <1>5, <1>6, <1>7, <1>8, ServiceFrame DEF Next

-----------------------------------------------------------------------------
(* Types.                                                                  *)

\* A client that runs is a job that arq has picked up.
RunningOK == \A j \in Job : run[j].pc # "idle" => job[j].status = "running"

LEMMA LeaveTypes ==
    ASSUME QueueTypeOK, NEW j \in Job, job[j].status # "absent",
           NEW status \in JobStatus, Leave(j, status), UNCHANGED <<keys, dlq, expiries>>
    PROVE  QueueTypeOK'
<1>1. job' \in [Job -> JobRow]
  BY DEF QueueTypeOK, Leave, JobRow
<1>2. \A i \in Job : job'[i].status # "absent" => job'[i].key \in Key
  BY DEF QueueTypeOK, Leave, JobRow
<1>. QED  BY <1>1, <1>2 DEF QueueTypeOK

LEMMA QueueTypes ==
    ASSUME QueueTypeOK, RunningOK, QueueStep \/ UNCHANGED queueVars
    PROVE  QueueTypeOK'
<1>. USE JobIdsAreFresh, KeysAreDispatches, TriesAreNat DEF QueueTypeOK
<1>1. CASE \E j \in Job, k \in Key :
              \E target \in Targets(k.kind) : EnqueueJob(j, k, target)
  <2>. PICK j \in Job, k \in Key, target \in Nat : EnqueueJob(j, k, target)
    BY <1>1 DEF Targets, Numbers
  <2>1. job' \in [Job -> JobRow]
    BY DEF EnqueueJob, JobRow, JobStatus
  <2>2. \A i \in Job : job'[i].status # "absent" => job'[i].key \in Key
    BY DEF EnqueueJob
  <2>. QED  BY <2>1, <2>2 DEF EnqueueJob
<1>2. CASE \E j \in Job : PickUp(j)
  <2>. PICK j \in Job : PickUp(j)
    BY <1>2
  <2>1. job[j].tries + 1 \in 0 .. MaxTries
    BY DEF PickUp, HasTry, JobRow
  <2>. QED  BY <2>1 DEF PickUp, JobRow, JobStatus
<1>3. CASE \E j \in Job : GiveUpJob(j) \/ ClaimExpires(j)
  BY <1>3, LeaveTypes DEF GiveUpJob, ClaimExpires, Reclaimable, Leave, JobStatus
<1>4. CASE \E j \in Job : run[j].pc = "failed" /\ RetryJob(j)
  BY <1>4, LeaveTypes DEF RetryJob, RunningOK, JobStatus
<1>5. CASE \E j \in Job : PushToDlq(j)
  BY <1>5 DEF PushToDlq
<1>6. CASE \E j \in Job : run[j].pc # "idle" /\ (FinishJob(j) \/ FailJob(j))
  BY <1>6, LeaveTypes DEF FinishJob, FailJob, RunningOK, JobStatus
<1>7. CASE \E k \in Key : KeyExpires(k)
  BY <1>7 DEF KeyExpires
<1>8. CASE AbandonJobs
  BY <1>8 DEF AbandonJobs, TriesKept, JobRow, JobStatus
<1>9. CASE UNCHANGED queueVars
  BY <1>9 DEF queueVars
<1>. QED
  BY <1>1, <1>2, <1>3, <1>4, <1>5, <1>6, <1>7, <1>8, <1>9 DEF QueueStep

-----------------------------------------------------------------------------
(* The registry.                                                           *)

\* At most one version is in Staging as well, so that the latest of a stage is
\* its only one; and what is in Production gives way before another comes.
StagesOK ==
    /\ OneProduction
    /\ \A v, w \in In("Staging") : v = w
    /\ promo.step = "promote" => In("Production") = {}
    /\ promo.step = "archive" => In("Production") \subseteq {promo.prev}

LEMMA LatestIsTheOne ==
    ASSUME versions \in Seq(Version), NEW stage,
           \A v, w \in In(stage) : v = w
    PROVE  /\ Latest(stage) \in 0 .. Len(versions)
           /\ In(stage) # {} => Latest(stage) \in In(stage)
           /\ In(stage) \subseteq {Latest(stage)}
<1>1. CASE In(stage) = {}
  BY <1>1 DEF Latest
<1>2. CASE In(stage) # {}
  <2>1. PICK v : In(stage) = {v}
    BY <1>2
  <2>2. v \in 1 .. Len(versions)
    BY <2>1 DEF In, Numbers
  <2>3. Max({v}) = v
    BY <2>2 DEF Max
  <2>. QED  BY <2>1, <2>2, <2>3 DEF Latest
<1>. QED  BY <1>1, <1>2

\* Adding a version at the end, and changing one in place.
LEMMA AppendedVersion ==
    ASSUME versions \in Seq(Version), NEW new \in Version,
           versions' = Append(versions, new)
    PROVE  /\ versions' \in Seq(Version)
           /\ Numbers' = Numbers \cup {Len(versions) + 1}
           /\ Len(versions)' = Len(versions) + 1
           /\ versions'[Len(versions) + 1] = new
           /\ \A v \in Numbers : versions'[v] = versions[v]
<1>1. Len(versions) \in Nat /\ Len(versions)' = Len(versions) + 1
  OBVIOUS
<1>2. Numbers' = Numbers \cup {Len(versions) + 1}
  BY <1>1 DEF Numbers
<1>. QED  BY <1>1, <1>2 DEF Numbers

LEMMA MappedVersions ==
    ASSUME versions \in Seq(Version), versions' \in [Numbers -> Version]
    PROVE  versions' \in Seq(Version) /\ Numbers' = Numbers /\ Len(versions') = Len(versions)
<1>1. Len(versions) \in Nat
  OBVIOUS
<1>2. versions' \in Seq(Version) /\ Len(versions') = Len(versions)
  BY <1>1 DEF Numbers
<1>. QED  BY <1>2 DEF Numbers

\* register_model and the promote handler change versions in place.
LEMMA ChangedInPlace ==
    ASSUME RegistryTypeOK, run \in [Client -> Run], RegistryStep,
           ~(\E c \in Client, a \in Auc : run[c].pc = "train" /\ LogModel(c, a))
    PROVE  /\ versions' \in [Numbers -> Version]
           /\ versions' \in Seq(Version) /\ Numbers' = Numbers
           /\ Len(versions') = Len(versions)
<1>1. versions \in Seq(Version) /\ versions \in [Numbers -> Version]
  BY DEF RegistryTypeOK, Numbers
<1>2. CASE UNCHANGED versions
  BY <1>1, <1>2 DEF Numbers
<1>3. CASE \E c \in Client : StageLatest(c)
  <2>1. \A v \in Numbers : /\ [versions[v] EXCEPT !.stage = "Staging"] \in Version
                           /\ [versions[v] EXCEPT !.stage = "Archived"] \in Version
                           /\ versions[v] \in Version
    BY <1>1 DEF Version, Stage
  <2>2. versions' \in [Numbers -> Version]
    BY <1>3, <2>1 DEF StageLatest
  <2>. QED  BY <1>1, <2>2, MappedVersions
<1>4. CASE \E c \in Client : TagVersion(run[c].version, run[c].auc)
  <2>. PICK c \in Client : TagVersion(run[c].version, run[c].auc)
    BY <1>4
  <2>. DEFINE n == run[c].version
              a == run[c].auc
  <2>1. versions' = [versions EXCEPT ![n] = [versions[n] EXCEPT !.tag = a]]
    BY DEF TagVersion
  <2>2. a \in Auc \cup {0}
    BY DEF Run
  <2>3. \A v \in Numbers : [versions[v] EXCEPT !.tag = a] \in Version
    BY <1>1, <2>2 DEF Version
  <2>4. versions' \in [Numbers -> Version]
    BY <1>1, <2>1, <2>3
  <2>. QED  BY <1>1, <2>4, MappedVersions
<1>5. CASE ArchivePrevious
  <2>1. versions' \in [Numbers -> Version]
    BY <1>1, <1>5 DEF ArchivePrevious, Retired, Version, Stage
  <2>. QED  BY <1>1, <2>1, MappedVersions
<1>6. CASE Promote
  <2>. DEFINE n == promo.req.target
              c == promo.req.client
              promoted(v) == [versions[v] EXCEPT !.stage = "Production", !.granted = c]
  <2>1. versions' = [versions EXCEPT ![n] = promoted(n)]
    BY <1>1, <1>6 DEF Promote, Version
  <2>2. c \in Client
    BY DEF RegistryTypeOK, Handler, Request
  <2>3. \A v \in Numbers : promoted(v) \in Version
    BY <1>1, <2>2 DEF Version, Stage
  <2>4. versions' \in [Numbers -> Version]
    BY <1>1, <2>1, <2>3
  <2>. QED  BY <1>1, <2>4, MappedVersions
<1>. QED
  BY <1>2, <1>3, <1>4, <1>5, <1>6
  DEF RegistryStep, TakeStaging, Receive, Refuse, PassGates, PromoteFails, RestartService

LEMMA RegistryTypes ==
    ASSUME RegistryTypeOK, job \in [Job -> JobRow], run \in [Client -> Run], StagesOK,
           RegistryStep
    PROVE  RegistryTypeOK'
<1>. USE ClientsAreJobs, AucIsPositive, ClientsAreKnown
<1>1. versions \in Seq(Version) /\ Len(versions) \in Nat
  BY DEF RegistryTypeOK
<1>2. CASE \E c \in Client, a \in Auc : LogModel(c, a)
  <2>. PICK c \in Client, a \in Auc : LogModel(c, a)
    BY <1>2
  <2>. DEFINE new == [stage |-> "None", auc |-> a, tag |-> 0, by |-> c, granted |-> NoClient]
  <2>1. new \in Version
    BY DEF Version, Stage
  <2>2. versions' \in Seq(Version) /\ Len(versions)' = Len(versions) + 1
    BY <1>1, <2>1, AppendedVersion DEF LogModel
  <2>. QED  BY <1>1, <2>2 DEF LogModel, RegistryTypeOK
<1>3. ASSUME ~(\E c \in Client, a \in Auc : LogModel(c, a))
      PROVE  RegistryTypeOK'
  <2>1. versions' \in Seq(Version) /\ Len(versions') = Len(versions)
    BY <1>3, ChangedInPlace
  <2>2. Latest("Production") \in 0 .. Len(versions) /\ Latest("Staging") \in 0 .. Len(versions)
    BY <1>1, LatestIsTheOne DEF StagesOK, OneProduction
  <2>3. mixed' \in BOOLEAN /\ torn' \in BOOLEAN
    BY <1>3 DEF RegistryTypeOK, RegistryStep, StageLatest, TakeStaging, TagVersion, Receive,
                Refuse, PassGates, ArchivePrevious, Promote, PromoteFails,
                RestartService, Torn
  <2>4. inbox' \subseteq Request
    <3>1. \A j \in Job : RequestOf(j) \in Request
      BY DEF RequestOf, Request, Run, JobRow
    <3>2. \/ inbox' \subseteq inbox
          \/ \E j \in Job : inbox' = inbox \cup {RequestOf(j)}
      BY <1>3
      DEF RegistryStep, StageLatest, TakeStaging, TagVersion, Receive,
          Refuse, PassGates, ArchivePrevious, Promote, PromoteFails, RestartService
    <3>. QED  BY <3>1, <3>2 DEF RegistryTypeOK
  <2>5. promo' \in Handler
    <3>1. IdleHandler \in Handler
      BY DEF IdleHandler, NoRequest, Handler, Request
    <3>2. ASSUME NEW req \in inbox, PassGates(req)
          PROVE  promo' \in Handler
      BY <1>1, <2>2, <3>2 DEF PassGates, Handler, RegistryTypeOK
    <3>3. CASE ArchivePrevious
      BY <3>3 DEF ArchivePrevious, Handler, RegistryTypeOK
    <3>. QED
      BY <1>3, <3>1, <3>2, <3>3
      DEF RegistryTypeOK, RegistryStep, StageLatest, TakeStaging, TagVersion, Receive,
          Refuse, Promote, PromoteFails, RestartService
  <2>6. served' \in 0 .. Len(versions')
    BY <1>3, <2>1, <2>2
    DEF RegistryTypeOK, RegistryStep, StageLatest, TakeStaging, TagVersion, Receive,
        Refuse, PassGates, ArchivePrevious, Promote, PromoteFails, RestartService,
        VersionToLoad
  <2>. QED  BY <2>1, <2>3, <2>4, <2>5, <2>6 DEF RegistryTypeOK
<1>. QED  BY <1>2, <1>3

\* What a step does to the two stages in use.
LEMMA StagesStep ==
    ASSUME RegistryTypeOK, run \in [Client -> Run], StagesOK,
           RegistryStep \/ UNCHANGED registryVars
    PROVE  StagesOK'
<1>0. versions \in Seq(Version) /\ Len(versions) \in Nat
  BY DEF RegistryTypeOK
<1>1. CASE \E c \in Client, a \in Auc : LogModel(c, a)
  <2>. PICK c \in Client, a \in Auc : LogModel(c, a)
    BY <1>1
  <2>. DEFINE new == [stage |-> "None", auc |-> a, tag |-> 0, by |-> c, granted |-> NoClient]
  <2>1. new \in Version
    BY ClientsAreJobs, ClientsAreKnown DEF Version, Stage
  <2>2. versions' = Append(versions, new)
    BY DEF LogModel
  <2>3. /\ Numbers' = Numbers \cup {Len(versions) + 1}
        /\ versions'[Len(versions) + 1] = new
        /\ \A v \in Numbers : versions'[v] = versions[v]
    BY <1>0, <2>1, <2>2, AppendedVersion
  <2>4. /\ In("Staging")' = In("Staging") /\ In("Production")' = In("Production")
    BY <2>3 DEF In
  <2>. QED  BY <2>4 DEF StagesOK, OneProduction, LogModel
<1>2. ASSUME RegistryStep, ~(\E c \in Client, a \in Auc : LogModel(c, a))
      PROVE  StagesOK'
  <2>0. Numbers' = Numbers /\ versions \in [Numbers -> Version]
    BY <1>2, ChangedInPlace DEF RegistryTypeOK, Numbers
  <2>1. CASE \E c \in Client : StageLatest(c)
    <3>1. /\ In("Staging")' \subseteq {Len(versions)}
          /\ In("Production")' \subseteq In("Production")
      BY <2>0, <2>1 DEF StageLatest, ArchivedByStaging, In, Version
    <3>. QED  BY <2>1, <3>1 DEF StagesOK, OneProduction, StageLatest
  <2>2. CASE \E c \in Client : TagVersion(run[c].version, run[c].auc)
    <3>1. \A v \in Numbers : versions'[v].stage = versions[v].stage
      BY <2>0, <2>2 DEF TagVersion, Version
    <3>2. In("Staging")' = In("Staging") /\ In("Production")' = In("Production")
      BY <2>0, <3>1 DEF In
    <3>. QED  BY <2>2, <3>2 DEF StagesOK, OneProduction, TagVersion
  <2>3. CASE ArchivePrevious
    <3>1. /\ In("Staging")' \subseteq In("Staging")
          /\ In("Production")' \subseteq In("Production") \ {promo.prev}
      BY <2>0, <2>3 DEF ArchivePrevious, Retired, In, Version
    <3>2. In("Production")' = {} /\ promo'.step = "promote"
      BY <2>3, <3>1 DEF ArchivePrevious, StagesOK, RegistryTypeOK, Handler
    <3>. QED  BY <3>1, <3>2 DEF StagesOK, OneProduction
  <2>4. CASE Promote
    <3>1. /\ In("Staging")' \subseteq In("Staging")
          /\ In("Production")' \subseteq In("Production") \cup {promo.req.target}
      BY <2>0, <2>4 DEF Promote, In, Version
    <3>2. In("Production") = {} /\ promo'.step = "idle"
      BY <2>4 DEF Promote, StagesOK, IdleHandler
    <3>. QED  BY <3>1, <3>2 DEF StagesOK, OneProduction
  <2>5. ASSUME NEW req \in inbox, PassGates(req)
        PROVE  StagesOK'
    <3>1. In("Staging")' = In("Staging") /\ In("Production")' = In("Production")
      BY <2>0, <2>5 DEF PassGates, In
    <3>2. In("Production") \subseteq {Latest("Production")}
      BY <1>0, LatestIsTheOne DEF StagesOK, OneProduction
    <3>. QED  BY <2>5, <3>1, <3>2 DEF PassGates, StagesOK, OneProduction
  <2>6. CASE versions' = versions /\ (promo' = promo \/ promo' = IdleHandler)
    <3>1. In("Staging")' = In("Staging") /\ In("Production")' = In("Production")
      BY <2>0, <2>6 DEF In
    <3>. QED  BY <2>6, <3>1 DEF StagesOK, OneProduction, IdleHandler
  <2>. QED
    BY <1>2, <2>1, <2>2, <2>3, <2>4, <2>5, <2>6
    DEF RegistryStep, TakeStaging, Receive, Refuse, PromoteFails, RestartService
<1>3. CASE UNCHANGED registryVars
  BY <1>3 DEF registryVars, StagesOK, OneProduction, In, Numbers
<1>. QED  BY <1>1, <1>2, <1>3

-----------------------------------------------------------------------------
(* The clients.                                                            *)

\* The run of a job goes on: it neither starts nor ends, and a job that is about
\* to return does nothing else.
GoesOn(j) == /\ run'[j].pc = "idle" <=> run[j].pc = "idle"
             /\ run[j].pc \in {"idle", "return"} => run'[j] = run[j]

LEMMA AnsweredGoesOn ==
    ASSUME TypeOK, NEW req, NEW pc \in Ending, Answered(req, pc)
    PROVE  run' \in [Client -> Run] /\ \A j \in Job : GoesOn(j)
BY ClientsAreJobs, ZenonT(60) DEF TypeOK, Answered, GoesOn, Run, Ending

LEMMA GotoGoesOn ==
    ASSUME TypeOK, NEW c \in Client, NEW pc, Goto(c, pc),
           pc \in Blocking \cup Waiting \cup Ending \/ (c = Cli /\ pc = "idle"),
           run[c].pc \notin {"idle", "return"} \/ c = Cli
    PROVE  run' \in [Client -> Run] /\ \A j \in Job : GoesOn(j)
BY ClientsAreJobs DEF TypeOK, Goto, GoesOn, Run, Blocking, Waiting, Ending

\* A step either hands a job over between the queue and the worker, or changes
\* only the queue, or only goes on with clients.
LEMMA RunFrame ==
    ASSUME TypeOK, StagesOK, Next
    PROVE  /\ run' \in [Client -> Run]
           /\ \/ \E j \in Job : \/ Start(j) \/ Retry(j) \/ DeadLetter(j)
                                \/ DeadLetterFails(j) \/ Finish(j) \/ JobTimeout(j)
              \/ WorkerCrash
              \/ UNCHANGED run
              \/ UNCHANGED queueVars /\ \A j \in Job : GoesOn(j)
<1>. USE ClientsAreJobs DEF Registry, Local
<1>0. IdleRun \in Run /\ run \in [Client -> Run] /\ Len(versions) \in Nat
  BY DEF IdleRun, Run, TypeOK, RegistryTypeOK
<1>1. CASE \/ \E j \in Job, k \in Key : \E target \in Targets(k.kind) : Dispatch(j, k, target)
           \/ \E j \in Job : Drop(j) \/ Reclaim(j)
           \/ \E k \in Key : DayPasses(k)
  BY <1>0, <1>1 DEF Dispatch, Drop, Reclaim, DayPasses
<1>2. CASE \E j \in Job : Start(j)
  <2>. PICK j \in Job : Start(j)
    BY <1>2
  <2>1. FirstStep(job[j].key.kind) \in Blocking \cup Waiting
    BY KeysAreDispatches
    DEF Start, PickUp, TypeOK, QueueTypeOK, Kind, FirstStep, Blocking, Waiting
  <2>2. job[j].target \in Nat
    BY DEF TypeOK, QueueTypeOK, JobRow
  <2>. QED  BY <1>0, <2>1, <2>2 DEF Start, Run
<1>3. CASE \E j \in Job : Retry(j) \/ DeadLetterFails(j) \/ Finish(j) \/ JobTimeout(j)
  BY <1>0, <1>3 DEF Retry, DeadLetterFails, Finish, JobTimeout
<1>4. CASE \E j \in Job : DeadLetter(j)
  BY <1>4, GotoGoesOn DEF DeadLetter, Ending
<1>5. CASE WorkerCrash
  BY <1>0, <1>5 DEF WorkerCrash
<1>6. CASE \E j \in Job : ReplayLoad(j) \/ ReplayLog(j) \/ Post(j) \/ HttpTimeout(j)
  <2>. PICK j \in Job : ReplayLoad(j) \/ ReplayLog(j) \/ Post(j) \/ HttpTimeout(j)
    BY <1>6
  <2>1. UNCHANGED queueVars /\ run[j].pc \notin {"idle", "return"}
    BY DEF ReplayLoad, ReplayLog, Post, HttpTimeout, Waiting
  <2>2. \E pc \in Blocking \cup Waiting \cup Ending : Goto(j, pc)
    BY DEF ReplayLoad, ReplayLog, Post, HttpTimeout, Raise, Blocking, Waiting, Ending
  <2>. QED  BY <2>1, <2>2, GotoGoesOn
<1>7. CASE \E j \in Job : Compare(j)
  <2>. PICK j \in Job : Compare(j)
    BY <1>7
  <2>1. Latest("Staging") \in Nat
    BY LatestIsTheOne DEF StagesOK, TypeOK, RegistryTypeOK
  <2>. QED
    BY <1>0, <2>1 DEF Compare, GoesOn, Run, Raise, Goto, Blocking, Waiting, Ending
<1>8. CASE \E c \in Client : TrainFails(c) \/ Tag(c)
  <2>. PICK c \in Client : TrainFails(c) \/ Tag(c)
    BY <1>8
  <2>1. UNCHANGED queueVars /\ run[c].pc \notin {"idle", "return"}
    BY DEF TrainFails, Tag
  <2>2. \E pc \in Blocking \cup Waiting \cup Ending \cup {"idle"} :
           Goto(c, pc) /\ (pc = "idle" => c = Cli)
    BY DEF TrainFails, Tag, Raise, Blocking, Waiting, Ending
  <2>. QED  BY <2>1, <2>2, GotoGoesOn
<1>9. CASE \E c \in Client : StageNewest(c) \/ \E a \in Auc : Train(c, a)
  BY <1>0, <1>9
  DEF StageNewest, Train, GoesOn, Run, Raise, Goto, Blocking, Waiting, Ending
<1>10. CASE MakeTrain
  BY <1>0, <1>10 DEF MakeTrain, GoesOn, IdleRun, Run, Blocking
<1>11. CASE ServiceStep
  <2>1. UNCHANGED queueVars
    BY <1>11, ServiceFrame
  <2>2. NotSuccess \in Ending /\ Success \in Ending
    BY DEF NotSuccess, Success, Ending
  <2>3. CASE \E req \in inbox : Refused(req)
    BY <2>1, <2>2, <2>3, AnsweredGoesOn DEF Refused
  <2>4. CASE PromotedAndAnswered \/ TransitionFails
    BY <2>1, <2>2, <2>4, AnsweredGoesOn DEF PromotedAndAnswered, TransitionFails
  <2>5. CASE Archived \/ \E req \in inbox : Passed(req)
    BY <1>0, <2>5 DEF Archived, Passed
  <2>. QED  BY <1>11, <2>3, <2>4, <2>5 DEF ServiceStep
<1>12. CASE ServiceRestart
  BY <1>0, <1>12 DEF ServiceRestart, GoesOn, Run, Ending
<1>. QED
  BY <1>1, <1>2, <1>3, <1>4, <1>5, <1>6, <1>7, <1>8, <1>9, <1>10, <1>11, <1>12
  DEF Next, WorkerStep, TrainingStep

-----------------------------------------------------------------------------
(* The dead-letter list.                                                   *)

\* A dead-lettered job has used its tries, and its run is over but for the
\* return.
JobsOK ==
    /\ RunningOK
    /\ \A j \in Job : job[j].status = "absent" => job[j].tries = 0
    /\ \A n \in 1 .. Len(dlq) : run[dlq[n]].pc \in {"idle", "return"}
    /\ DeadLetteredOnce

LEMMA JobsOKStep ==
    ASSUME TypeOK, StagesOK, JobsOK, Next
    PROVE  JobsOK'
<1>. USE TriesAreNat
<1>0. /\ dlq \in Seq(Job) /\ job \in [Job -> JobRow] /\ run \in [Client -> Run]
      /\ \A n \in 1 .. Len(dlq) : dlq[n] \in Job
      /\ Job \subseteq Client
  BY ClientsAreJobs DEF TypeOK, QueueTypeOK
<1>1. CASE \E j \in Job : Start(j)
  <2>. PICK j \in Job : Start(j)
    BY <1>1
  <2>1. job[j].tries < MaxTries /\ \A n \in 1 .. Len(dlq) : dlq[n] # j
    BY <1>0 DEF Start, PickUp, HasTry, JobsOK, DeadLetteredOnce
  <2>. QED  BY <1>0, <2>1 DEF Start, PickUp, JobsOK, RunningOK, DeadLetteredOnce, JobRow
<1>2. CASE \E j \in Job : Retry(j) \/ DeadLetterFails(j) \/ Finish(j) \/ JobTimeout(j)
  <2>. PICK j \in Job : Retry(j) \/ DeadLetterFails(j) \/ Finish(j) \/ JobTimeout(j)
    BY <1>2
  <2>1. /\ \E status \in {"queued", "lost", "done"} : Leave(j, status)
        /\ dlq' = dlq /\ run' = [run EXCEPT ![j] = IdleRun]
    BY DEF Retry, DeadLetterFails, Finish, JobTimeout, RetryJob, FailJob, FinishJob
  <2>. QED
    BY <1>0, <2>1 DEF Leave, JobsOK, RunningOK, DeadLetteredOnce, IdleRun, JobRow
<1>3. CASE \E j \in Job : DeadLetter(j)
  <2>. PICK j \in Job : DeadLetter(j)
    BY <1>3
  <2>1. job[j].tries = MaxTries
    BY <1>0 DEF DeadLetter, PushToDlq, LastTry, JobRow
  <2>2. \A n \in 1 .. Len(dlq) : dlq[n] # j
    BY DEF DeadLetter, JobsOK
  <2>3. dlq' = Append(dlq, j) /\ job' = job /\ run' = [run EXCEPT ![j].pc = "return"]
    BY DEF DeadLetter, PushToDlq, Goto
  <2>4. /\ Len(dlq') = Len(dlq) + 1 /\ dlq'[Len(dlq) + 1] = j
        /\ \A n \in 1 .. Len(dlq) : dlq'[n] = dlq[n]
    BY <1>0, <2>3
  <2>5. \A i \in Job : run'[i].pc = IF i = j THEN "return" ELSE run[i].pc
    BY <1>0, <2>3
  <2>6. RunningOK' /\ \A i \in Job : job'[i].status = "absent" => job'[i].tries = 0
    BY <2>3, <2>5 DEF JobsOK, RunningOK, DeadLetter
  <2>7. \A n \in 1 .. Len(dlq') : run'[dlq'[n]].pc \in {"idle", "return"}
    BY <1>0, <2>4, <2>5 DEF JobsOK
  <2>8. DeadLetteredOnce'
    BY <1>0, <2>1, <2>2, <2>3, <2>4 DEF JobsOK, DeadLetteredOnce
  <2>. QED  BY <2>6, <2>7, <2>8 DEF JobsOK
<1>4. CASE WorkerCrash
  <2>1. \A j \in Job : /\ run'[j] = IdleRun
                       /\ job'[j].tries = job[j].tries
                       /\ job'[j].status = "absent" => job[j].status = "absent"
    BY <1>0, <1>4, ClientsAreJobs DEF WorkerCrash, AbandonJobs, TriesKept, JobRow
  <2>2. dlq' = dlq
    BY <1>4 DEF WorkerCrash, AbandonJobs
  <2>. QED  BY <1>0, <2>1, <2>2 DEF JobsOK, RunningOK, DeadLetteredOnce, IdleRun
<1>5. CASE UNCHANGED run /\ ~WorkerCrash
  <2>1. CASE UNCHANGED queueVars
    BY <1>5, <2>1 DEF queueVars, JobsOK, RunningOK, DeadLetteredOnce
  <2>2. CASE \E j \in Job, k \in Key :
                \E target \in Targets(k.kind) : Dispatch(j, k, target)
    <3>. PICK j \in Job, k \in Key, target \in Nat : EnqueueJob(j, k, target)
      BY <2>2 DEF Dispatch, Targets, Numbers
    <3>1. \A n \in 1 .. Len(dlq) : dlq[n] # j
      BY DEF EnqueueJob, JobsOK, DeadLetteredOnce
    <3>. QED
      BY <1>0, <1>5, <3>1 DEF EnqueueJob, JobsOK, RunningOK, DeadLetteredOnce, JobRow
  <2>3. CASE \E j \in Job : Drop(j) \/ Reclaim(j)
    <3>. PICK j \in Job, status \in {"lost", "queued"} :
            Leave(j, status) /\ dlq' = dlq /\ job[j].status # "running"
      BY <2>3 DEF Drop, GiveUpJob, Reclaim, ClaimExpires, Reclaimable, Leave
    <3>. QED
      BY <1>0, <1>5 DEF Leave, JobsOK, RunningOK, DeadLetteredOnce, JobRow
  <2>4. CASE \E k \in Key : DayPasses(k)
    BY <1>5, <2>4 DEF DayPasses, KeyExpires, JobsOK, RunningOK, DeadLetteredOnce
  <2>5. \/ UNCHANGED queueVars
        \/ \E j \in Job, k \in Key : \E target \in Targets(k.kind) : Dispatch(j, k, target)
        \/ \E j \in Job : Drop(j) \/ Reclaim(j)
        \/ \E j \in Job : \/ Start(j) \/ Retry(j) \/ DeadLetter(j)
                          \/ DeadLetterFails(j) \/ Finish(j) \/ JobTimeout(j)
        \/ \E k \in Key : DayPasses(k)
    BY <1>0, <1>5, TrainingFrame, ServiceFrame
    DEF Next, WorkerStep, ReplayLoad, ReplayLog, Compare, Post, HttpTimeout, MakeTrain,
        ServiceRestart, Registry, Local
  <2>. QED  BY <1>1, <1>2, <1>3, <2>1, <2>2, <2>3, <2>4, <2>5
<1>6. CASE UNCHANGED queueVars /\ \A j \in Job : GoesOn(j)
  BY <1>0, <1>6 DEF queueVars, GoesOn, JobsOK, RunningOK, DeadLetteredOnce
<1>. QED  BY <1>1, <1>2, <1>3, <1>4, <1>5, <1>6, RunFrame

-----------------------------------------------------------------------------
(* Versions that left Production.                                          *)

\* What jobs and requests ask to promote exists and has been staged.
Staged(v) == v \in Numbers /\ versions[v].stage # "None"

TargetsOK ==
    /\ \A j \in Job :
          job[j].status # "absent" /\ job[j].key.kind = "rollback"
              => job[j].target \in Numbers
    /\ \A j \in Job : run[j].pc \in {"post", "sent"} => run[j].version \in Numbers
    /\ \A req \in inbox : req.target \in Numbers
    /\ promo.step # "idle" => Staged(promo.req.target)
    /\ promo.step = "archive" => Staged(promo.prev)

\* The last version a trainer logged has not been touched by another.
Untouched(c) ==
    \E v \in Numbers : /\ versions[v].by = c
                       /\ versions[v].stage = "None"
                       /\ \A w \in Numbers : w > v => versions[w].by # c

\* As long as no trainer takes another's version for its own, what was promoted is
\* not in Staging any more, and nothing is promoted a second time.
ForwardOK ==
    ~mixed =>
        /\ \A v \in Promoted : versions[v].stage \notin {"None", "Staging"}
        /\ promo.step # "idle" => promo.req.target \notin Promoted
        /\ \A c \in Client : run[c].pc = "stage" => Untouched(c)

\* Versions are only added, and none is unstaged.
LEMMA VersionsGrow ==
    ASSUME RegistryTypeOK, run \in [Client -> Run], RegistryStep \/ UNCHANGED registryVars
    PROVE  /\ Numbers \subseteq Numbers'
           /\ \A v \in Numbers : Staged(v) => Staged(v)'
           /\ \A v \in Numbers : versions'[v].by = versions[v].by
<1>0. versions \in Seq(Version) /\ Len(versions) \in Nat
  BY DEF RegistryTypeOK
<1>1. CASE \E c \in Client, a \in Auc : LogModel(c, a)
  <2>. PICK c \in Client, a \in Auc : LogModel(c, a)
    BY <1>1
  <2>. DEFINE new == [stage |-> "None", auc |-> a, tag |-> 0, by |-> c, granted |-> NoClient]
  <2>1. new \in Version
    BY ClientsAreJobs, ClientsAreKnown DEF Version, Stage
  <2>. QED  BY <1>0, <2>1, AppendedVersion DEF LogModel, Staged
<1>2. ASSUME RegistryStep, ~(\E c \in Client, a \in Auc : LogModel(c, a))
      PROVE  /\ Numbers' = Numbers
             /\ \A v \in Numbers : /\ versions'[v].by = versions[v].by
                                   /\ versions[v].stage # "None" =>
                                         versions'[v].stage # "None"
  <2>0. Numbers' = Numbers /\ versions \in [Numbers -> Version]
    BY <1>2, ChangedInPlace DEF RegistryTypeOK, Numbers
  <2>1. CASE \E c \in Client : StageLatest(c)
    BY <2>0, <2>1 DEF StageLatest, Version
  <2>2. CASE \E c \in Client : TagVersion(run[c].version, run[c].auc)
    BY <2>0, <2>2 DEF TagVersion, Version
  <2>3. CASE ArchivePrevious \/ Promote
    BY <2>0, <2>3 DEF ArchivePrevious, Retired, Promote, Version
  <2>4. CASE versions' = versions
    BY <2>0, <2>4
  <2>. QED
    BY <1>2, <2>0, <2>1, <2>2, <2>3, <2>4
    DEF RegistryStep, TakeStaging, Receive, Refuse, PassGates, PromoteFails, RestartService
<1>3. CASE UNCHANGED registryVars
  BY <1>3 DEF registryVars, Numbers, Staged
<1>. QED  BY <1>1, <1>2, <1>3 DEF Staged

\* Where a promotion request and a registration come from.
LEMMA PostingFrame ==
    ASSUME TypeOK, StagesOK, Next, NEW j \in Job, run'[j].pc \in {"post", "sent"}
    PROVE  \/ run[j].pc \in {"post", "sent"} /\ run'[j].version = run[j].version
           \/ /\ run'[j].version = job[j].target
              /\ job[j].status # "absent" /\ job[j].key.kind = "rollback"
           \/ run'[j].version \in In("Staging")
<1>0. run \in [Client -> Run] /\ j \in Client /\ Job \subseteq Client /\ Cli \notin Job
  BY ClientsAreJobs DEF TypeOK
<1>1. CASE run'[j] = run[j]
  BY <1>1
<1>2. CASE \E i \in Job : Start(i)
  <2>. PICK i \in Job : Start(i)
    BY <1>2
  <2>1. CASE i = j
    <3>1. run'[j].pc = FirstStep(job[j].key.kind) /\ run'[j].version = job[j].target
      BY <1>0, <2>1 DEF Start
    <3>2. job[j].key.kind \in Kind /\ job[j].status = "queued"
      BY <2>1, KeysAreDispatches DEF Start, PickUp, TypeOK, QueueTypeOK
    <3>. QED  BY <3>1, <3>2 DEF FirstStep, Kind
  <2>2. CASE i # j
    BY <1>0, <1>1, <2>2 DEF Start
  <2>. QED  BY <2>1, <2>2
<1>3. CASE \E i \in Job : Retry(i) \/ DeadLetterFails(i) \/ Finish(i) \/ JobTimeout(i)
  BY <1>0, <1>3 DEF Retry, DeadLetterFails, Finish, JobTimeout, IdleRun
<1>4. CASE \E i \in Job : Compare(i)
  <2>. PICK i \in Job : Compare(i)
    BY <1>4
  <2>1. In("Staging") # {} => Latest("Staging") \in In("Staging")
    BY LatestIsTheOne DEF StagesOK, TypeOK, RegistryTypeOK
  <2>. QED  BY <1>0, <2>1 DEF Compare, Raise, Goto, Run
<1>5. CASE \E i \in Job : \/ DeadLetter(i) \/ ReplayLoad(i) \/ ReplayLog(i)
                          \/ Post(i) \/ HttpTimeout(i)
  BY <1>0, <1>5, SMTT(30)
  DEF DeadLetter, ReplayLoad, ReplayLog, Post, HttpTimeout, Goto, Raise, Run
<1>6. CASE \E c \in Client : TrainingStep(c)
  BY <1>0, <1>6
  DEF TrainingStep, Train, TrainFails, StageNewest, Tag, Goto, Raise, Run
<1>7. CASE MakeTrain \/ WorkerCrash \/ ServiceRestart
  BY <1>0, <1>7, SMTT(30) DEF MakeTrain, WorkerCrash, ServiceRestart, IdleRun, Run
<1>8. CASE ServiceStep
  <2>1. run' = run \/ \E req, pc : pc \in Ending /\ Answered(req, pc)
    BY <1>8
    DEF ServiceStep, Refused, Passed, Archived, PromotedAndAnswered, TransitionFails,
        NotSuccess, Success, Ending
  <2>2. ASSUME NEW req, NEW pc \in Ending, Answered(req, pc)
        PROVE  run'[j] = run[j] \/ run'[j].pc \in Ending
    BY <1>0, <2>2 DEF Answered, Run
  <2>. QED  BY <1>1, <2>1, <2>2 DEF Ending
<1>. QED
  BY <1>1, <1>2, <1>3, <1>4, <1>5, <1>6, <1>7, <1>8
  DEF Next, WorkerStep, Dispatch, Drop, Reclaim, DayPasses

LEMMA StagingFrame ==
    ASSUME TypeOK, Next, NEW c \in Client
    PROVE  /\ run'[c].pc = "stage" =>
                 \/ run[c].pc = "stage" /\ run'[c].auc = run[c].auc
                 \/ \E a \in Auc : LogModel(c, a) /\ run'[c].auc = a
           /\ run'[c].pc = "tag" =>
                 \/ /\ run[c].pc = "tag"
                    /\ run'[c].version = run[c].version /\ run'[c].auc = run[c].auc
                 \/ /\ run[c].pc = "stage" /\ StageLatest(c)
                    /\ run'[c].version = Len(versions) /\ run'[c].auc = run[c].auc
<1>0. run \in [Client -> Run] /\ Job \subseteq Client
  BY ClientsAreJobs DEF TypeOK
<1>1. CASE \E j \in Job : \/ Start(j) \/ Retry(j) \/ DeadLetterFails(j)
                          \/ Finish(j) \/ JobTimeout(j) \/ Compare(j)
  <2>. \A kind \in Kind : FirstStep(kind) \notin {"stage", "tag"}
    BY DEF FirstStep, Kind
  <2>1. \A j \in Job : Start(j) => job[j].key.kind \in Kind
    BY KeysAreDispatches DEF Start, PickUp, TypeOK, QueueTypeOK
  <2>. QED
    BY <1>0, <1>1, <2>1
    DEF Start, Retry, DeadLetterFails, Finish, JobTimeout, Compare, IdleRun, Run,
        Goto, Raise
<1>2. CASE \E i \in Job : \/ DeadLetter(i) \/ ReplayLoad(i) \/ ReplayLog(i)
                          \/ Post(i) \/ HttpTimeout(i)
  BY <1>0, <1>2
  DEF DeadLetter, ReplayLoad, ReplayLog, Post, HttpTimeout, Goto, Raise, Run
<1>3. CASE \E d \in Client : TrainingStep(d)
  <2>. PICK d \in Client : TrainingStep(d)
    BY <1>3
  <2>1. CASE c # d
    BY <1>0, <2>1 DEF TrainingStep, Train, TrainFails, StageNewest, Tag, Goto, Raise
  <2>2. CASE c = d /\ \E a \in Auc : Train(d, a)
    BY <1>0, <2>2 DEF Train, Run
  <2>3. CASE c = d /\ StageNewest(d)
    BY <1>0, <2>3 DEF StageNewest, Goto, Raise, Run
  <2>4. CASE c = d /\ (TrainFails(d) \/ Tag(d))
    BY <1>0, <2>4 DEF TrainFails, Tag, Goto, Raise, Run
  <2>. QED  BY <2>1, <2>2, <2>3, <2>4 DEF TrainingStep
<1>4. CASE MakeTrain \/ WorkerCrash \/ ServiceRestart
  <2>1. CASE MakeTrain
    BY <1>0, <2>1 DEF MakeTrain, IdleRun
  <2>2. CASE WorkerCrash
    BY <1>0, <2>2 DEF WorkerCrash, IdleRun
  <2>3. CASE ServiceRestart
    BY <1>0, <2>3 DEF ServiceRestart
  <2>. QED  BY <1>4, <2>1, <2>2, <2>3
<1>5. CASE ServiceStep
  <2>1. run'[c] = run[c] \/ run'[c].pc \in {"failed", "return"}
    <3>1. ASSUME NEW req, NEW pc \in {"failed", "return"}, Answered(req, pc)
          PROVE  run'[c] = run[c] \/ run'[c].pc \in {"failed", "return"}
      BY <1>0, <3>1 DEF Answered, Run
    <3>2. \/ run' = run
          \/ \E req : Answered(req, "failed") \/ Answered(req, "return")
      BY <1>5 DEF ServiceStep, Refused, Passed, Archived, PromotedAndAnswered,
                  TransitionFails, NotSuccess, Success
    <3>. QED  BY <3>1, <3>2
  <2>. QED  BY <2>1
<1>. QED
  BY <1>1, <1>2, <1>3, <1>4, <1>5 DEF Next, WorkerStep, Dispatch, Drop, Reclaim, DayPasses

LEMMA TargetsStep ==
    ASSUME TypeOK, StagesOK, JobsOK, TargetsOK, Next
    PROVE  TargetsOK'
<1>0. /\ RegistryTypeOK /\ run \in [Client -> Run] /\ Job \subseteq Client
      /\ job \in [Job -> JobRow]
  BY ClientsAreJobs DEF TypeOK, QueueTypeOK
<1>1. /\ RegistryStep \/ UNCHANGED registryVars
      /\ QueueStep \/ UNCHANGED queueVars
  BY <1>0, Frames
<1>2. Numbers \subseteq Numbers' /\ \A v \in Numbers : Staged(v) => Staged(v)'
  BY <1>0, <1>1, VersionsGrow
<1>3. ASSUME NEW j \in Job, job'[j].status # "absent", job'[j].key.kind = "rollback"
      PROVE  job'[j].target \in Numbers'
  <2>1. CASE \E k \in Key : \E target \in Targets(k.kind) : EnqueueJob(j, k, target)
    <3>. PICK k \in Key : \E target \in Targets(k.kind) : EnqueueJob(j, k, target)
      BY <2>1
    <3>1. job'[j].key = k /\ job'[j].target \in Targets(k.kind)
      BY <1>0 DEF EnqueueJob
    <3>. QED  BY <1>2, <1>3, <3>1 DEF Targets
  <2>2. CASE job'[j].key = job[j].key /\ job'[j].target = job[j].target
             /\ job[j].status # "absent"
    BY <1>2, <1>3, <2>2 DEF TargetsOK
  <2>3. CASE job'[j] = job[j]
    BY <1>3, <2>2, <2>3
  <2>4. CASE \E i \in Job, k \in Key : \E target \in Targets(k.kind) : EnqueueJob(i, k, target)
    BY <1>0, <2>1, <2>3, <2>4 DEF EnqueueJob
  <2>5. CASE AbandonJobs
    <3>1. /\ job'[j].key = job[j].key /\ job'[j].target = job[j].target
          /\ job'[j].status = "absent" <=> job[j].status = "absent"
      BY <1>0, <2>5 DEF AbandonJobs, TriesKept, JobRow
    <3>. QED  BY <1>3, <2>2, <3>1
  <2>6. ASSUME NEW i \in Job, job[i].status # "absent",
               PickUp(i) \/ \E status \in {"queued", "lost", "done"} : Leave(i, status)
        PROVE  job'[j].target \in Numbers'
    <3>1. /\ job'[j].key = job[j].key /\ job'[j].target = job[j].target
          /\ i # j => job'[j] = job[j]
      BY <1>0, <2>6 DEF PickUp, Leave, JobRow
    <3>. QED  BY <1>3, <2>2, <2>6, <3>1
  <2>. QED
    BY <1>1, <2>3, <2>4, <2>5, <2>6
    DEF QueueStep, queueVars, GiveUpJob, ClaimExpires, Reclaimable, PickUp, RetryJob,
        PushToDlq, FinishJob, FailJob, KeyExpires, Leave, JobsOK, RunningOK
<1>4. ASSUME NEW j \in Job, run'[j].pc \in {"post", "sent"}
      PROVE  run'[j].version \in Numbers'
  BY <1>2, <1>4, PostingFrame DEF TargetsOK, In
<1>5. \A req \in inbox' : req.target \in Numbers'
  <2>1. \A j \in Job : run[j].pc = "post" => RequestOf(j).target \in Numbers
    BY DEF TargetsOK, RequestOf
  <2>2. \/ inbox' \subseteq inbox
        \/ \E j \in Job : run[j].pc = "post" /\ inbox' = inbox \cup {RequestOf(j)}
    BY <1>1
    DEF RegistryStep, registryVars, LogModel, StageLatest, TakeStaging, TagVersion,
        Receive, Refuse, PassGates, ArchivePrevious, Promote, PromoteFails, RestartService
  <2>. QED  BY <1>2, <2>1, <2>2 DEF TargetsOK
<1>6. /\ promo'.step # "idle" => Staged(promo.req.target)'
      /\ promo'.step = "archive" => Staged(promo.prev)'
  <2>1. ASSUME NEW req \in inbox, PassGates(req)
        PROVE  /\ Staged(promo'.req.target)
               /\ promo'.step = "archive" => Staged(promo'.prev)
    <3>1. In("Production") # {} => Latest("Production") \in In("Production")
      BY <1>0, LatestIsTheOne DEF StagesOK, OneProduction, RegistryTypeOK
    <3>2. promo'.req = req /\ promo'.prev = Latest("Production")
          /\ promo'.step = "archive" => In("Production") # {}
      BY <2>1 DEF PassGates
    <3>. QED  BY <2>1, <3>1, <3>2 DEF PassGates, Gate, TargetsOK, In, Staged
  <2>2. CASE promo' = promo \/ promo'.step = "idle" \/ ArchivePrevious
    <3>1. \/ promo' = promo \/ promo'.step = "idle"
          \/ /\ promo.step = "archive" /\ promo'.step = "promote"
             /\ promo'.req = promo.req
      BY <1>0, <2>2 DEF ArchivePrevious, RegistryTypeOK, Handler
    <3>2. \A v \in Nat : Staged(v) => Staged(v)'
      BY <1>2 DEF Staged
    <3>3. promo.req.target \in Nat /\ promo.prev \in Nat
      BY <1>0 DEF RegistryTypeOK, Handler, Request
    <3>. QED  BY <3>1, <3>2, <3>3 DEF TargetsOK
  <2>3. CASE \E req \in inbox : PassGates(req)
    <3>. PICK req \in inbox : PassGates(req)
      BY <2>3
    <3>1. versions' = versions /\ Numbers' = Numbers
      BY DEF PassGates, Numbers
    <3>. QED  BY <2>1, <3>1 DEF Staged
  <2>4. IdleHandler.step = "idle"
    BY DEF IdleHandler
  <2>5. ASSUME NEW c \in Client
        PROVE  /\ \A a \in Auc : LogModel(c, a) => promo' = promo
               /\ StageLatest(c) \/ TakeStaging(c) => promo' = promo
               /\ TagVersion(run[c].version, run[c].auc) => promo' = promo
    BY DEF LogModel, StageLatest, TakeStaging, TagVersion
  <2>6. UNCHANGED registryVars => promo' = promo
    BY DEF registryVars
  <2>. QED
    BY <1>1, <2>2, <2>3, <2>4, <2>5, <2>6
    DEF RegistryStep, Receive, Refuse, Promote, PromoteFails, RestartService
<1>. QED  BY <1>3, <1>4, <1>5, <1>6 DEF TargetsOK

LEMMA ForwardStep ==
    ASSUME TypeOK, StagesOK, TargetsOK, ForwardOK, Next
    PROVE  ForwardOK'
<1>0. /\ RegistryTypeOK /\ run \in [Client -> Run]
      /\ versions \in Seq(Version) /\ Len(versions) \in Nat
      /\ versions \in [Numbers -> Version]
  BY DEF TypeOK, RegistryTypeOK, Numbers
<1>1. RegistryStep \/ UNCHANGED registryVars
  BY <1>0, Frames
<1>. SUFFICES ASSUME ~mixed'
              PROVE  /\ \A v \in Promoted' : versions'[v].stage \notin {"None", "Staging"}
                     /\ promo'.step # "idle" => promo'.req.target \notin Promoted'
                     /\ \A c \in Client : run'[c].pc = "stage" => Untouched(c)'
  BY DEF ForwardOK
<1>2. ~mixed
  BY <1>1
  DEF RegistryStep, registryVars, LogModel, StageLatest, TakeStaging, TagVersion,
      Receive, Refuse, PassGates, ArchivePrevious, Promote, PromoteFails, RestartService
<1>3. CASE \E c \in Client, a \in Auc : LogModel(c, a)
  <2>. PICK c \in Client, a \in Auc : LogModel(c, a)
    BY <1>3
  <2>. DEFINE new == [stage |-> "None", auc |-> a, tag |-> 0, by |-> c, granted |-> NoClient]
              n == Len(versions) + 1
  <2>1. new \in Version
    BY ClientsAreJobs, ClientsAreKnown DEF Version, Stage
  <2>2. /\ Numbers' = Numbers \cup {n} /\ versions'[n] = new
        /\ \A v \in Numbers : versions'[v] = versions[v] /\ v < n
    BY <1>0, <2>1, AppendedVersion DEF LogModel, Numbers
  <2>3. Promoted' = Promoted
    BY <2>2 DEF Promoted
  <2>4. Promoted \subseteq Numbers /\ promo' = promo
    BY DEF Promoted, LogModel
  <2>5. ASSUME NEW d \in Client, run'[d].pc = "stage"
        PROVE  Untouched(d)'
    <3>1. CASE d = c
      <4>1. \A w \in Numbers' : ~(w > n)
        BY <1>0, <2>2 DEF Numbers
      <4>. QED  BY <2>2, <3>1, <4>1 DEF Untouched
    <3>2. CASE d # c
      <4>1. \A b : ~LogModel(d, b)
        <5>. SUFFICES ASSUME NEW b, LogModel(d, b) PROVE FALSE
          OBVIOUS
        <5>. DEFINE other == [stage |-> "None", auc |-> b, tag |-> 0, by |-> d,
                              granted |-> NoClient]
        <5>1. Append(versions, other)[n] = other
          BY <1>0
        <5>. QED  BY <2>2, <3>2, <5>1 DEF LogModel
      <4>2. run[d].pc = "stage"
        BY <2>5, <4>1, StagingFrame
      <4>3. PICK v \in Numbers : /\ versions[v].by = d /\ versions[v].stage = "None"
                                 /\ \A w \in Numbers : w > v => versions[w].by # d
        BY <1>2, <4>2 DEF ForwardOK, Untouched
      <4>4. \A w \in Numbers' : w > v => versions'[w].by # d
        BY <2>2, <3>2, <4>3
      <4>. QED  BY <2>2, <4>3, <4>4 DEF Untouched
    <3>. QED  BY <3>1, <3>2
  <2>. QED  BY <1>2, <2>2, <2>3, <2>4, <2>5 DEF ForwardOK
<1>4. ASSUME ~(\E c \in Client, a \in Auc : LogModel(c, a)),
             Numbers' = Numbers,
             \A v \in Numbers : /\ versions'[v].by = versions[v].by
                                /\ versions'[v].granted = versions[v].granted,
             promo'.step # "idle" => promo'.req = promo.req /\ promo.step # "idle",
             \A v \in Numbers : versions'[v].stage \in {versions[v].stage, "Archived"},
             \A v \in Numbers : versions[v].stage = "None" => versions'[v].stage = "None"
      PROVE  /\ \A v \in Promoted' : versions'[v].stage \notin {"None", "Staging"}
             /\ promo'.step # "idle" => promo'.req.target \notin Promoted'
             /\ \A c \in Client : run'[c].pc = "stage" => Untouched(c)'
  <2>1. Promoted' = Promoted /\ Promoted \subseteq Numbers
    BY <1>4 DEF Promoted
  <2>2. \A c \in Client : run'[c].pc = "stage" => run[c].pc = "stage"
    BY <1>4, StagingFrame
  <2>3. \A c \in Client : Untouched(c) => Untouched(c)'
    BY <1>4 DEF Untouched
  <2>. QED  BY <1>2, <1>4, <2>1, <2>2, <2>3 DEF ForwardOK
<1>5. ASSUME RegistryStep, ~(\E c \in Client, a \in Auc : LogModel(c, a))
      PROVE  /\ \A v \in Promoted' : versions'[v].stage \notin {"None", "Staging"}
             /\ promo'.step # "idle" => promo'.req.target \notin Promoted'
             /\ \A c \in Client : run'[c].pc = "stage" => Untouched(c)'
  <2>0. Numbers' = Numbers
    BY <1>0, <1>5, ChangedInPlace
  <2>1. CASE \E c \in Client : TagVersion(run[c].version, run[c].auc)
    <3>1. \A v \in Numbers : /\ versions'[v].by = versions[v].by
                             /\ versions'[v].granted = versions[v].granted
                             /\ versions'[v].stage = versions[v].stage
      BY <1>0, <2>1 DEF TagVersion, Version
    <3>. QED  BY <1>4, <1>5, <2>0, <2>1, <3>1 DEF TagVersion
  <2>2. CASE ArchivePrevious
    <3>1. Staged(promo.prev)
      BY <2>2 DEF ArchivePrevious, TargetsOK
    <3>2. \A v \in Numbers :
             /\ versions'[v].by = versions[v].by
             /\ versions'[v].granted = versions[v].granted
             /\ versions'[v].stage = IF v = promo.prev THEN "Archived"
                                     ELSE versions[v].stage
      BY <1>0, <2>2 DEF ArchivePrevious, Retired, Version
    <3>3. promo.step # "idle" /\ promo'.req = promo.req
      BY <1>0, <2>2 DEF ArchivePrevious, RegistryTypeOK, Handler
    <3>. QED  BY <1>4, <1>5, <2>0, <3>1, <3>2, <3>3 DEF Staged
  <2>3. CASE versions' = versions /\ (promo' = promo \/ promo' = IdleHandler)
    BY <1>4, <1>5, <2>0, <2>3 DEF IdleHandler
  <2>4. CASE \E req \in inbox : PassGates(req)
    <3>. PICK req \in inbox : PassGates(req)
      BY <2>4
    <3>1. req.target \notin Promoted
      BY <1>2 DEF PassGates, Gate, ForwardOK
    <3>2. versions' = versions /\ promo'.req = req
      BY DEF PassGates
    <3>3. Promoted' = Promoted
      BY <2>0, <3>2 DEF Promoted
    <3>4. \A c \in Client : run'[c].pc = "stage" => Untouched(c)'
      BY <1>2, <1>5, <2>0, <3>2, StagingFrame DEF ForwardOK, Untouched
    <3>. QED  BY <1>2, <3>1, <3>2, <3>3, <3>4 DEF ForwardOK
  <2>5. CASE Promote
    <3>. DEFINE n == promo.req.target
    <3>1. Staged(n) /\ promo'.step = "idle"
      BY <2>5 DEF Promote, TargetsOK, IdleHandler
    <3>2. \A v \in Numbers : /\ versions'[v].by = versions[v].by
                             /\ v # n => versions'[v] = versions[v]
      BY <1>0, <2>5 DEF Promote, Version
    <3>3. versions'[n].stage = "Production"
      BY <1>0, <2>5, <3>1 DEF Promote, Staged, Version
    <3>4. \A v \in Promoted' : v = n \/ (v \in Promoted /\ versions'[v] = versions[v])
      BY <2>0, <3>2 DEF Promoted
    <3>5. \A c \in Client : run'[c].pc = "stage" => Untouched(c)'
      BY <1>2, <1>5, <2>0, <3>1, <3>2, StagingFrame DEF ForwardOK, Untouched, Staged
    <3>. QED  BY <1>2, <3>1, <3>3, <3>4, <3>5 DEF ForwardOK
  <2>6. ASSUME NEW c \in Client, run[c].pc = "stage", run'[c].pc = "tag", StageLatest(c)
        PROVE  /\ \A v \in Promoted' : versions'[v].stage \notin {"None", "Staging"}
               /\ promo'.step # "idle" => promo'.req.target \notin Promoted'
               /\ \A d \in Client : run'[d].pc = "stage" => Untouched(d)'
    <3>. DEFINE last == Len(versions)
    <3>1. PICK v \in Numbers : /\ versions[v].by = c /\ versions[v].stage = "None"
                               /\ \A w \in Numbers : w > v => versions[w].by # c
      BY <1>2, <2>6 DEF ForwardOK, Untouched
    <3>2. versions[last].by = c
      BY <2>6 DEF StageLatest
    <3>3. v = last
      <4>1. last \in Numbers /\ v \in Nat /\ v <= last
        BY <1>0 DEF Numbers
      <4>2. ~(last > v)
        BY <3>1, <3>2, <4>1
      <4>. QED  BY <1>0, <4>1, <4>2
    <3>4. \A w \in Numbers : /\ versions'[w].by = versions[w].by
                             /\ versions'[w].granted = versions[w].granted
                             /\ w # last => versions'[w].stage \in {versions[w].stage, "Archived"}
                             /\ w # last /\ versions[w].stage = "None" => versions'[w].stage = "None"
      BY <1>0, <2>6 DEF StageLatest, ArchivedByStaging, Version
    <3>5. Promoted' = Promoted /\ last \notin Promoted /\ Promoted \subseteq Numbers
      BY <1>2, <2>0, <3>1, <3>3, <3>4 DEF Promoted, ForwardOK
    <3>6. promo' = promo
      BY <2>6 DEF StageLatest
    <3>7. ASSUME NEW d \in Client, run'[d].pc = "stage"
          PROVE  Untouched(d)'
      <4>1. d # c /\ run[d].pc = "stage"
        BY <1>5, <2>6, <3>7, StagingFrame
      <4>. QED
        BY <1>2, <2>0, <3>2, <3>4, <4>1 DEF ForwardOK, Untouched
    <3>. QED  BY <1>2, <3>4, <3>5, <3>6, <3>7 DEF ForwardOK
  <2>. QED
    BY <1>5, <2>1, <2>2, <2>3, <2>4, <2>5, <2>6
    DEF RegistryStep, TakeStaging, Receive, Refuse, PromoteFails, RestartService
<1>6. CASE UNCHANGED registryVars
  <2>1. versions' = versions /\ promo' = promo
    BY <1>6 DEF registryVars
  <2>2. ~(\E c \in Client, a \in Auc : LogModel(c, a))
    <3>. SUFFICES ASSUME NEW c, NEW a, LogModel(c, a) PROVE FALSE
      OBVIOUS
    <3>. DEFINE new == [stage |-> "None", auc |-> a, tag |-> 0, by |-> c,
                        granted |-> NoClient]
    <3>1. Len(Append(versions, new)) = Len(versions) + 1
      BY <1>0
    <3>. QED  BY <1>0, <2>1, <3>1 DEF LogModel
  <2>. QED  BY <1>4, <2>1, <2>2 DEF Numbers
<1>. QED  BY <1>1, <1>3, <1>5, <1>6

-----------------------------------------------------------------------------
(* The best version is in Production.                                      *)

\* The version a trainer has logged, staged and is to tag is worth what the
\* trainer holds in memory, so that tags tell the truth.
TagsOK ==
    ~mixed =>
        /\ \A v \in Numbers : versions[v].tag \in {0, versions[v].auc}
        /\ \A c \in Client, v \in Numbers :
              (/\ run[c].pc = "stage"
               /\ versions[v].by = c
               /\ \A w \in Numbers : w > v => versions[w].by # c)
                  => versions[v].auc = run[c].auc
        /\ \A c \in Client :
              run[c].pc = "tag" => /\ run[c].version \in Numbers
                                   /\ versions[run[c].version].auc = run[c].auc

\* Production is empty only before the first promotion and between the two
\* transitions of another, and what is being promoted is the best so far.
BestOK ==
    ~mixed /\ ~torn =>
        /\ In("Production") \subseteq Promoted
        /\ Promoted # {} /\ In("Production") = {}
              => promo.step = "promote" /\ promo.prev # 0
        /\ \A v \in Promoted : versions[v].tag = versions[v].auc
        /\ \A v \in In("Production"), w \in Promoted : versions[v].auc >= versions[w].auc
        /\ promo.step # "idle" =>
              LET target == versions[promo.req.target] IN
                 /\ target.tag = target.auc
                 /\ \A w \in Promoted : target.auc >= versions[w].auc

LEMMA MixedStays ==
    ASSUME RegistryStep \/ UNCHANGED registryVars
    PROVE  /\ ~mixed' => ~mixed
           /\ ~torn' => ~torn
<1>1. ~mixed' => ~mixed
  BY DEF RegistryStep, registryVars, LogModel, StageLatest, TakeStaging, TagVersion,
         Receive, Refuse, PassGates, ArchivePrevious, Promote, PromoteFails, RestartService
<1>2. torn' = torn \/ torn' = Torn
  BY DEF RegistryStep, registryVars, LogModel, StageLatest, TakeStaging, TagVersion,
         Receive, Refuse, PassGates, ArchivePrevious, Promote, PromoteFails, RestartService
<1>3. ~torn' => ~torn
  BY <1>2 DEF Torn
<1>. QED  BY <1>1, <1>3

\* Who logs a version was training.
LEMMA LoggingEndsTraining ==
    ASSUME RegistryTypeOK, run \in [Client -> Run], RegistryStep \/ UNCHANGED registryVars,
           NEW c \in Client, NEW a \in Auc, LogModel(c, a)
    PROVE  run[c].pc = "train"
<1>. DEFINE new(d, b) == [stage |-> "None", auc |-> b, tag |-> 0, by |-> d,
                          granted |-> NoClient]
<1>1. versions \in Seq(Version) /\ Len(versions) \in Nat
  BY DEF RegistryTypeOK
<1>2. versions' = Append(versions, new(c, a)) /\ Len(versions') # Len(versions)
  BY <1>1 DEF LogModel
<1>3. PICK d \in Client, b \in Auc : run[d].pc = "train" /\ LogModel(d, b)
  BY <1>2, ChangedInPlace DEF registryVars
<1>4. versions' = Append(versions, new(d, b))
  BY <1>3 DEF LogModel
<1>5. \A e : Append(versions, e)[Len(versions) + 1] = e
  BY <1>1
<1>6. new(c, a) = new(d, b)
  BY <1>2, <1>4, <1>5
<1>. QED  BY <1>3, <1>6

LEMMA TagsStep ==
    ASSUME TypeOK, ForwardOK, TagsOK, Next
    PROVE  TagsOK'
<1>0. /\ RegistryTypeOK /\ run \in [Client -> Run]
      /\ versions \in Seq(Version) /\ Len(versions) \in Nat
      /\ versions \in [Numbers -> Version]
  BY DEF TypeOK, RegistryTypeOK, Numbers
<1>1. RegistryStep \/ UNCHANGED registryVars
  BY <1>0, Frames
<1>. DEFINE Newest(c, v) == /\ versions[v].by = c
                            /\ \A w \in Numbers : w > v => versions[w].by # c
            Tagged == \A v \in Numbers : versions[v].tag \in {0, versions[v].auc}
<1>. SUFFICES ASSUME ~mixed'
              PROVE  /\ Tagged'
                     /\ \A c \in Client, v \in Numbers' :
                           run'[c].pc = "stage" /\ Newest(c, v)'
                              => versions'[v].auc = run'[c].auc
                     /\ \A c \in Client :
                           run'[c].pc = "tag" =>
                              /\ run'[c].version \in Numbers'
                              /\ versions'[run'[c].version].auc = run'[c].auc
  BY DEF TagsOK
<1>2. ~mixed /\ Tagged
  BY <1>1, MixedStays DEF TagsOK
<1>3. CASE \E c \in Client, a \in Auc : LogModel(c, a)
  <2>. PICK c \in Client, a \in Auc : LogModel(c, a)
    BY <1>3
  <2>. DEFINE new == [stage |-> "None", auc |-> a, tag |-> 0, by |-> c, granted |-> NoClient]
              n == Len(versions) + 1
  <2>1. new \in Version
    BY ClientsAreJobs, ClientsAreKnown DEF Version, Stage
  <2>2. /\ Numbers' = Numbers \cup {n} /\ versions'[n] = new
        /\ \A v \in Numbers : versions'[v] = versions[v] /\ v < n
    BY <1>0, <2>1, AppendedVersion DEF LogModel, Numbers
  <2>3. Tagged'
    BY <1>2, <2>2
  <2>4. \A d, b : LogModel(d, b) => d = c /\ b = a
    <3>. SUFFICES ASSUME NEW d, NEW b, LogModel(d, b) PROVE d = c /\ b = a
      OBVIOUS
    <3>. DEFINE other == [stage |-> "None", auc |-> b, tag |-> 0, by |-> d,
                          granted |-> NoClient]
    <3>1. Append(versions, other)[n] = other
      BY <1>0
    <3>. QED  BY <2>2, <3>1 DEF LogModel
  <2>5. ASSUME NEW d \in Client, NEW v \in Numbers', run'[d].pc = "stage", Newest(d, v)'
        PROVE  versions'[v].auc = run'[d].auc
    <3>1. CASE \E b \in Auc : LogModel(d, b) /\ run'[d].auc = b
      <4>1. d = c /\ run'[d].auc = a
        BY <2>4, <3>1
      <4>2. v = n
        BY <2>2, <2>5, <4>1
      <4>. QED  BY <2>2, <4>1, <4>2
    <3>2. CASE ~(\E b \in Auc : LogModel(d, b) /\ run'[d].auc = b)
      <4>1. run[d].pc = "stage" /\ run'[d].auc = run[d].auc
        BY <2>5, <3>2, StagingFrame
      <4>2. d # c
        BY <1>0, <1>1, <4>1, LoggingEndsTraining
      <4>3. v \in Numbers /\ Newest(d, v)
        BY <2>2, <2>5, <4>2
      <4>. QED  BY <1>2, <2>2, <4>1, <4>3 DEF TagsOK
    <3>. QED  BY <3>1, <3>2
  <2>6. ASSUME NEW d \in Client, run'[d].pc = "tag"
        PROVE  run'[d].version \in Numbers' /\ versions'[run'[d].version].auc = run'[d].auc
    <3>1. ~StageLatest(d)
      BY <1>0, <2>2 DEF StageLatest, Numbers
    <3>2. /\ run[d].pc = "tag"
          /\ run'[d].version = run[d].version /\ run'[d].auc = run[d].auc
      BY <2>6, <3>1, StagingFrame
    <3>. QED  BY <1>2, <2>2, <3>2 DEF TagsOK
  <2>. QED  BY <2>3, <2>5, <2>6
<1>4. ASSUME ~(\E c \in Client, a \in Auc : LogModel(c, a))
      PROVE  /\ Tagged'
             /\ \A c \in Client, v \in Numbers' :
                   run'[c].pc = "stage" /\ Newest(c, v)' => versions'[v].auc = run'[c].auc
             /\ \A c \in Client :
                   run'[c].pc = "tag" =>
                      /\ run'[c].version \in Numbers'
                      /\ versions'[run'[c].version].auc = run'[c].auc
  <2>0. /\ Numbers' = Numbers
        /\ \A v \in Numbers : /\ versions'[v].by = versions[v].by
                              /\ versions'[v].auc = versions[v].auc
        /\ Tagged'
    <3>1. CASE UNCHANGED versions
      BY <1>2, <3>1 DEF Numbers
    <3>2. CASE RegistryStep
      <4>0. Numbers' = Numbers
        BY <1>0, <1>4, <3>2, ChangedInPlace
      <4>1. CASE \E c \in Client : StageLatest(c)
        BY <1>0, <1>2, <4>0, <4>1 DEF StageLatest, Version
      <4>2. CASE ArchivePrevious \/ Promote
        BY <1>0, <1>2, <4>0, <4>2 DEF ArchivePrevious, Retired, Promote, Version
      <4>3. CASE \E c \in Client : run[c].pc = "tag" /\ TagVersion(run[c].version, run[c].auc)
        <5>. PICK c \in Client : run[c].pc = "tag" /\ TagVersion(run[c].version, run[c].auc)
          BY <4>3
        <5>1. versions[run[c].version].auc = run[c].auc
          BY <1>2 DEF TagsOK
        <5>. QED  BY <1>0, <1>2, <4>0, <5>1 DEF TagVersion, Version
      <4>. QED
        BY <1>4, <3>1, <3>2, <4>0, <4>1, <4>2, <4>3
        DEF RegistryStep, TakeStaging, Receive, Refuse, PassGates, PromoteFails,
            RestartService
    <3>. QED  BY <1>1, <3>1, <3>2 DEF registryVars
  <2>1. ASSUME NEW c \in Client, NEW v \in Numbers', run'[c].pc = "stage", Newest(c, v)'
        PROVE  versions'[v].auc = run'[c].auc
    <3>1. run[c].pc = "stage" /\ run'[c].auc = run[c].auc
      BY <1>4, <2>1, StagingFrame
    <3>. QED  BY <1>2, <2>0, <2>1, <3>1 DEF TagsOK
  <2>2. ASSUME NEW c \in Client, run'[c].pc = "tag"
        PROVE  run'[c].version \in Numbers' /\ versions'[run'[c].version].auc = run'[c].auc
    <3>1. CASE /\ run[c].pc = "tag"
               /\ run'[c].version = run[c].version /\ run'[c].auc = run[c].auc
      BY <1>2, <2>0, <3>1 DEF TagsOK
    <3>2. CASE /\ run[c].pc = "stage" /\ StageLatest(c)
               /\ run'[c].version = Len(versions) /\ run'[c].auc = run[c].auc
      <4>1. versions[Len(versions)].by = c
        BY <3>2 DEF StageLatest
      <4>2. Len(versions) \in Numbers /\ \A w \in Numbers : ~(w > Len(versions))
        BY <1>0, <1>2, <3>2 DEF ForwardOK, Untouched, Numbers
      <4>. QED  BY <1>2, <2>0, <3>2, <4>1, <4>2 DEF TagsOK
    <3>. QED  BY <2>2, <3>1, <3>2, StagingFrame
  <2>. QED  BY <2>0, <2>1, <2>2
<1>. QED  BY <1>3, <1>4

LEMMA BestStep ==
    ASSUME TypeOK, StagesOK, TargetsOK, ForwardOK, TagsOK, BestOK, Next
    PROVE  BestOK'
<1>0. /\ RegistryTypeOK /\ run \in [Client -> Run]
      /\ versions \in Seq(Version) /\ Len(versions) \in Nat
      /\ versions \in [Numbers -> Version]
      /\ Promoted \subseteq Numbers
      /\ \A stage : In(stage) \subseteq Numbers
  BY DEF TypeOK, RegistryTypeOK, Numbers, Promoted, In
<1>1. RegistryStep \/ UNCHANGED registryVars
  BY <1>0, Frames
<1>. SUFFICES ASSUME ~mixed', ~torn' PROVE BestOK'
  BY DEF BestOK
<1>2. ~mixed /\ ~torn
  BY <1>1, MixedStays
<1>3. promo.step # "idle" => promo.req.target \in Numbers
  BY DEF TargetsOK, Staged
\* A step that promotes, archives and takes up nothing.
<1>4. ASSUME Promoted' = Promoted, In("Production")' = In("Production"), promo' = promo,
             \A v \in Numbers : /\ versions'[v].auc = versions[v].auc
                                /\ versions'[v].tag \in {versions[v].tag, versions[v].auc}
      PROVE  BestOK'
  <2>1. \A v \in Numbers : versions[v].tag = versions[v].auc
                              => versions'[v].tag = versions'[v].auc
    BY <1>4
  <2>. QED  BY <1>0, <1>2, <1>3, <1>4, <2>1 DEF BestOK
<1>5. CASE \E c \in Client, a \in Auc : LogModel(c, a)
  <2>. PICK c \in Client, a \in Auc : LogModel(c, a)
    BY <1>5
  <2>. DEFINE new == [stage |-> "None", auc |-> a, tag |-> 0, by |-> c, granted |-> NoClient]
              n == Len(versions) + 1
  <2>1. new \in Version
    BY ClientsAreJobs, ClientsAreKnown DEF Version, Stage
  <2>2. /\ Numbers' = Numbers \cup {n} /\ versions'[n] = new
        /\ \A v \in Numbers : versions'[v] = versions[v]
    BY <1>0, <2>1, AppendedVersion DEF LogModel, Numbers
  <2>3. Promoted' = Promoted /\ In("Production")' = In("Production")
    BY <2>2 DEF Promoted, In
  <2>. QED  BY <1>4, <2>2, <2>3 DEF LogModel
<1>6. ASSUME RegistryStep, ~(\E c \in Client, a \in Auc : LogModel(c, a))
      PROVE  BestOK'
  <2>0. Numbers' = Numbers
    BY <1>0, <1>6, ChangedInPlace
  <2>1. ASSUME NEW c \in Client, run[c].pc = "tag", TagVersion(run[c].version, run[c].auc)
        PROVE  BestOK'
    <3>1. versions[run[c].version].auc = run[c].auc
      BY <1>2, <2>1 DEF TagsOK
    <3>2. \A v \in Numbers : /\ versions'[v].auc = versions[v].auc
                             /\ versions'[v].stage = versions[v].stage
                             /\ versions'[v].granted = versions[v].granted
                             /\ versions'[v].tag \in {versions[v].tag, versions[v].auc}
      BY <1>0, <2>1, <3>1 DEF TagVersion, Version
    <3>3. Promoted' = Promoted /\ In("Production")' = In("Production")
      BY <2>0, <3>2 DEF Promoted, In
    <3>. QED  BY <1>4, <2>1, <3>2, <3>3 DEF TagVersion
  <2>2. ASSUME NEW c \in Client, run[c].pc = "stage", StageLatest(c)
        PROVE  BestOK'
    <3>. DEFINE last == Len(versions)
    <3>1. PICK v \in Numbers : /\ versions[v].by = c /\ versions[v].stage = "None"
                               /\ \A w \in Numbers : w > v => versions[w].by # c
      BY <1>2, <2>2 DEF ForwardOK, Untouched
    <3>2. versions[last].by = c
      BY <2>2 DEF StageLatest
    <3>3. v = last
      <4>1. last \in Numbers /\ v \in Nat /\ v <= last
        BY <1>0 DEF Numbers
      <4>2. ~(last > v)
        BY <3>1, <3>2, <4>1
      <4>. QED  BY <1>0, <4>1, <4>2
    <3>4. \A w \in Numbers : /\ versions'[w].auc = versions[w].auc
                             /\ versions'[w].tag = versions[w].tag
                             /\ versions'[w].granted = versions[w].granted
                             /\ versions'[w].stage = "Production"
                                   <=> versions[w].stage = "Production"
      BY <1>0, <2>2, <3>1, <3>3 DEF StageLatest, ArchivedByStaging, Version
    <3>5. Promoted' = Promoted /\ In("Production")' = In("Production")
      BY <2>0, <3>4 DEF Promoted, In
    <3>. QED  BY <1>4, <2>2, <3>4, <3>5 DEF StageLatest
  <2>3. CASE versions' = versions /\ promo' = promo
    BY <1>4, <2>0, <2>3 DEF Promoted, In
  <2>4. CASE \E req \in inbox : PassGates(req)
    <3>. PICK req \in inbox : PassGates(req)
      BY <2>4
    <3>. DEFINE target == versions[req.target]
                best == Latest("Production")
    <3>1. /\ versions' = versions /\ promo'.req = req /\ promo.step = "idle"
          /\ Promoted' = Promoted /\ In("Production")' = In("Production")
      BY <2>0 DEF PassGates, Promoted, In
    <3>2. req.target \in Numbers /\ target.tag = target.auc
      BY <1>2 DEF PassGates, Gate, TargetsOK, TagsOK
    <3>3. Promoted # {} => In("Production") # {}
      BY <1>2, <3>1 DEF BestOK
    <3>4. ASSUME NEW w \in Promoted
          PROVE  target.auc >= versions[w].auc
      <4>1. best \in In("Production")
        BY <1>0, <3>3, LatestIsTheOne DEF StagesOK, OneProduction
      <4>2. target.tag >= versions[best].tag
        BY <3>3 DEF PassGates, Gate
      <4>3. versions[best].tag = versions[best].auc
            /\ versions[best].auc >= versions[w].auc
        BY <1>2, <4>1 DEF BestOK
      <4>4. {target.auc, versions[best].auc, versions[w].auc} \subseteq Nat
        BY <1>0, <3>2, <4>1, AucIsPositive DEF Version
      <4>. QED  BY <3>2, <4>2, <4>3, <4>4
    <3>. QED  BY <1>2, <3>1, <3>2, <3>3, <3>4 DEF BestOK
  <2>5. CASE ArchivePrevious
    <3>1. \A v \in Numbers : /\ versions'[v].auc = versions[v].auc
                             /\ versions'[v].tag = versions[v].tag
                             /\ versions'[v].granted = versions[v].granted
                             /\ versions'[v].stage = IF v = promo.prev THEN "Archived"
                                                     ELSE versions[v].stage
      BY <1>0, <2>5 DEF ArchivePrevious, Retired, Version
    <3>2. Promoted' = Promoted
      BY <2>0, <3>1 DEF Promoted
    <3>3. In("Production")' = {}
      BY <2>0, <2>5, <3>1 DEF In, ArchivePrevious, StagesOK
    <3>4. /\ promo.step = "archive" /\ promo'.step = "promote"
          /\ promo'.prev = promo.prev /\ promo'.req = promo.req
      BY <1>0, <2>5 DEF ArchivePrevious, RegistryTypeOK, Handler
    <3>5. promo.prev # 0
      BY <1>0, <3>4 DEF TargetsOK, Staged, Numbers
    <3>. QED
      BY <1>0, <1>2, <1>3, <3>1, <3>2, <3>3, <3>4, <3>5 DEF BestOK
  <2>6. CASE Promote
    <3>. DEFINE n == promo.req.target
    <3>1. n \in Numbers /\ promo'.step = "idle" /\ promo.step = "promote"
      BY <1>3, <2>6 DEF Promote, IdleHandler
    <3>2. \A v \in Numbers :
             /\ versions'[v].auc = versions[v].auc
             /\ versions'[v].tag = versions[v].tag
             /\ v # n => versions'[v] = versions[v]
      BY <1>0, <2>6 DEF Promote, Version
    <3>3. versions'[n].stage = "Production" /\ versions'[n].granted # NoClient
      <4>1. promo.req.client \in Client
        BY <1>0 DEF RegistryTypeOK, Handler, Request
      <4>. QED  BY <1>0, <2>6, <3>1, <4>1, ClientsAreKnown DEF Promote, Version
    <3>4. Promoted' = Promoted \cup {n}
      BY <1>0, <2>0, <3>1, <3>2, <3>3 DEF Promoted
    <3>5. In("Production")' = {n}
      BY <2>0, <3>1, <3>2, <3>3 DEF In, StagesOK
    <3>6. versions[n].auc >= versions[n].auc
      <4>1. versions[n].auc \in Nat
        BY <1>0, <3>1, AucIsPositive DEF Version
      <4>. QED  BY <4>1
    <3>. QED  BY <1>0, <1>2, <3>1, <3>2, <3>4, <3>5, <3>6 DEF BestOK
  <2>7. CASE PromoteFails \/ RestartService
    <3>1. versions' = versions /\ promo'.step = "idle" /\ ~Torn
      BY <2>7 DEF PromoteFails, RestartService, IdleHandler
    <3>2. Promoted' = Promoted /\ In("Production")' = In("Production")
      BY <2>0, <3>1 DEF Promoted, In
    <3>. QED  BY <1>2, <3>1, <3>2 DEF BestOK, Torn
  <2>. QED
    BY <1>6, <2>1, <2>2, <2>3, <2>4, <2>5, <2>6, <2>7
    DEF RegistryStep, TakeStaging, Receive, Refuse
<1>7. CASE UNCHANGED registryVars
  BY <1>4, <1>7 DEF registryVars, Promoted, In, Numbers
<1>. QED  BY <1>1, <1>5, <1>6, <1>7

-----------------------------------------------------------------------------
(* The inductive invariant and the theorems.                               *)

IInv ==
    /\ TypeOK /\ StagesOK /\ JobsOK
    /\ TargetsOK /\ ForwardOK /\ TagsOK /\ BestOK

LEMMA InitIInv == Init => IInv
<1>. SUFFICES ASSUME Init PROVE IInv
  OBVIOUS
<1>. USE TriesAreNat, WorkerBounds, ClientsAreJobs, ClientsAreKnown, AucIsPositive
     DEF Init, QueueInit, RegistryInit
<1>1. PICK a \in Auc :
         versions = <<[stage |-> "Staging", auc |-> a, tag |-> a,
                       by |-> Cli, granted |-> NoClient]>>
  OBVIOUS
<1>2. [stage |-> "Staging", auc |-> a, tag |-> a, by |-> Cli, granted |-> NoClient]
         \in Version
  BY DEF Version, Stage
<1>3. versions \in Seq(Version) /\ Len(versions) = 1 /\ Numbers = {1}
  BY <1>1, <1>2 DEF Numbers
<1>4. versions[1].stage = "Staging" /\ versions[1].granted = NoClient
  BY <1>1
<1>5. IdleRun \in Run /\ IdleRun.pc = "idle"
  BY DEF IdleRun, Run
<1>6. IdleHandler \in Handler /\ IdleHandler.step = "idle"
  BY DEF IdleHandler, NoRequest, Handler, Request
<1>7. QueueTypeOK
  BY DEF QueueTypeOK, JobRow, JobStatus
<1>8. TypeOK
  <2>1. RegistryTypeOK
    <3>1. served \in 0 .. Len(versions) /\ inbox \subseteq Request
      BY <1>3
    <3>2. torn \in BOOLEAN /\ mixed \in BOOLEAN /\ promo \in Handler
      BY <1>6
    <3>. QED  BY <1>3, <3>1, <3>2 DEF RegistryTypeOK
  <2>2. run \in [Client -> Run] /\ activeRun \in BOOLEAN
    BY <1>5
  <2>3. /\ trainings \in 0 .. MaxTrainings
        /\ faults \in 0 .. MaxFaults
        /\ crashes \in 0 .. MaxCrashes
    OBVIOUS
  <2>. QED  BY <1>7, <2>1, <2>2, <2>3 DEF TypeOK
<1>9. StagesOK
  BY <1>3, <1>4, <1>6 DEF StagesOK, OneProduction, In
<1>10. JobsOK
  BY <1>5 DEF JobsOK, RunningOK, DeadLetteredOnce
<1>11. TargetsOK
  BY <1>5, <1>6 DEF TargetsOK
<1>12. ForwardOK
  BY <1>3, <1>4, <1>5, <1>6 DEF ForwardOK, Promoted
<1>13. TagsOK
  <2>1. versions[1].tag = versions[1].auc
    BY <1>1
  <2>. QED  BY <1>3, <1>5, <2>1 DEF TagsOK
<1>14. BestOK
  BY <1>3, <1>4, <1>6 DEF BestOK, Promoted, In
<1>. QED  BY <1>8, <1>9, <1>10, <1>11, <1>12, <1>13, <1>14 DEF IInv

\* A step counts at most one of a training, a fault and a crash.
LEMMA BoundsFrame ==
    ASSUME Next
    PROVE  \/ UNCHANGED bounds
           \/ Fault \/ Crashed
           \/ /\ trainings < MaxTrainings /\ trainings' = trainings + 1
              /\ UNCHANGED <<faults, crashes>>
BY DEF Next, WorkerStep, TrainingStep, ServiceStep, Dispatch, Start, Drop, Retry,
       DeadLetter, DeadLetterFails, Finish, JobTimeout, Reclaim, DayPasses, ReplayLoad,
       ReplayLog, Train, TrainFails, StageNewest, Tag, Compare, MakeTrain, Post,
       Refused, Passed, Archived, PromotedAndAnswered, TransitionFails, HttpTimeout,
       WorkerCrash, ServiceRestart, NoFault

LEMMA TypeStep ==
    ASSUME TypeOK, StagesOK, JobsOK, Next
    PROVE  TypeOK'
<1>0. run \in [Client -> Run] /\ RegistryTypeOK /\ QueueTypeOK /\ job \in [Job -> JobRow]
  BY DEF TypeOK, QueueTypeOK
<1>1. RegistryStep \/ UNCHANGED registryVars
  BY <1>0, Frames
<1>2. RegistryTypeOK'
  <2>1. CASE UNCHANGED registryVars
    BY <1>0, <2>1 DEF registryVars, RegistryTypeOK
  <2>. QED  BY <1>0, <1>1, <2>1, RegistryTypes
<1>3. QueueTypeOK'
  BY <1>0, Frames, QueueTypes DEF JobsOK
<1>4. run' \in [Client -> Run]
  BY RunFrame
<1>5. /\ activeRun' \in BOOLEAN
      /\ trainings' \in 0 .. MaxTrainings
      /\ faults' \in 0 .. MaxFaults
      /\ crashes' \in 0 .. MaxCrashes
  <2>1. \/ UNCHANGED bounds
        \/ Fault \/ Crashed
        \/ /\ trainings < MaxTrainings /\ trainings' = trainings + 1
           /\ UNCHANGED <<faults, crashes>>
    BY BoundsFrame
  <2>2. activeRun' \in {activeRun, TRUE, FALSE}
    BY DEF Next, WorkerStep, TrainingStep, ServiceStep, Dispatch, Start, Drop, Retry,
           DeadLetter, DeadLetterFails, Finish, JobTimeout, Reclaim, DayPasses, ReplayLoad,
           ReplayLog, Train, TrainFails, StageNewest, Tag, Compare, MakeTrain, Post,
           Refused, Passed, Archived, PromotedAndAnswered, TransitionFails, HttpTimeout,
           WorkerCrash, ServiceRestart, Registry, Local
  <2>3. activeRun' \in BOOLEAN
    BY <2>2 DEF TypeOK
  <2>4. /\ trainings \in 0 .. MaxTrainings /\ faults \in 0 .. MaxFaults
        /\ crashes \in 0 .. MaxCrashes
    BY DEF TypeOK
  <2>. QED
    BY <2>1, <2>3, <2>4, WorkerBounds DEF bounds, Fault, Crashed
<1>. QED  BY <1>2, <1>3, <1>4, <1>5 DEF TypeOK

LEMMA IInvStep == IInv /\ [Next]_vars => IInv'
<1>1. ASSUME IInv, Next PROVE IInv'
  <2>. USE <1>1 DEF IInv
  <2>1. RegistryTypeOK /\ run \in [Client -> Run]
    BY DEF TypeOK
  <2>2. RegistryStep \/ UNCHANGED registryVars
    BY <2>1, Frames
  <2>3. StagesOK'
    BY <2>1, <2>2, StagesStep
  <2>. QED
    BY <2>3, TypeStep, JobsOKStep, TargetsStep, ForwardStep, TagsStep, BestStep
<1>2. ASSUME IInv, UNCHANGED vars PROVE IInv'
  <2>. USE <1>2 DEF vars, queueVars, registryVars, bounds, IInv
  <2>1. TypeOK'
    BY DEF TypeOK, QueueTypeOK, RegistryTypeOK
  <2>2. Numbers' = Numbers /\ Promoted' = Promoted
        /\ \A stage : In(stage)' = In(stage)
    BY DEF Numbers, Promoted, In
  <2>3. StagesOK'
    BY <2>2 DEF StagesOK, OneProduction
  <2>4. JobsOK'
    BY DEF JobsOK, RunningOK, DeadLetteredOnce
  <2>5. TargetsOK'
    BY <2>2 DEF TargetsOK, Staged
  <2>6. ForwardOK'
    BY <2>2 DEF ForwardOK, Untouched
  <2>7. TagsOK'
    BY <2>2 DEF TagsOK
  <2>8. BestOK'
    BY <2>2 DEF BestOK
  <2>. QED  BY <2>1, <2>3, <2>4, <2>5, <2>6, <2>7, <2>8
<1>. QED  BY <1>1, <1>2

THEOREM Invariance == Spec => []IInv
BY InitIInv, IInvStep, PTL DEF Spec

\* The queue, the registry and the clients keep their types.
THEOREM TypeCorrect == Spec => []TypeOK
<1>. IInv => TypeOK
  BY DEF IInv
<1>. QED  BY Invariance, PTL

\* promotion.py: for any number of jobs, trainings, faults and restarts between
\* its two transitions, never two versions in Production.
THEOREM ProductionIsUnique == Spec => []OneProduction
<1>. IInv => OneProduction
  BY DEF IInv, StagesOK
<1>. QED  BY Invariance, PTL

\* dedup.py and the except clauses of the jobs: a job is dead-lettered once, with
\* all its tries used, however often workers die.
THEOREM DeadLettersAreUnique == Spec => []DeadLetteredOnce
<1>. IInv => DeadLetteredOnce
  BY DEF IInv, JobsOK
<1>. QED  BY Invariance, PTL

\* promotion.py: Production is empty after the first promotion only
\* between the two transitions, or after a handler stopped there, or after a
\* trainer took another's version for its own.
THEOREM ProductionIsKept == Spec => []ProductionKept
<1>. IInv => ProductionKept
  BY DEF IInv, BestOK, ProductionKept
<1>. QED  BY Invariance, PTL

\* promotion.py's third gate, over tags that a trainer sets after the version is
\* in Staging: what is in Production is the best that was ever promoted.
THEOREM BestIsInProduction == Spec => []ProductionIsBest
<1>. IInv => ProductionIsBest
  BY DEF IInv, BestOK, ProductionIsBest
<1>. QED  BY Invariance, PTL

\* service/main.py and load_model: whatever the restart interrupts, it loads a version that was
\* promoted once there is one.
THEOREM RestartsServePromoted == Spec => RestartServesPromoted
<1>. DEFINE Served == served' # served /\ Promoted # {} =>
                          served' \in Promoted \/ torn' \/ mixed'
<1>1. ASSUME IInv, Next PROVE Served
  <2>. SUFFICES ASSUME served' # served, Promoted # {}, ~torn', ~mixed'
                PROVE  served' \in Promoted
    OBVIOUS
  <2>. USE <1>1 DEF IInv
  <2>0. RegistryTypeOK /\ run \in [Client -> Run]
    BY DEF TypeOK
  <2>1. RegistryStep \/ UNCHANGED registryVars
    BY <2>0, Frames
  <2>2. RestartService
    BY <2>1 DEF RegistryStep, registryVars, LogModel, StageLatest, TakeStaging, TagVersion,
                Receive, Refuse, PassGates, ArchivePrevious, Promote, PromoteFails
  <2>3. ~torn /\ ~mixed /\ ~Torn
    BY <2>2 DEF RestartService, Torn
  <2>4. In("Production") # {}
    BY <2>3 DEF BestOK, Torn
  <2>5. served' \in In("Production")
    <3>1. versions \in Seq(Version) /\ \A v, w \in In("Production") : v = w
      BY <2>0 DEF RegistryTypeOK, StagesOK, OneProduction
    <3>2. Latest("Production") \in In("Production")
      BY <2>4, <3>1, LatestIsTheOne
    <3>. QED  BY <2>2, <2>4, <3>2 DEF RestartService, VersionToLoad
  <2>. QED  BY <2>3, <2>5 DEF BestOK
<1>2. IInv /\ [Next]_vars => [Served]_vars
  BY <1>1
<1>. QED  BY <1>2, Invariance, PTL DEF Spec, RestartServesPromoted
=============================================================================
