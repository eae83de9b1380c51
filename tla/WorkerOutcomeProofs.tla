-------------------------- MODULE WorkerOutcomeProofs --------------------------
(* Proofs about Worker: what becomes of a job.  A job that is given up, one   *)
(* that is dead-lettered, one whose promotion request is under way and one    *)
(* that ended well each say something of the registry or of the faults.       *)
EXTENDS WorkerProofs, FiniteSetTheorems

-----------------------------------------------------------------------------
(* The steps, seen from one job.                                           *)

\* A job and its run change by its own steps, by those of the service and by
\* crashes.
LEMMA OthersStay ==
    ASSUME TypeOK, Next, NEW j \in Job
    PROVE  \/ job'[j] = job[j] /\ run'[j] = run[j]
           \/ \E k \in Key : \E target \in Targets(k.kind) : Dispatch(j, k, target)
           \/ WorkerStep(j) \/ Reclaim(j) \/ TrainingStep(j)
           \/ ServiceStep \/ WorkerCrash \/ ServiceRestart
<1>0. /\ run \in [Client -> Run] /\ job \in [Job -> JobRow]
      /\ Job \subseteq Client /\ Cli \in Client /\ Cli \notin Job
  BY ClientsAreJobs DEF TypeOK, QueueTypeOK
<1>1. ASSUME NEW i \in Job, i # j,
             \/ \E k \in Key : \E target \in Targets(k.kind) : Dispatch(i, k, target)
             \/ Reclaim(i) \/ Start(i) \/ Drop(i)
      PROVE  job'[j] = job[j] /\ run'[j] = run[j]
  BY <1>0, <1>1
  DEF Dispatch, EnqueueJob, Reclaim, ClaimExpires, Start, PickUp, Drop, GiveUpJob, Leave
<1>2. ASSUME NEW i \in Job, i # j,
             Retry(i) \/ DeadLetter(i) \/ DeadLetterFails(i) \/ Finish(i) \/ JobTimeout(i)
      PROVE  job'[j] = job[j] /\ run'[j] = run[j]
  BY <1>0, <1>2
  DEF Retry, RetryJob, DeadLetter, PushToDlq, DeadLetterFails, Finish, FinishJob,
      JobTimeout, FailJob, Leave, Goto
<1>3. ASSUME NEW i \in Job, i # j,
             ReplayLoad(i) \/ ReplayLog(i) \/ Compare(i) \/ Post(i) \/ HttpTimeout(i)
      PROVE  job'[j] = job[j] /\ run'[j] = run[j]
  BY <1>0, <1>3
  DEF ReplayLoad, ReplayLog, Compare, Post, HttpTimeout, Goto, Raise, Registry, Local,
      queueVars
<1>4. ASSUME NEW c \in Client, c # j, TrainingStep(c)
      PROVE  job'[j] = job[j] /\ run'[j] = run[j]
  <2>1. job' = job
    BY <1>0, <1>4, TrainingFrame DEF queueVars
  <2>2. run'[j] = run[j]
    BY <1>0, <1>4
    DEF TrainingStep, Train, TrainFails, StageNewest, Tag, Goto, Raise
  <2>. QED  BY <2>1, <2>2
<1>5. CASE MakeTrain
  BY <1>0, <1>5 DEF MakeTrain, Local, queueVars
<1>6. CASE \E k \in Key : DayPasses(k)
  BY <1>6 DEF DayPasses, KeyExpires
<1>. QED  BY <1>1, <1>2, <1>3, <1>4, <1>5, <1>6 DEF Next, WorkerStep

\* The service changes no job, and only ends the waiting of one.
LEMMA AnswerFrame ==
    ASSUME TypeOK, ServiceStep, NEW j \in Job
    PROVE  /\ job' = job
           /\ \/ run'[j] = run[j]
              \/ /\ run[j].pc = "sent" /\ run'[j].pc \in Ending
                 /\ run'[j].version = run[j].version
<1>0. run \in [Client -> Run] /\ j \in Client
  BY ClientsAreJobs DEF TypeOK
<1>1. job' = job
  BY ServiceFrame DEF queueVars
<1>2. run' = run \/ \E req : Answered(req, "failed") \/ Answered(req, "return")
  BY DEF ServiceStep, Refused, Passed, Archived, PromotedAndAnswered, TransitionFails,
         NotSuccess, Success
<1>3. ASSUME NEW req, NEW pc \in Ending, Answered(req, pc)
      PROVE  \/ run'[j] = run[j]
             \/ /\ run[j].pc = "sent" /\ run'[j].pc \in Ending
                /\ run'[j].version = run[j].version
  <2>1. CASE run' = [run EXCEPT ![req.client].pc = pc] /\ run[req.client].pc = "sent"
    BY <1>0, <2>1 DEF Run
  <2>. QED  BY <1>3, <2>1 DEF Answered
<1>. QED  BY <1>1, <1>2, <1>3 DEF Ending

\* The dead-letter list grows by the job that is dead-lettered.
LEMMA DeadLetters ==
    ASSUME TypeOK, Next, NEW j \in Job
    PROVE  \/ DeadLetter(j) /\ DeadLettered(j)'
           \/ ~DeadLetter(j) /\ (DeadLettered(j)' <=> DeadLettered(j))
<1>0. dlq \in Seq(Job) /\ run \in [Client -> Run] /\ Len(dlq) \in Nat
  BY DEF TypeOK, QueueTypeOK
<1>1. ASSUME NEW i \in Job, PushToDlq(i)
      PROVE  DeadLettered(j)' <=> (DeadLettered(j) \/ i = j)
  <2>1. /\ Len(dlq') = Len(dlq) + 1 /\ dlq'[Len(dlq) + 1] = i
        /\ \A n \in 1 .. Len(dlq) : dlq'[n] = dlq[n]
    BY <1>0, <1>1 DEF PushToDlq
  <2>. QED  BY <1>0, <2>1 DEF DeadLettered
<1>2. \/ dlq' = dlq
      \/ \E i \in Job : DeadLetter(i)
  BY <1>0, TrainingFrame, ServiceFrame
  DEF Next, WorkerStep, Dispatch, EnqueueJob, Start, PickUp, Drop, GiveUpJob, Retry,
      RetryJob, DeadLetterFails, Finish, FinishJob, JobTimeout, FailJob, Reclaim,
      ClaimExpires, DayPasses, KeyExpires, WorkerCrash, AbandonJobs, ReplayLoad,
      ReplayLog, Compare, Post, HttpTimeout, MakeTrain, ServiceRestart, Registry, Local,
      queueVars
<1>3. CASE dlq' = dlq
  <2>1. ASSUME DeadLetter(j) PROVE FALSE
    <3>1. dlq' = Append(dlq, j)
      BY <2>1 DEF DeadLetter, PushToDlq
    <3>. QED  BY <1>0, <1>3, <3>1
  <2>. QED  BY <1>3, <2>1 DEF DeadLettered
<1>4. CASE \E i \in Job : DeadLetter(i)
  <2>. PICK i \in Job : DeadLetter(i)
    BY <1>4
  <2>1. DeadLettered(j)' <=> (DeadLettered(j) \/ i = j)
    BY <1>1 DEF DeadLetter
  <2>2. DeadLetter(j) => i = j
    <3>1. DeadLetter(j) => dlq' = Append(dlq, j)
      BY DEF DeadLetter, PushToDlq
    <3>2. dlq' = Append(dlq, i)
      BY DEF DeadLetter, PushToDlq
    <3>3. \A k : Append(dlq, k)[Len(dlq) + 1] = k
      BY <1>0
    <3>. QED  BY <3>1, <3>2, <3>3
  <2>. QED  BY <2>1, <2>2
<1>. QED  BY <1>2, <1>3, <1>4

\* What has been counted is not forgotten, and a step that counts neither a fault
\* nor a crash is none.
LEMMA Undisturbed ==
    ASSUME TypeOK, Next
    PROVE  /\ faults' \in Nat /\ faults' >= faults
           /\ crashes' = 0 => crashes = 0 /\ ~Crashed
           /\ ~Disturbed' => ~Disturbed /\ ~Fault /\ ~Crashed
           /\ expiries' = 0 => expiries = 0 /\ \A k \in Key : ~KeyExpires(k)
<1>1. {faults, crashes, expiries} \subseteq Nat
  BY WorkerBounds, TriesAreNat DEF TypeOK, QueueTypeOK
<1>2. expiries' = expiries \/ expiries' = expiries + 1
  <2>1. run \in [Client -> Run]
    BY DEF TypeOK
  <2>. QED
    BY <2>1, Frames
    DEF QueueStep, queueVars, EnqueueJob, PickUp, GiveUpJob, ClaimExpires, RetryJob,
        PushToDlq, FinishJob, FailJob, KeyExpires, AbandonJobs
<1>3. \A k \in Key : KeyExpires(k) => expiries' = expiries + 1
  BY DEF KeyExpires
<1>. QED  BY <1>1, <1>2, <1>3, BoundsFrame DEF bounds, Fault, Crashed, Disturbed

\* Only a promotion adds to what was promoted, and no step changes what a version is
\* worth.
LEMMA GrantsStep ==
    ASSUME RegistryTypeOK, run \in [Client -> Run], TargetsOK,
           RegistryStep \/ UNCHANGED registryVars
    PROVE  /\ \A v \in Numbers : v \in Numbers' /\ versions'[v].auc = versions[v].auc
           /\ \/ /\ ~Promote /\ Promoted' = Promoted
                 /\ \A v \in Promoted : versions'[v].granted = versions[v].granted
              \/ /\ Promote
                 /\ Promoted' = Promoted \cup {promo.req.target}
                 /\ versions'[promo.req.target].granted = promo.req.client
                 /\ \A v \in Numbers \ {promo.req.target} : versions'[v] = versions[v]
<1>0. /\ versions \in Seq(Version) /\ Len(versions) \in Nat
      /\ versions \in [Numbers -> Version]
  BY DEF RegistryTypeOK, Numbers
<1>1. CASE \E c \in Client, a \in Auc : LogModel(c, a)
  <2>. PICK c \in Client, a \in Auc : LogModel(c, a)
    BY <1>1
  <2>. DEFINE new == [stage |-> "None", auc |-> a, tag |-> 0, by |-> c, granted |-> NoClient]
  <2>1. new \in Version
    BY ClientsAreJobs, ClientsAreKnown DEF Version, Stage
  <2>2. /\ Numbers' = Numbers \cup {Len(versions) + 1}
        /\ versions'[Len(versions) + 1].granted = NoClient
        /\ \A v \in Numbers : versions'[v] = versions[v]
        /\ Len(versions') # Len(versions)
    BY <1>0, <2>1, AppendedVersion DEF LogModel
  <2>3. Promoted' = Promoted
    BY <2>2 DEF Promoted
  <2>4. ~Promote
    BY <1>0, <2>2 DEF Promote
  <2>. QED  BY <2>2, <2>3, <2>4 DEF Promoted
<1>2. ASSUME RegistryStep, ~(\E c \in Client, a \in Auc : LogModel(c, a))
      PROVE  /\ \A v \in Numbers : v \in Numbers' /\ versions'[v].auc = versions[v].auc
             /\ \/ /\ ~Promote /\ Promoted' = Promoted
                   /\ \A v \in Promoted : versions'[v].granted = versions[v].granted
                \/ /\ Promote
                   /\ Promoted' = Promoted \cup {promo.req.target}
                   /\ versions'[promo.req.target].granted = promo.req.client
                   /\ \A v \in Numbers \ {promo.req.target} : versions'[v] = versions[v]
  <2>0. Numbers' = Numbers
    BY <1>0, <1>2, ChangedInPlace
  <2>1. CASE Promote
    <3>. DEFINE n == promo.req.target
    <3>1. n \in Numbers /\ promo.req.client # NoClient
      <4>1. promo.req.client \in Client
        BY DEF RegistryTypeOK, Handler, Request
      <4>. QED  BY <2>1, <4>1, ClientsAreKnown DEF Promote, TargetsOK, Staged
    <3>2. /\ versions'[n].granted = promo.req.client
          /\ versions'[n].auc = versions[n].auc
          /\ \A v \in Numbers \ {n} : versions'[v] = versions[v]
      BY <1>0, <2>1, <3>1 DEF Promote, Version
    <3>3. Promoted' = Promoted \cup {n}
      BY <2>0, <3>1, <3>2 DEF Promoted
    <3>. QED  BY <2>0, <2>1, <3>2, <3>3
  <2>2. ASSUME ~Promote
        PROVE  \A v \in Numbers : /\ versions'[v].granted = versions[v].granted
                                  /\ versions'[v].auc = versions[v].auc
    <3>1. CASE \E c \in Client : StageLatest(c)
      BY <1>0, <3>1 DEF StageLatest, Version
    <3>2. CASE \E c \in Client : TagVersion(run[c].version, run[c].auc)
      BY <1>0, <3>2 DEF TagVersion, Version
    <3>3. CASE ArchivePrevious
      BY <1>0, <3>3 DEF ArchivePrevious, Retired, Version
    <3>4. CASE versions' = versions
      BY <3>4
    <3>. QED
      BY <1>2, <2>2, <3>1, <3>2, <3>3, <3>4
      DEF RegistryStep, TakeStaging, Receive, Refuse, PassGates, PromoteFails,
          RestartService
  <2>. QED  BY <2>0, <2>1, <2>2 DEF Promoted
<1>3. CASE UNCHANGED registryVars
  <2>1. ~Promote
    <3>1. Promote => promo.step = "promote" /\ promo'.step = "idle"
      BY DEF Promote, IdleHandler
    <3>. QED  BY <1>3, <3>1 DEF registryVars
  <2>. QED  BY <1>3, <2>1 DEF registryVars, Promoted, Numbers
<1>. QED  BY <1>1, <1>2, <1>3

\* What a job is does not change once it is queued.
LEMMA KeysStay ==
    ASSUME TypeOK, JobsOK, Next, NEW j \in Job, job[j].status # "absent"
    PROVE  job'[j].status # "absent" /\ job'[j].key = job[j].key
<1>0. job \in [Job -> JobRow] /\ run \in [Client -> Run]
  BY DEF TypeOK, QueueTypeOK
<1>1. CASE \E i \in Job, k \in Key : \E target \in Targets(k.kind) : EnqueueJob(i, k, target)
  BY <1>0, <1>1 DEF EnqueueJob
<1>2. CASE \E i \in Job : PickUp(i)
  BY <1>0, <1>2 DEF PickUp, JobRow
<1>3. CASE \E i \in Job, status \in {"lost", "queued", "done"} : Leave(i, status)
  BY <1>0, <1>3 DEF Leave, JobRow
<1>4. CASE AbandonJobs
  BY <1>0, <1>4 DEF AbandonJobs, JobRow
<1>5. CASE job' = job
  BY <1>5
<1>. QED
  BY <1>0, <1>1, <1>2, <1>3, <1>4, <1>5, Frames
  DEF QueueStep, queueVars, GiveUpJob, Leave, ClaimExpires, RetryJob, PushToDlq,
      FinishJob, FailJob, KeyExpires

-----------------------------------------------------------------------------
(* A job that is given up.                                                 *)

\* While nothing expires, a job that was queued keeps its key and its body.  While
\* nothing fails it has a try left whenever it waits, and is given up only without a
\* body, which it does not get back.
LostOK ==
    /\ expiries = 0 =>
          \A j \in Job : job[j].status # "absent" => HasBody(j)
    /\ ~Disturbed =>
          \A j \in Job :
              /\ job[j].status = "queued" => job[j].tries < MaxTries
              /\ job[j].status # "claimed"
              /\ job[j].status = "lost" => ~HasBody(j)

LEMMA LostStep ==
    ASSUME TypeOK, JobsOK, LostOK, Next
    PROVE  LostOK'
<1>. USE TriesAreNat, JobIdsAreFresh DEF HasBody
<1>0. /\ run \in [Client -> Run] /\ job \in [Job -> JobRow] /\ Job \subseteq Client
      /\ keys \in [Key -> Job \cup {NoId}] /\ NoId \notin Job
      /\ \A j \in Job : job[j].status # "absent" => job[j].key \in Key
  BY ClientsAreJobs DEF TypeOK, QueueTypeOK
\* A job keeps its body until its key expires, and never gets another.
<1>1. ASSUME NEW j \in Job, job[j].status # "absent"
      PROVE  /\ job'[j].key = job[j].key
             /\ HasBody(j)' => HasBody(j)
             /\ HasBody(j) /\ ~(\E k \in Key : KeyExpires(k)) => HasBody(j)'
  <2>1. job'[j].key = job[j].key /\ job[j].key \in Key
    BY <1>0, <1>1, KeysStay
  <2>2. \/ keys' = keys
        \/ \E k \in Key : KeyExpires(k)
        \/ \E i \in Job, k \in Key : \E target \in Targets(k.kind) : EnqueueJob(i, k, target)
    BY <1>0, Frames
    DEF QueueStep, queueVars, PickUp, GiveUpJob, ClaimExpires, RetryJob, PushToDlq,
        FinishJob, FailJob, AbandonJobs
  <2>3. CASE keys' = keys
    BY <2>1, <2>3
  <2>4. CASE \E k \in Key : KeyExpires(k)
    BY <1>0, <2>1, <2>4 DEF KeyExpires
  <2>5. CASE \E i \in Job, k \in Key : \E target \in Targets(k.kind) : EnqueueJob(i, k, target)
    <3>. PICK i \in Job, k \in Key : keys[k] = NoId /\ keys' = [keys EXCEPT ![k] = i]
                                     /\ job[i].status = "absent"
      BY <2>5 DEF EnqueueJob, KeyIsSet
    <3>. QED  BY <1>0, <1>1, <2>1
  <2>. QED  BY <2>2, <2>3, <2>4, <2>5
<1>2. ASSUME expiries' = 0, NEW j \in Job, job'[j].status # "absent"
      PROVE  HasBody(j)'
  <2>1. expiries = 0 /\ ~(\E k \in Key : KeyExpires(k))
    BY <1>2, Undisturbed
  <2>2. CASE job[j].status # "absent"
    BY <1>1, <2>1, <2>2 DEF LostOK
  <2>3. CASE job[j].status = "absent"
    <3>1. PICK i \in Job, k \in Key : \E target \in Targets(k.kind) : EnqueueJob(i, k, target)
      BY <1>0, <1>2, <2>3, Frames
      DEF QueueStep, queueVars, PickUp, GiveUpJob, ClaimExpires, Reclaimable, RetryJob,
          PushToDlq, FinishJob, FailJob, Leave, KeyExpires, AbandonJobs, JobsOK, RunningOK,
          JobRow
    <3>2. i = j
      BY <1>0, <1>2, <2>3, <3>1 DEF EnqueueJob
    <3>. QED  BY <1>0, <3>1, <3>2 DEF EnqueueJob
  <2>. QED  BY <2>2, <2>3
<1>3. ASSUME ~Disturbed', NEW j \in Job
      PROVE  /\ job'[j].status = "queued" => job'[j].tries < MaxTries
             /\ job'[j].status # "claimed"
             /\ job'[j].status = "lost" => ~HasBody(j)'
  <2>1. /\ ~Fault /\ ~Crashed
        /\ \A i \in Job :
              /\ job[i].status = "queued" => job[i].tries < MaxTries
              /\ job[i].status # "claimed"
              /\ job[i].status = "lost" => ~HasBody(i)
    BY <1>3, Undisturbed DEF LostOK
  <2>2. CASE job'[j] = job[j]
    BY <1>1, <2>1, <2>2
  <2>3. CASE \E k \in Key : \E target \in Targets(k.kind) : EnqueueJob(j, k, target)
    BY <1>0, <2>3 DEF EnqueueJob
  <2>4. CASE PickUp(j)
    BY <1>0, <2>4 DEF PickUp, JobRow
  <2>5. CASE GiveUpJob(j)
    <3>1. ~HasBody(j) /\ job[j].status # "absent" /\ job'[j].status = "lost"
      BY <1>0, <2>1, <2>5 DEF GiveUpJob, HasTry, JobRow
    <3>2. ~HasBody(j)'
      BY <1>1, <3>1
    <3>. QED  BY <3>1, <3>2
  <2>6. CASE run[j].pc = "failed" /\ RetryJob(j)
    BY <1>0, <2>6 DEF RetryJob, LastTry, Leave, JobRow
  <2>7. CASE FinishJob(j)
    BY <1>0, <2>7 DEF FinishJob, Leave, JobRow
  <2>. QED
    BY <1>0, <2>1, <2>2, <2>3, <2>4, <2>5, <2>6, <2>7, Frames
    DEF QueueStep, queueVars, EnqueueJob, PickUp, GiveUpJob, ClaimExpires, Reclaimable,
        RetryJob, PushToDlq, FinishJob, FailJob, Leave, KeyExpires, JobRow
<1>. QED  BY <1>2, <1>3 DEF LostOK

-----------------------------------------------------------------------------
(* What each kind of job runs.                                             *)

KindsOK ==
    \A j \in Job :
        /\ run[j].pc \in {"load", "log_metrics"} => job[j].key.kind = "replay_test"
        /\ run[j].pc \in {"train", "stage", "tag", "compare"} => job[j].key.kind = "retrain"
        /\ run[j].pc \in Waiting => job[j].key.kind # "replay_test"

LEMMA KindsStep ==
    ASSUME TypeOK, StagesOK, JobsOK, KindsOK, Next
    PROVE  KindsOK'
<1>. SUFFICES ASSUME NEW j \in Job, KindsOK
              PROVE  /\ run'[j].pc \in {"load", "log_metrics"}
                           => job'[j].key.kind = "replay_test"
                     /\ run'[j].pc \in {"train", "stage", "tag", "compare"}
                           => job'[j].key.kind = "retrain"
                     /\ run'[j].pc \in Waiting => job'[j].key.kind # "replay_test"
  BY DEF KindsOK
<1>. USE DEF KindsOK, Waiting
<1>0. /\ run \in [Client -> Run] /\ job \in [Job -> JobRow] /\ j \in Client /\ j # Cli
      /\ Job \subseteq Client
  BY ClientsAreJobs DEF TypeOK, QueueTypeOK
<1>1. CASE job'[j] = job[j] /\ run'[j] = run[j]
  BY <1>1
<1>2. CASE Reclaim(j) \/ Drop(j)
           \/ \E k \in Key : \E target \in Targets(k.kind) : Dispatch(j, k, target)
  <2>1. run'[j].pc = "idle"
    BY <1>0, <1>2
    DEF Reclaim, ClaimExpires, Reclaimable, Drop, GiveUpJob, Dispatch, EnqueueJob,
        JobsOK, RunningOK
  <2>. QED  BY <2>1
<1>3. CASE Start(j)
  <2>1. run'[j].pc = FirstStep(job[j].key.kind) /\ job'[j].key = job[j].key
    BY <1>0, <1>3 DEF Start, PickUp, JobRow
  <2>2. job[j].key.kind \in Kind
    BY <1>3, KeysAreDispatches DEF Start, PickUp, TypeOK, QueueTypeOK
  <2>. QED  BY <2>1, <2>2 DEF FirstStep, Kind
<1>4. CASE Retry(j) \/ DeadLetter(j) \/ DeadLetterFails(j) \/ Finish(j) \/ JobTimeout(j)
           \/ WorkerCrash
  <2>1. run'[j].pc \in {"idle", "return"}
    BY <1>0, <1>4
    DEF Retry, DeadLetter, DeadLetterFails, Finish, JobTimeout, WorkerCrash, Goto,
        IdleRun, Run
  <2>. QED  BY <2>1
<1>5. ASSUME job'[j] = job[j],
             run'[j].pc \in {"failed", "return", run[j].pc}
      PROVE  /\ run'[j].pc \in {"load", "log_metrics"} => job'[j].key.kind = "replay_test"
             /\ run'[j].pc \in {"train", "stage", "tag", "compare"}
                   => job'[j].key.kind = "retrain"
             /\ run'[j].pc \in Waiting => job'[j].key.kind # "replay_test"
  BY <1>5
<1>6. CASE ReplayLoad(j) \/ ReplayLog(j) \/ Compare(j) \/ Post(j) \/ HttpTimeout(j)
  BY <1>0, <1>6
  DEF ReplayLoad, ReplayLog, Compare, Post, HttpTimeout, Goto, Raise, Registry, Local,
      queueVars, Run
<1>7. CASE TrainingStep(j)
  <2>1. job' = job
    BY <1>0, <1>7, TrainingFrame DEF queueVars
  <2>. QED
    BY <1>0, <1>7, <2>1
    DEF TrainingStep, Train, TrainFails, StageNewest, Tag, Goto, Raise, Run
<1>8. CASE ServiceRestart
  BY <1>0, <1>5, <1>8 DEF ServiceRestart, Registry, queueVars, Run
<1>9. CASE ServiceStep
  <2>. QED  BY <1>5, <1>9, AnswerFrame DEF Ending
<1>. QED
  BY <1>1, <1>2, <1>3, <1>4, <1>6, <1>7, <1>8, <1>9, OthersStay DEF WorkerStep

-----------------------------------------------------------------------------
(* What there is to load.                                                  *)

\* There is always a version to load: the one in Staging is newer than the one in
\* Production and than the one that is being promoted, so that archiving the old
\* version never empties both stages.
LoadOK ==
    /\ In("Staging") \cup In("Production") # {}
    /\ \A s \in In("Staging"), p \in In("Production") : s > p
    /\ promo.step # "idle" =>
          /\ In("Staging") # {}
          /\ \A s \in In("Staging") : s >= promo.req.target
    /\ promo.step = "archive" => promo.req.target > promo.prev

LEMMA LoadStep ==
    ASSUME TypeOK, StagesOK, TargetsOK, LoadOK, Next
    PROVE  LoadOK'
<1>0. /\ RegistryTypeOK /\ run \in [Client -> Run]
      /\ versions \in Seq(Version) /\ Len(versions) \in Nat
      /\ versions \in [Numbers -> Version] /\ Numbers \subseteq Nat
      /\ \A stage : In(stage) \subseteq Numbers
  BY DEF TypeOK, RegistryTypeOK, Numbers, In
<1>1. RegistryStep \/ UNCHANGED registryVars
  BY <1>0, Frames
<1>2. ASSUME In("Staging")' = In("Staging"), In("Production")' = In("Production"),
             promo' = promo \/ promo' = IdleHandler
      PROVE  LoadOK'
  BY <1>2 DEF LoadOK, IdleHandler
<1>3. CASE \E c \in Client, a \in Auc : LogModel(c, a)
  <2>. PICK c \in Client, a \in Auc : LogModel(c, a)
    BY <1>3
  <2>. DEFINE new == [stage |-> "None", auc |-> a, tag |-> 0, by |-> c, granted |-> NoClient]
  <2>1. new \in Version
    BY ClientsAreJobs, ClientsAreKnown DEF Version, Stage
  <2>2. /\ Numbers' = Numbers \cup {Len(versions) + 1}
        /\ versions'[Len(versions) + 1].stage = "None"
        /\ \A v \in Numbers : versions'[v] = versions[v]
    BY <1>0, <2>1, AppendedVersion DEF LogModel
  <2>3. In("Staging")' = In("Staging") /\ In("Production")' = In("Production")
    BY <2>2 DEF In
  <2>. QED  BY <1>2, <2>3 DEF LogModel
<1>4. ASSUME RegistryStep, ~(\E c \in Client, a \in Auc : LogModel(c, a))
      PROVE  LoadOK'
  <2>0. Numbers' = Numbers
    BY <1>0, <1>4, ChangedInPlace
  <2>1. CASE \E c \in Client : StageLatest(c)
    <3>. DEFINE last == Len(versions)
    <3>1. last \in Numbers
      BY <1>0 DEF Numbers, LoadOK
    <3>2. /\ versions'[last].stage = "Staging"
          /\ \A v \in Numbers \ {last} :
                versions'[v].stage = IF versions[v].stage = "Staging" THEN "Archived"
                                     ELSE versions[v].stage
      BY <1>0, <2>1, <3>1 DEF StageLatest, ArchivedByStaging, Version
    <3>3. In("Staging")' = {last} /\ In("Production")' \subseteq In("Production") \ {last}
      BY <2>0, <3>1, <3>2 DEF In
    <3>4. \A v \in Numbers : v <= last /\ (v # last => v < last)
      <4>1. last \in Nat
        BY <1>0
      <4>. QED  BY <4>1 DEF Numbers
    <3>5. promo' = promo /\ (promo.step # "idle" => promo.req.target \in Numbers)
      BY <2>1 DEF StageLatest, TargetsOK, Staged
    <3>. QED  BY <1>0, <3>3, <3>4, <3>5 DEF LoadOK
  <2>2. CASE \E c \in Client : TagVersion(run[c].version, run[c].auc)
    <3>1. \A v \in Numbers : versions'[v].stage = versions[v].stage
      BY <1>0, <2>2 DEF TagVersion, Version
    <3>2. In("Staging")' = In("Staging") /\ In("Production")' = In("Production")
      BY <2>0, <3>1 DEF In
    <3>. QED  BY <1>2, <2>2, <3>2 DEF TagVersion
  <2>3. ASSUME NEW req \in inbox, PassGates(req)
        PROVE  LoadOK'
    <3>1. In("Staging")' = In("Staging") /\ In("Production")' = In("Production")
      BY <2>0, <2>3 DEF PassGates, In
    <3>2. req.target \in In("Staging") /\ In("Staging") \subseteq {req.target}
      BY <2>3 DEF PassGates, Gate, TargetsOK, In, StagesOK
    <3>3. In("Production") # {} => Latest("Production") \in In("Production")
      BY <1>0, LatestIsTheOne DEF StagesOK, OneProduction
    <3>4. /\ promo'.req = req /\ promo'.prev = Latest("Production")
          /\ promo'.step = "archive" => In("Production") # {}
      BY <2>3 DEF PassGates
    <3>. QED  BY <1>0, <3>1, <3>2, <3>3, <3>4 DEF LoadOK
  <2>4. CASE ArchivePrevious
    <3>1. /\ promo.step = "archive" /\ promo'.step = "promote"
          /\ promo'.req = promo.req
      BY <1>0, <2>4 DEF ArchivePrevious, RegistryTypeOK, Handler
    <3>2. /\ promo.prev \in Numbers /\ promo.req.target \in Numbers
          /\ promo.prev \notin In("Staging")
      BY <1>0, <3>1 DEF LoadOK, TargetsOK, Staged
    <3>3. \A v \in Numbers : versions'[v].stage = IF v = promo.prev THEN "Archived"
                                                  ELSE versions[v].stage
      BY <1>0, <2>4 DEF ArchivePrevious, Retired, Version
    <3>4. In("Staging")' = In("Staging") /\ In("Production")' \subseteq In("Production")
      BY <2>0, <3>2, <3>3 DEF In
    <3>. QED  BY <3>1, <3>4 DEF LoadOK
  <2>5. CASE Promote
    <3>. DEFINE n == promo.req.target
    <3>1. n \in Numbers /\ promo'.step = "idle" /\ promo.step = "promote"
      BY <2>5 DEF Promote, IdleHandler, TargetsOK, Staged
    <3>2. /\ versions'[n].stage = "Production"
          /\ \A v \in Numbers \ {n} : versions'[v].stage = versions[v].stage
      BY <1>0, <2>5, <3>1 DEF Promote, Version
    <3>3. In("Staging")' = In("Staging") \ {n} /\ In("Production")' = {n}
      BY <2>0, <3>1, <3>2 DEF In, StagesOK
    <3>. QED  BY <1>0, <3>1, <3>3 DEF LoadOK
  <2>6. CASE versions' = versions /\ (promo' = promo \/ promo' = IdleHandler)
    BY <1>2, <2>0, <2>6 DEF In
  <2>. QED
    BY <1>4, <2>1, <2>2, <2>3, <2>4, <2>5, <2>6
    DEF RegistryStep, TakeStaging, Receive, Refuse, PromoteFails, RestartService
<1>5. CASE UNCHANGED registryVars
  BY <1>2, <1>5 DEF registryVars, In, Numbers
<1>. QED  BY <1>1, <1>3, <1>4, <1>5

\* What load_model finds, with or without a Production version.
LEMMA LoadFinds ==
    ASSUME TypeOK, StagesOK, LoadOK
    PROVE  VersionToLoad \in In("Production") \cup In("Staging")
<1>1. versions \in Seq(Version)
  BY DEF TypeOK, RegistryTypeOK
<1>. QED  BY <1>1, LatestIsTheOne DEF VersionToLoad, StagesOK, OneProduction, LoadOK

-----------------------------------------------------------------------------
(* A replay that is dead-lettered.                                         *)

\* Each try of a replay that did not end well cost a fault, as long as no run was
\* left open.
RetriesOK ==
    ~activeRun /\ crashes = 0 =>
        \A j \in Job :
            job[j].status # "absent" /\ job[j].key.kind = "replay_test" =>
                /\ job[j].status # "claimed"
                /\ (job[j].status = "queued" \/ run[j].pc = "failed" \/ DeadLettered(j))
                      => job[j].tries <= faults
                /\ run[j].pc \in {"load", "log_metrics"} => job[j].tries <= faults + 1

LEMMA RetriesStep ==
    ASSUME TypeOK, StagesOK, JobsOK, KindsOK, LoadOK, RetriesOK, Next
    PROVE  RetriesOK'
<1>0. /\ run \in [Client -> Run] /\ job \in [Job -> JobRow] /\ Job \subseteq Client
      /\ Cli \notin Job /\ MaxTries \in Nat
      /\ \A j \in Job : job[j].tries \in Nat
      /\ faults \in Nat /\ faults' \in Nat /\ faults' >= faults
  <2>1. job \in [Job -> JobRow] /\ \A j \in Job : job[j].tries \in Nat
    BY DEF TypeOK, QueueTypeOK, JobRow
  <2>. QED
    BY <2>1, ClientsAreJobs, TriesAreNat, WorkerBounds, Undisturbed DEF TypeOK
<1>. DEFINE Cheap(j) ==
        /\ job[j].status # "claimed"
        /\ (job[j].status = "queued" \/ run[j].pc = "failed" \/ DeadLettered(j))
              => job[j].tries <= faults
        /\ run[j].pc \in {"load", "log_metrics"} => job[j].tries <= faults + 1
<1>. SUFFICES ASSUME ~activeRun', crashes' = 0, NEW j \in Job,
                     job'[j].status # "absent", job'[j].key.kind = "replay_test"
              PROVE  Cheap(j)'
  BY DEF RetriesOK
<1>1. crashes = 0 /\ ~Crashed
  BY Undisturbed
<1>2. ~activeRun
  <2>1. activeRun' \in {activeRun, TRUE} \/ WorkerCrash
    BY DEF Next, WorkerStep, TrainingStep, ServiceStep, Dispatch, Start, Drop, Retry,
           DeadLetter, DeadLetterFails, Finish, JobTimeout, Reclaim, DayPasses, ReplayLoad,
           ReplayLog, Train, TrainFails, StageNewest, Tag, Compare, MakeTrain, Post,
           Refused, Passed, Archived, PromotedAndAnswered, TransitionFails, HttpTimeout,
           ServiceRestart, Registry, Local
  <2>. QED  BY <1>1, <2>1 DEF WorkerCrash, TypeOK
<1>3. ASSUME job[j].status # "absent", job[j].key.kind = "replay_test"
      PROVE  Cheap(j)
  BY <1>1, <1>2, <1>3 DEF RetriesOK
<1>4. CASE \E k \in Key : \E target \in Targets(k.kind) : Dispatch(j, k, target)
  <2>1. /\ job'[j].status = "queued" /\ job'[j].tries = 0
        /\ run'[j].pc = "idle" /\ DeadLettered(j)' = DeadLettered(j)
    BY <1>0, <1>4 DEF Dispatch, EnqueueJob, DeadLettered, JobsOK, RunningOK
  <2>. QED  BY <1>0, <2>1
<1>. SUFFICES ASSUME ~(\E k \in Key : \E target \in Targets(k.kind) : Dispatch(j, k, target))
              PROVE  Cheap(j)'
  BY <1>4
<1>5. CASE DeadLetter(j)
  <2>1. /\ job' = job /\ run[j].pc = "failed" /\ run'[j].pc = "return"
    BY <1>0, <1>5 DEF DeadLetter, PushToDlq, Goto, Run
  <2>2. job[j].tries <= faults /\ job[j].status # "claimed"
    BY <1>3, <2>1
  <2>. QED  BY <1>0, <2>1, <2>2
<1>. SUFFICES ASSUME ~DeadLetter(j) PROVE Cheap(j)'
  BY <1>5
<1>6. DeadLettered(j)' <=> DeadLettered(j)
  BY DeadLetters
<1>7. CASE job'[j] = job[j] /\ run'[j] = run[j]
  BY <1>0, <1>3, <1>6, <1>7
<1>8. CASE Start(j)
  <2>1. /\ job[j].status = "queued" /\ job'[j].status = "running"
        /\ job'[j].tries = job[j].tries + 1 /\ job'[j].key = job[j].key
        /\ run'[j].pc = FirstStep(job[j].key.kind)
        /\ job[j].tries < MaxTries
    BY <1>0, <1>8 DEF Start, PickUp, HasTry, JobRow
  <2>2. ~DeadLettered(j)
    BY <1>0, <2>1 DEF DeadLettered, JobsOK, DeadLetteredOnce
  <2>3. run'[j].pc = "load" /\ job[j].tries <= faults
    BY <1>3, <2>1 DEF FirstStep
  <2>. QED  BY <1>0, <1>6, <2>1, <2>2, <2>3
<1>9. CASE Drop(j) \/ Reclaim(j) \/ Retry(j) \/ DeadLetterFails(j) \/ Finish(j)
           \/ JobTimeout(j)
  <2>1. \E status \in {"lost", "queued", "done"} : Leave(j, status)
        /\ (run'[j].pc = "idle" \/ run' = run)
    BY <1>0, <1>9
    DEF Drop, GiveUpJob, Leave, Reclaim, ClaimExpires, Retry, RetryJob, DeadLetterFails,
        Finish, FinishJob, JobTimeout, FailJob, IdleRun
  <2>2. /\ job'[j].tries = job[j].tries /\ job'[j].key = job[j].key
        /\ job'[j].status \in {"lost", "queued", "done"}
    BY <1>0, <2>1 DEF Leave, JobRow
  <2>3. job[j].status # "absent"
    BY <1>9
    DEF Drop, GiveUpJob, Reclaim, ClaimExpires, Reclaimable, Retry, DeadLetterFails,
        Finish, JobTimeout, JobsOK, RunningOK, Waiting
  <2>4. Cheap(j)
    BY <1>3, <2>2, <2>3
  <2>5. job'[j].status = "queued" => run[j].pc = "failed"
    <3>1. ~Reclaim(j)
      BY <2>4 DEF Reclaim, ClaimExpires, Reclaimable
    <3>. QED
      BY <1>0, <1>9, <3>1
      DEF Drop, GiveUpJob, Leave, Retry, DeadLetterFails, Finish, FinishJob, JobTimeout,
          FailJob, JobRow
  <2>. QED  BY <1>0, <1>6, <2>1, <2>2, <2>4, <2>5
<1>10. CASE ReplayLoad(j) \/ ReplayLog(j)
  <2>1. job' = job /\ run[j].pc \in {"load", "log_metrics"}
    BY <1>10 DEF ReplayLoad, ReplayLog, Local, queueVars
  <2>2. Cheap(j)
    BY <1>3, <2>1
  <2>3. ~DeadLettered(j)
    BY <2>1 DEF DeadLettered, JobsOK
  <2>4. VersionToLoad # 0
    BY LoadFinds DEF In, Numbers
  <2>5. run'[j].pc \in {"log_metrics", "return"} \/ (run'[j].pc = "failed" /\ Fault)
    BY <1>0, <1>2, <1>10, <2>4 DEF ReplayLoad, ReplayLog, Goto, Raise, Run
  <2>6. job[j].status = "running"
    BY <2>1 DEF JobsOK, RunningOK
  <2>. QED  BY <1>0, <1>6, <2>1, <2>2, <2>3, <2>5, <2>6 DEF Fault
<1>11. CASE Compare(j) \/ Post(j) \/ HttpTimeout(j)
  <2>1. job' = job /\ run[j].pc \in {"compare"} \cup Waiting
    BY <1>11 DEF Compare, Post, HttpTimeout, Registry, queueVars, Waiting
  <2>. QED  BY <2>1 DEF KindsOK
<1>12. CASE TrainingStep(j)
  <2>1. job' = job /\ run[j].pc \in {"train", "stage", "tag"}
    BY <1>0, <1>12, TrainingFrame
    DEF TrainingStep, Train, TrainFails, StageNewest, Tag, queueVars
  <2>. QED  BY <2>1 DEF KindsOK
<1>13. CASE ServiceStep
  <2>1. job' = job /\ (run'[j] = run[j] \/ run[j].pc = "sent")
    BY <1>13, AnswerFrame
  <2>2. run'[j] = run[j]
    BY <2>1 DEF KindsOK, Waiting
  <2>. QED  BY <1>7, <2>1, <2>2
<1>14. CASE WorkerCrash \/ ServiceRestart
  BY <1>1, <1>14 DEF WorkerCrash, ServiceRestart
<1>. QED
  BY <1>7, <1>8, <1>9, <1>10, <1>11, <1>12, <1>13, <1>14, OthersStay DEF WorkerStep

-----------------------------------------------------------------------------
(* Whose request, and whose version.                                       *)

Pending == inbox \cup (IF promo.step = "idle" THEN {} ELSE {promo.req})

\* A request comes from one try of its job: as long as that try lasts, the job
\* has sent it, waits with it at most, and asks for nothing else.
RequestsOK ==
    \A req \in Pending :
        /\ req.client \in Job
        /\ req.try <= job[req.client].tries
        /\ req.try = job[req.client].tries =>
              /\ run[req.client].pc \notin Blocking \cup {"post"}
              /\ run[req.client].pc = "sent" => req.target = run[req.client].version

\* Where requests come from.
LEMMA PendingFrame ==
    ASSUME TypeOK, Next
    PROVE  \/ Pending' \subseteq Pending
           \/ \E j \in Job : Post(j) /\ Pending' \subseteq Pending \cup {RequestOf(j)}
<1>0. run \in [Client -> Run] /\ promo \in Handler
  BY DEF TypeOK, RegistryTypeOK
<1>1. CASE \E j \in Job : Post(j)
  BY <1>1 DEF Post, Receive, Pending
<1>2. CASE UNCHANGED <<inbox, promo>>
  BY <1>2 DEF Pending
<1>3. CASE ServiceStep
  <2>1. CASE \E req \in inbox : Refused(req)
    BY <2>1 DEF Refused, Refuse, Pending
  <2>2. CASE \E req \in inbox : Passed(req)
    BY <2>2 DEF Passed, PassGates, Pending
  <2>3. CASE Archived
    BY <1>0, <2>3 DEF Archived, ArchivePrevious, Pending, Handler
  <2>4. CASE PromotedAndAnswered \/ TransitionFails
    BY <2>4 DEF PromotedAndAnswered, Promote, TransitionFails, PromoteFails, Pending,
                IdleHandler
  <2>. QED  BY <1>3, <2>1, <2>2, <2>3, <2>4 DEF ServiceStep
<1>4. CASE ServiceRestart
  BY <1>4 DEF ServiceRestart, RestartService, Pending, IdleHandler
<1>5. CASE \E c \in Client : TrainingStep(c)
  BY <1>2, <1>5, <1>0, TrainingFrame DEF LogModel, StageLatest, TagVersion, registryVars
<1>6. ASSUME NEW j \in Job, WorkerStep(j), ~Post(j)
      PROVE  UNCHANGED <<inbox, promo>>
  BY <1>6
  DEF WorkerStep, Start, Drop, Retry, DeadLetter, DeadLetterFails, Finish, JobTimeout,
      ReplayLoad, ReplayLog, Compare, TakeStaging, HttpTimeout, Local, registryVars
<1>. QED
  BY <1>1, <1>2, <1>3, <1>4, <1>5, <1>6
  DEF Next, Dispatch, Reclaim, MakeTrain, DayPasses, WorkerCrash, Local, registryVars

LEMMA RequestsStep ==
    ASSUME TypeOK, StagesOK, JobsOK, RequestsOK, Next
    PROVE  RequestsOK'
<1>0. /\ run \in [Client -> Run] /\ job \in [Job -> JobRow] /\ Job \subseteq Client
      /\ Cli \notin Job /\ \A j \in Job : job[j].tries \in Nat
  <2>1. job \in [Job -> JobRow] /\ \A j \in Job : job[j].tries \in Nat
    BY DEF TypeOK, QueueTypeOK, JobRow
  <2>. QED  BY <2>1, ClientsAreJobs DEF TypeOK
<1>. DEFINE Current(j, req) ==
        /\ req.try <= job[j].tries
        /\ req.try = job[j].tries => /\ run[j].pc \notin Blocking \cup {"post"}
                                     /\ run[j].pc = "sent" => req.target = run[j].version
\* What a step does to a job with a pending request.
<1>1. ASSUME NEW j \in Job, NEW req \in Request, Current(j, req)
      PROVE  Current(j, req)'
  <2>. USE DEF Blocking
  <2>0. req.try \in Nat
    BY DEF Request
  <2>1. CASE job'[j] = job[j] /\ run'[j] = run[j]
    BY <1>1, <2>1
  <2>2. CASE \E k \in Key : \E target \in Targets(k.kind) : Dispatch(j, k, target)
    <3>1. /\ job[j].tries = 0 /\ job'[j].tries = 0 /\ run'[j].pc = "idle"
      BY <1>0, <2>2 DEF Dispatch, EnqueueJob, JobsOK, RunningOK
    <3>. QED  BY <1>1, <3>1
  <2>3. CASE Start(j)
    <3>1. job'[j].tries = job[j].tries + 1
      BY <1>0, <2>3 DEF Start, PickUp, JobRow
    <3>. QED  BY <1>0, <1>1, <2>0, <3>1
  <2>4. CASE Drop(j) \/ Reclaim(j) \/ Retry(j) \/ DeadLetterFails(j) \/ Finish(j)
             \/ JobTimeout(j)
    <3>1. \E status \in {"lost", "queued", "done"} : Leave(j, status)
          /\ (run'[j].pc = "idle" \/ run' = run)
      BY <1>0, <2>4
      DEF Drop, GiveUpJob, Leave, Reclaim, ClaimExpires, Retry, RetryJob,
          DeadLetterFails, Finish, FinishJob, JobTimeout, FailJob, IdleRun
    <3>2. job'[j].tries = job[j].tries
      BY <1>0, <3>1 DEF Leave, JobRow
    <3>. QED  BY <1>1, <3>1, <3>2
  <2>5. CASE WorkerCrash
    <3>1. job'[j].tries = job[j].tries /\ run'[j].pc = "idle"
      BY <1>0, <2>5 DEF WorkerCrash, AbandonJobs, TriesKept, JobRow, IdleRun
    <3>. QED  BY <1>1, <3>1
  <2>6. ASSUME job'[j] = job[j],
               \/ run'[j].pc \in {"idle", "failed", "return"}
               \/ run[j].pc \in Blocking \cup {"post"}
        PROVE  Current(j, req)'
    BY <1>1, <2>6
  <2>7. CASE DeadLetter(j) \/ ReplayLoad(j) \/ ReplayLog(j) \/ Compare(j) \/ Post(j)
             \/ HttpTimeout(j)
    <3>1. job' = job
      BY <2>7 DEF DeadLetter, PushToDlq, ReplayLoad, ReplayLog, Compare, Post, HttpTimeout,
                  Registry, Local, queueVars
    <3>2. \/ run'[j].pc \in {"idle", "failed", "return"}
          \/ run[j].pc \in Blocking \cup {"post"}
      BY <1>0, <2>7 DEF DeadLetter, ReplayLoad, ReplayLog, Compare, Post, HttpTimeout,
                        Goto, Run
    <3>. QED  BY <2>6, <3>1, <3>2
  <2>8. CASE TrainingStep(j)
    <3>1. job' = job
      BY <1>0, <2>8, TrainingFrame DEF queueVars
    <3>2. run[j].pc \in Blocking
      BY <2>8 DEF TrainingStep, Train, TrainFails, StageNewest, Tag
    <3>. QED  BY <2>6, <3>1, <3>2
  <2>9. CASE ServiceStep
    BY <2>1, <2>6, <2>9, AnswerFrame DEF Ending
  <2>10. CASE ServiceRestart
    <3>1. job' = job /\ (run'[j] = run[j] \/ run'[j].pc = "failed")
      BY <1>0, <2>10 DEF ServiceRestart, Registry, queueVars, Run
    <3>. QED  BY <2>1, <2>6, <3>1
  <2>. QED
    BY <2>1, <2>2, <2>3, <2>4, <2>5, <2>7, <2>8, <2>9, <2>10, OthersStay DEF WorkerStep
<1>2. \A req \in Pending : req \in Request
  BY DEF Pending, TypeOK, RegistryTypeOK, Handler
<1>3. ASSUME NEW j \in Job, Post(j), NEW req, req = RequestOf(j)
      PROVE  req.client \in Job /\ Current(req.client, req)'
  <2>1. /\ job' = job /\ run'[j].pc = "sent" /\ run'[j].version = run[j].version
    BY <1>0, <1>3 DEF Post, Registry, queueVars, Goto, Run
  <2>. QED  BY <1>0, <1>3, <2>1 DEF RequestOf, Blocking
<1>4. ASSUME NEW req \in Pending
      PROVE  req.client \in Job /\ Current(req.client, req)'
  BY <1>1, <1>2, <1>4 DEF RequestsOK
<1>. HIDE DEF Current
<1>5. ASSUME NEW req \in Pending'
      PROVE  req.client \in Job /\ Current(req.client, req)'
  <2>1. CASE req \in Pending
    BY <1>4, <2>1
  <2>2. CASE \E j \in Job : Post(j) /\ req = RequestOf(j)
    BY <1>3, <2>2
  <2>. QED  BY <1>5, <2>1, <2>2, PendingFrame
<1>. QED  BY <1>5 DEF RequestsOK, Current

\* A version in Production was promoted, and a version some job logged is that of
\* a retrain.
OwnersOK ==
    /\ In("Production") \subseteq Promoted
    /\ \A j \in Job, v \in Numbers :
          versions[v].by = j => job[j].status # "absent" /\ job[j].key.kind = "retrain"

LEMMA OwnersStep ==
    ASSUME TypeOK, StagesOK, JobsOK, TargetsOK, KindsOK, OwnersOK, Next
    PROVE  OwnersOK'
<1>0. /\ RegistryTypeOK /\ run \in [Client -> Run]
      /\ versions \in Seq(Version) /\ Len(versions) \in Nat
      /\ versions \in [Numbers -> Version]
  BY DEF TypeOK, RegistryTypeOK, Numbers
<1>1. RegistryStep \/ UNCHANGED registryVars
  BY <1>0, Frames
<1>2. ASSUME NEW j \in Job, NEW v \in Numbers, versions[v].by = j
      PROVE  job'[j].status # "absent" /\ job'[j].key.kind = "retrain"
  BY <1>2, KeysStay DEF OwnersOK
<1>3. CASE \E c \in Client, a \in Auc : run[c].pc = "train" /\ LogModel(c, a)
  <2>. PICK c \in Client, a \in Auc : run[c].pc = "train" /\ LogModel(c, a)
    BY <1>3
  <2>. DEFINE new == [stage |-> "None", auc |-> a, tag |-> 0, by |-> c, granted |-> NoClient]
              n == Len(versions) + 1
  <2>1. new \in Version
    BY ClientsAreJobs, ClientsAreKnown DEF Version, Stage
  <2>2. /\ Numbers' = Numbers \cup {n} /\ versions'[n] = new
        /\ \A v \in Numbers : versions'[v] = versions[v]
    BY <1>0, <2>1, AppendedVersion DEF LogModel
  <2>3. In("Production")' = In("Production") /\ Promoted' = Promoted
    BY <2>2 DEF In, Promoted
  <2>4. c \in Job => job'[c].status # "absent" /\ job'[c].key.kind = "retrain"
    <3>1. c \in Job => job[c].status # "absent" /\ job[c].key.kind = "retrain"
      BY DEF JobsOK, RunningOK, KindsOK
    <3>. QED  BY <3>1, KeysStay
  <2>. QED  BY <1>2, <2>2, <2>3, <2>4 DEF OwnersOK
<1>4. ASSUME RegistryStep, ~(\E c \in Client, a \in Auc : run[c].pc = "train" /\ LogModel(c, a))
      PROVE  OwnersOK'
  <2>0. /\ Numbers' = Numbers
        /\ \A v \in Numbers : versions'[v].by = versions[v].by
    BY <1>0, <1>4, ChangedInPlace, VersionsGrow
  <2>1. CASE Promote
    <3>. DEFINE n == promo.req.target
    <3>1. n \in Numbers /\ promo.req.client # NoClient
      <4>1. promo.req.client \in Client
        BY <1>0 DEF RegistryTypeOK, Handler, Request
      <4>. QED  BY <2>1, <4>1, ClientsAreKnown DEF Promote, TargetsOK, Staged
    <3>2. /\ versions'[n].granted = promo.req.client
          /\ \A v \in Numbers \ {n} : versions'[v] = versions[v]
      BY <1>0, <2>1, <3>1 DEF Promote, Version
    <3>3. In("Production")' \subseteq Promoted'
      BY <2>0, <3>1, <3>2 DEF OwnersOK, In, Promoted
    <3>. QED  BY <1>2, <2>0, <3>3 DEF OwnersOK
  <2>2. CASE ~Promote
    <3>1. \A v \in Numbers : /\ versions'[v].granted = versions[v].granted
                             /\ versions'[v].stage = "Production"
                                   => versions[v].stage = "Production"
      <4>1. CASE \E c \in Client : StageLatest(c)
        BY <1>0, <4>1 DEF StageLatest, Version
      <4>2. CASE \E c \in Client : TagVersion(run[c].version, run[c].auc)
        BY <1>0, <4>2 DEF TagVersion, Version
      <4>3. CASE ArchivePrevious
        BY <1>0, <4>3 DEF ArchivePrevious, Retired, Version
      <4>4. CASE versions' = versions
        BY <4>4
      <4>. QED
        BY <1>4, <2>2, <4>1, <4>2, <4>3, <4>4
        DEF RegistryStep, TakeStaging, Receive, Refuse, PassGates, PromoteFails,
            RestartService
    <3>2. In("Production")' \subseteq Promoted'
      BY <2>0, <3>1 DEF OwnersOK, In, Promoted
    <3>. QED  BY <1>2, <2>0, <3>2 DEF OwnersOK
  <2>. QED  BY <2>1, <2>2
<1>5. CASE UNCHANGED registryVars
  BY <1>2, <1>5 DEF OwnersOK, registryVars, In, Promoted, Numbers
<1>. QED  BY <1>1, <1>3, <1>4, <1>5

-----------------------------------------------------------------------------
(* What was promoted while nothing failed.                                 *)

Awaited(req) ==
    /\ req.client \in Job
    /\ run[req.client].pc = "sent"
    /\ job[req.client].tries = req.try

Succeeded(c) ==
    /\ c \in Job
    /\ run[c].pc = "return" \/ job[c].status = "done"
    /\ ~DeadLettered(c)

\* While no answer is lost, each request under way is the one its job waits for,
\* and each promoted version is that of one job that ended well.
SentOK ==
    ~Disturbed =>
        /\ \A req \in inbox : Awaited(req)
        /\ \A r, s \in inbox : r.client = s.client => r = s
        /\ promo.step # "idle" =>
              /\ Awaited(promo.req)
              /\ \A req \in inbox : req.client # promo.req.client
        /\ \A v \in Promoted : Succeeded(versions[v].granted)
        /\ \A v, w \in Promoted : versions[v].granted = versions[w].granted => v = w

LEMMA SentStep ==
    ASSUME TypeOK, StagesOK, JobsOK, TargetsOK, SentOK, Next
    PROVE  SentOK'
<1>0. /\ RegistryTypeOK /\ run \in [Client -> Run] /\ job \in [Job -> JobRow]
      /\ Job \subseteq Client /\ Cli \notin Job /\ promo \in Handler
  BY ClientsAreJobs DEF TypeOK, QueueTypeOK, RegistryTypeOK
<1>. SUFFICES ASSUME ~Disturbed' PROVE SentOK'
  BY DEF SentOK
<1>1. /\ ~Fault /\ ~Crashed
      /\ \A req \in inbox : Awaited(req)
      /\ \A r, s \in inbox : r.client = s.client => r = s
      /\ promo.step # "idle" => /\ Awaited(promo.req)
                                /\ \A req \in inbox : req.client # promo.req.client
      /\ \A v \in Promoted : Succeeded(versions[v].granted)
      /\ \A v, w \in Promoted : versions[v].granted = versions[w].granted => v = w
  BY Undisturbed DEF SentOK
<1>2. \/ /\ ~Promote /\ Promoted' = Promoted
         /\ \A v \in Promoted : versions'[v].granted = versions[v].granted
      \/ /\ Promote
         /\ Promoted' = Promoted \cup {promo.req.target}
         /\ versions'[promo.req.target].granted = promo.req.client
         /\ \A v \in Numbers \ {promo.req.target} : versions'[v] = versions[v]
  BY <1>0, Frames, GrantsStep
<1>3. ASSUME NEW c \in Job, run[c].pc = "sent", ~ServiceStep
      PROVE  run'[c].pc = "sent" /\ job'[c].tries = job[c].tries
  <2>1. job[c].status = "running"
    BY <1>3 DEF JobsOK, RunningOK
  <2>2. /\ ~WorkerStep(c) /\ ~Reclaim(c) /\ ~TrainingStep(c)
        /\ ~\E k \in Key : \E target \in Targets(k.kind) : Dispatch(c, k, target)
    BY <1>1, <1>3, <2>1
    DEF WorkerStep, Start, PickUp, Drop, GiveUpJob, Retry, DeadLetter, DeadLetterFails,
        Finish, JobTimeout, ReplayLoad, ReplayLog, Compare, Post, HttpTimeout, Reclaim,
        ClaimExpires, Reclaimable, TrainingStep, Train, TrainFails, StageNewest, Tag,
        Dispatch, EnqueueJob
  <2>. QED
    BY <1>1, <1>3, <2>2, OthersStay DEF WorkerCrash, ServiceRestart
<1>4. ASSUME NEW c, Succeeded(c)
      PROVE  Succeeded(c)'
  <2>0. c \in Job /\ c \in Client
    BY <1>0, <1>4 DEF Succeeded
  <2>1. /\ run[c].pc = "return" => job[c].status = "running"
        /\ job[c].status = "done" => run[c].pc = "idle"
    BY <2>0 DEF JobsOK, RunningOK
  <2>2. ~DeadLettered(c)'
    BY <1>4, <2>0, <2>1, DeadLetters DEF Succeeded, DeadLetter
  <2>3. CASE job'[c] = job[c] /\ run'[c] = run[c]
    BY <1>4, <2>0, <2>2, <2>3 DEF Succeeded
  <2>4. CASE Finish(c)
    BY <1>0, <2>0, <2>2, <2>4 DEF Finish, FinishJob, Leave, JobRow, Succeeded
  <2>5. CASE ServiceStep
    BY <1>4, <2>0, <2>1, <2>3, <2>5, AnswerFrame DEF Succeeded
  <2>6. /\ ~Reclaim(c) /\ ~TrainingStep(c) /\ (WorkerStep(c) => Finish(c))
        /\ ~\E k \in Key : \E target \in Targets(k.kind) : Dispatch(c, k, target)
    BY <1>4, <2>0, <2>1
    DEF Succeeded, WorkerStep, Start, PickUp, Drop, GiveUpJob, Retry, DeadLetter,
        DeadLetterFails, JobTimeout, ReplayLoad, ReplayLog, Compare, Post,
        HttpTimeout, Waiting, Reclaim, ClaimExpires, Reclaimable, TrainingStep, Train,
        TrainFails, StageNewest, Tag, Dispatch, EnqueueJob
  <2>. QED
    BY <1>1, <2>0, <2>3, <2>4, <2>5, <2>6, OthersStay DEF WorkerCrash, ServiceRestart
\* Who waits has not succeeded.
<1>5. ASSUME NEW req, Awaited(req)
      PROVE  /\ ~Succeeded(req.client) /\ ~DeadLettered(req.client)
             /\ job[req.client].status = "running"
  BY <1>5 DEF Awaited, Succeeded, JobsOK, RunningOK, DeadLettered
<1>6. ASSUME ~Promote
      PROVE  /\ \A v \in Promoted' : Succeeded(versions[v].granted)'
             /\ \A v, w \in Promoted' : versions'[v].granted = versions'[w].granted => v = w
  <2>1. ASSUME NEW v \in Promoted' PROVE Succeeded(versions[v].granted)'
    <3>1. v \in Promoted /\ versions'[v].granted = versions[v].granted
      BY <1>2, <1>6, <2>1
    <3>2. Succeeded(versions[v].granted)
      BY <1>1, <3>1
    <3>. DEFINE c == versions[v].granted
    <3>3. \A d : Succeeded(d) => Succeeded(d)'
      BY <1>4
    <3>. QED  BY <3>1, <3>2, <3>3
  <2>. QED  BY <1>1, <1>2, <1>6, <2>1
<1>7. CASE ~ServiceStep /\ ~(\E j \in Job : Post(j))
  <2>1. inbox' = inbox /\ promo' = promo /\ ~Promote
    <3>1. ASSUME NEW c \in Client, TrainingStep(c)
          PROVE  UNCHANGED <<inbox, promo>>
      BY <1>0, <3>1, TrainingFrame DEF LogModel, StageLatest, TagVersion, registryVars
    <3>2. ASSUME NEW j \in Job, WorkerStep(j), ~Post(j)
          PROVE  UNCHANGED <<inbox, promo>>
      BY <3>2
      DEF WorkerStep, Start, Drop, Retry, DeadLetter, DeadLetterFails, Finish, JobTimeout,
          ReplayLoad, ReplayLog, Compare, TakeStaging, HttpTimeout, Local, registryVars
    <3>3. inbox' = inbox /\ promo' = promo
      BY <1>1, <1>7, <3>1, <3>2
      DEF Next, Dispatch, Reclaim, MakeTrain, DayPasses, WorkerCrash, ServiceRestart,
          Local, registryVars
    <3>4. ~Promote
      BY <3>3 DEF Promote, IdleHandler
    <3>. QED  BY <3>3, <3>4
  <2>2. \A req : Awaited(req) => Awaited(req)'
    BY <1>3, <1>7 DEF Awaited
  <2>. QED  BY <1>1, <1>6, <2>1, <2>2 DEF SentOK
<1>8. CASE \E j \in Job : Post(j)
  <2>. PICK j \in Job : Post(j)
    BY <1>8
  <2>1. /\ inbox' = inbox \cup {RequestOf(j)} /\ promo' = promo /\ job' = job
        /\ run[j].pc = "post" /\ run' = [run EXCEPT ![j].pc = "sent"] /\ versions' = versions
    BY DEF Post, Receive, Registry, queueVars, Goto
  <2>2. \A req : Awaited(req) => Awaited(req)' /\ req.client # j
    BY <1>0, <2>1 DEF Awaited, Run
  <2>3. ASSUME NEW req, req = RequestOf(j) PROVE Awaited(req)' /\ req.client = j
    BY <1>0, <2>1, <2>3 DEF Awaited, RequestOf, Run
  <2>4. ~Promote
    BY <2>1 DEF Promote, IdleHandler
  <2>. QED  BY <1>1, <1>6, <2>1, <2>2, <2>3, <2>4 DEF SentOK
<1>9. CASE \E req \in inbox : Refused(req)
  <2>. PICK req \in inbox : Refused(req)
    BY <1>9
  <2>1. /\ inbox' = inbox \ {req} /\ promo' = promo /\ promo.step = "idle" /\ job' = job
        /\ run' = [run EXCEPT ![req.client].pc = "failed"]
    BY <1>1 DEF Refused, Refuse, Answered, Awaited, NotSuccess, Registry, queueVars
  <2>2. \A r \in inbox' : Awaited(r)'
    BY <1>0, <1>1, <2>1 DEF Awaited
  <2>3. ~Promote
    BY <2>1 DEF Promote
  <2>. QED  BY <1>1, <1>6, <2>1, <2>2, <2>3 DEF SentOK
<1>10. CASE Archived \/ \E req \in inbox : Passed(req)
  <2>1. /\ run' = run /\ job' = job /\ inbox' \subseteq inbox /\ ~Promote
        /\ \/ promo.step # "idle" /\ promo'.req = promo.req
           \/ promo'.req \in inbox \ inbox'
    BY <1>0, <1>10
    DEF Archived, ArchivePrevious, Passed, PassGates, Registry, queueVars, Promote, Handler,
        IdleHandler
  <2>2. \A req : Awaited(req) => Awaited(req)'
    BY <2>1 DEF Awaited
  <2>. QED  BY <1>1, <1>6, <2>1, <2>2 DEF SentOK
<1>11. CASE PromotedAndAnswered
  <2>. DEFINE c == promo.req.client
              n == promo.req.target
  <2>1. /\ inbox' = inbox /\ promo'.step = "idle" /\ job' = job /\ Promote
        /\ Awaited(promo.req) /\ c \in Job /\ c \in Client /\ n \in Numbers
        /\ run' = [run EXCEPT ![c].pc = "return"]
    BY <1>0, <1>1, <1>11
    DEF PromotedAndAnswered, Promote, Answered, Awaited, Success, Registry, queueVars,
        IdleHandler, TargetsOK, Staged
  <2>2. ASSUME NEW req \in inbox PROVE Awaited(req)'
    <3>1. Awaited(req) /\ req.client # c
      BY <1>1, <2>1 DEF Promote
    <3>2. req.client \in Job /\ run'[req.client] = run[req.client]
      BY <1>0, <2>1, <3>1 DEF Awaited
    <3>. QED  BY <2>1, <3>1, <3>2 DEF Awaited
  <2>3. Promoted' = Promoted \cup {n} /\ versions'[n].granted = c
        /\ \A v \in Numbers \ {n} : versions'[v] = versions[v]
    BY <1>2, <2>1
  <2>4. ASSUME NEW d, d = c PROVE Succeeded(d)' /\ ~Succeeded(d)
    <3>1. ~Succeeded(d) /\ ~DeadLettered(d)
      BY <1>5, <2>1, <2>4
    <3>2. ~DeadLettered(d)'
      BY <2>1, <2>4, <3>1, DeadLetters DEF DeadLetter, Awaited
    <3>3. run'[d].pc = "return"
      BY <1>0, <2>1, <2>4 DEF Run
    <3>. QED  BY <2>1, <2>4, <3>1, <3>2, <3>3 DEF Succeeded
  <2>5. ASSUME NEW v \in Promoted, v # n
        PROVE  /\ versions'[v].granted = versions[v].granted
               /\ Succeeded(versions[v].granted)
               /\ versions[v].granted # c
    BY <1>1, <2>3, <2>4, <2>5 DEF Promoted
  <2>6. ASSUME NEW v \in Promoted' PROVE Succeeded(versions[v].granted)'
    <3>1. ASSUME NEW d, d = versions'[v].granted PROVE Succeeded(d)'
      BY <1>4, <2>3, <2>4, <2>5, <2>6, <3>1
    <3>. QED  BY <3>1
  <2>7. ASSUME NEW v \in Promoted', NEW w \in Promoted',
               versions'[v].granted = versions'[w].granted
        PROVE  v = w
    BY <1>1, <2>3, <2>5, <2>7
  <2>8. \A r, s \in inbox' : r.client = s.client => r = s
    BY <1>1, <2>1
  <2>. HIDE DEF c, n
  <2>. QED  BY <2>1, <2>2, <2>6, <2>7, <2>8 DEF SentOK
<1>12. ~TransitionFails
  BY <1>1 DEF TransitionFails
<1>. QED  BY <1>7, <1>8, <1>9, <1>10, <1>11, <1>12 DEF ServiceStep

-----------------------------------------------------------------------------
(* One promotion per try.                                                  *)

Granted(j) == {v \in Promoted : versions[v].granted = j}
Asked(j)   == {req \in Pending : req.client = j}

\* A try that has not asked for its promotion yet, or never will.
Unsent(j) == run[j].pc \in Blocking \cup {"post"}

\* Each promotion of a job, each of its requests under way and the request its try
\* may still send has a try of its own.
GrantsOK ==
    /\ promo.step # "idle" => promo.req \notin inbox
    /\ \A j \in Job :
          /\ IsFiniteSet(Asked(j))
          /\ Cardinality(Granted(j)) + Cardinality(Asked(j))
                + (IF Unsent(j) THEN 1 ELSE 0) <= job[j].tries

\* What was promoted for a job is finite.
LEMMA GrantedIsFinite ==
    ASSUME RegistryTypeOK, NEW j
    PROVE  IsFiniteSet(Granted(j)) /\ Cardinality(Granted(j)) \in Nat
<1>1. Len(versions) \in Nat
  BY DEF RegistryTypeOK
<1>2. IsFiniteSet(Numbers)
  BY <1>1, FS_Interval DEF Numbers
<1>3. Granted(j) \in SUBSET Numbers
  BY DEF Granted, Promoted
<1>4. IsFiniteSet(Granted(j))
  BY <1>2, <1>3, FS_Subset
<1>. QED  BY <1>4, FS_CardinalityType

\* A set that is part of another, or of it and one more.
LEMMA SmallerSet ==
    ASSUME NEW S, NEW T, IsFiniteSet(S), T \subseteq S
    PROVE  IsFiniteSet(T) /\ Cardinality(T) <= Cardinality(S)
           /\ Cardinality(T) \in Nat /\ Cardinality(S) \in Nat
  BY FS_Subset, FS_CardinalityType

LEMMA OneMore ==
    ASSUME NEW S, NEW T, NEW x, IsFiniteSet(S), T \subseteq S \cup {x}
    PROVE  IsFiniteSet(T) /\ Cardinality(T) <= Cardinality(S) + 1
           /\ Cardinality(T) \in Nat /\ Cardinality(S) \in Nat
<1>0. Cardinality(S) \in Nat
  BY FS_CardinalityType
<1>1. /\ IsFiniteSet(S \cup {x}) /\ Cardinality(S) \in Nat
      /\ Cardinality(S \cup {x}) <= Cardinality(S) + 1
  <2>1. /\ IsFiniteSet(S \cup {x})
        /\ Cardinality(S \cup {x}) = IF x \in S THEN Cardinality(S) ELSE Cardinality(S) + 1
    BY FS_AddElement
  <2>2. CASE x \in S
    BY <1>0, <2>1, <2>2
  <2>3. CASE x \notin S
    BY <1>0, <2>1, <2>3
  <2>. QED  BY <2>2, <2>3
<1>2. /\ IsFiniteSet(T) /\ Cardinality(T) <= Cardinality(S \cup {x})
      /\ Cardinality(T) \in Nat /\ Cardinality(S \cup {x}) \in Nat
  BY <1>1, SmallerSet
<1>. QED  BY <1>1, <1>2

LEMMA OneLess ==
    ASSUME NEW S, NEW T, NEW x \in S, IsFiniteSet(S), T \subseteq S \ {x}
    PROVE  IsFiniteSet(T) /\ Cardinality(T) + 1 <= Cardinality(S)
           /\ Cardinality(T) \in Nat /\ Cardinality(S) \in Nat
<1>1. /\ IsFiniteSet(S \ {x}) /\ Cardinality(S) \in Nat
      /\ Cardinality(S \ {x}) = Cardinality(S) - 1
  BY FS_RemoveElement, FS_CardinalityType
<1>2. /\ IsFiniteSet(T) /\ Cardinality(T) <= Cardinality(S \ {x})
      /\ Cardinality(T) \in Nat /\ Cardinality(S \ {x}) \in Nat
  BY <1>1, SmallerSet
<1>. QED  BY <1>1, <1>2

\* Steps of a job that neither begin a try nor send its request.
LEMMA TriesStay ==
    ASSUME TypeOK, JobsOK, Next, NEW j \in Job, ~Start(j)
    PROVE  job'[j].tries = job[j].tries /\ (Unsent(j)' => Unsent(j))
<1>. USE DEF Unsent, Blocking
<1>0. /\ run \in [Client -> Run] /\ job \in [Job -> JobRow] /\ Job \subseteq Client
  BY ClientsAreJobs DEF TypeOK, QueueTypeOK
<1>1. CASE job'[j] = job[j] /\ run'[j] = run[j]
  BY <1>1
<1>2. CASE \E k \in Key : \E target \in Targets(k.kind) : Dispatch(j, k, target)
  BY <1>0, <1>2 DEF Dispatch, EnqueueJob, JobsOK, RunningOK
<1>3. CASE Drop(j) \/ Reclaim(j) \/ Retry(j) \/ DeadLetterFails(j) \/ Finish(j)
           \/ JobTimeout(j)
  <2>1. \E status \in {"lost", "queued", "done"} : Leave(j, status)
        /\ (run'[j].pc = "idle" \/ run' = run)
    BY <1>0, <1>3
    DEF Drop, GiveUpJob, Leave, Reclaim, ClaimExpires, Retry, RetryJob,
        DeadLetterFails, Finish, FinishJob, JobTimeout, FailJob, IdleRun
  <2>2. job'[j].tries = job[j].tries
    BY <1>0, <2>1 DEF Leave, JobRow
  <2>. QED  BY <2>1, <2>2
<1>4. CASE WorkerCrash
  BY <1>0, <1>4 DEF WorkerCrash, AbandonJobs, TriesKept, JobRow, IdleRun
<1>5. CASE DeadLetter(j) \/ ReplayLoad(j) \/ ReplayLog(j) \/ Compare(j) \/ Post(j)
           \/ HttpTimeout(j)
  <2>1. job' = job
    BY <1>5 DEF DeadLetter, PushToDlq, ReplayLoad, ReplayLog, Compare, Post, HttpTimeout,
                Registry, Local, queueVars
  <2>2. \/ run'[j].pc \in {"idle", "failed", "return", "sent"}
        \/ run[j].pc \in {"load", "log_metrics", "compare"}
    BY <1>0, <1>5 DEF DeadLetter, ReplayLoad, ReplayLog, Compare, Post, HttpTimeout,
                      Goto, Run
  <2>. QED  BY <2>1, <2>2
<1>6. CASE TrainingStep(j)
  <2>1. job' = job
    BY <1>0, <1>6, TrainingFrame DEF queueVars
  <2>2. Unsent(j)
    BY <1>6 DEF TrainingStep, Train, TrainFails, StageNewest, Tag
  <2>. QED  BY <2>1, <2>2
<1>7. CASE ServiceStep
  BY <1>7, AnswerFrame DEF Ending
<1>8. CASE ServiceRestart
  <2>1. job' = job /\ (run'[j] = run[j] \/ run'[j].pc = "failed")
    BY <1>0, <1>8 DEF ServiceRestart, Registry, queueVars, Run
  <2>. QED  BY <2>1
<1>. QED
  BY <1>1, <1>2, <1>3, <1>4, <1>5, <1>6, <1>7, <1>8, OthersStay DEF WorkerStep

LEMMA GrantsOKStep ==
    ASSUME TypeOK, StagesOK, JobsOK, TargetsOK, RequestsOK, GrantsOK, Next
    PROVE  GrantsOK'
<1>0. /\ RegistryTypeOK /\ RegistryTypeOK' /\ run \in [Client -> Run]
      /\ job \in [Job -> JobRow] /\ promo \in Handler /\ Job \subseteq Client
      /\ \A j \in Job : job[j].tries \in Nat
  <2>1. RegistryTypeOK'
    BY TypeStep DEF TypeOK
  <2>2. RegistryTypeOK /\ run \in [Client -> Run] /\ job \in [Job -> JobRow]
    BY DEF TypeOK, QueueTypeOK
  <2>3. promo \in Handler /\ Job \subseteq Client
    BY <2>2, ClientsAreJobs DEF RegistryTypeOK
  <2>4. \A j \in Job : job[j].tries \in Nat
    BY <2>2 DEF JobRow
  <2>. QED  BY <2>1, <2>2, <2>3, <2>4
\* The request the handler works on is no longer in the inbox.
<1>1. promo'.step # "idle" => promo'.req \notin inbox'
  <2>1. CASE \E j \in Job : run[j].pc = "post" /\ Receive(RequestOf(j))
    <3>. PICK j \in Job : run[j].pc = "post" /\ Receive(RequestOf(j))
      BY <2>1
    <3>1. promo.step # "idle" => promo.req # RequestOf(j)
      BY DEF RequestsOK, Pending, RequestOf
    <3>. QED  BY <3>1 DEF GrantsOK, Receive
  <2>2. CASE \E req \in inbox : PassGates(req)
    BY <2>2 DEF PassGates
  <2>3. CASE inbox' \subseteq inbox /\ (promo'.step = "idle" \/ promo' = promo)
    BY <2>3 DEF GrantsOK
  <2>4. CASE ArchivePrevious
    BY <1>0, <2>4 DEF ArchivePrevious, GrantsOK, Handler
  <2>5. ASSUME Promote \/ PromoteFails \/ RestartService
        PROVE  inbox' \subseteq inbox /\ promo'.step = "idle"
    BY <2>5 DEF Promote, PromoteFails, RestartService, IdleHandler
  <2>6. ASSUME NEW req \in inbox, Refuse(req)
        PROVE  inbox' \subseteq inbox /\ promo' = promo
    BY <2>6 DEF Refuse
  <2>7. ASSUME \/ \E c \in Client, a \in Auc : LogModel(c, a)
               \/ \E c \in Client : StageLatest(c) \/ TakeStaging(c)
               \/ \E c \in Client : TagVersion(run[c].version, run[c].auc)
               \/ UNCHANGED registryVars
        PROVE  inbox' = inbox /\ promo' = promo
    BY <2>7 DEF LogModel, StageLatest, TakeStaging, TagVersion, registryVars
  <2>8. RegistryStep \/ UNCHANGED registryVars
    BY <1>0, Frames
  <2>. QED
    BY <2>1, <2>2, <2>3, <2>4, <2>5, <2>6, <2>7, <2>8 DEF RegistryStep
<1>2. ASSUME NEW j \in Job
      PROVE  /\ IsFiniteSet(Asked(j)')
             /\ Cardinality(Granted(j)') + Cardinality(Asked(j)')
                   + (IF Unsent(j)' THEN 1 ELSE 0) <= job'[j].tries
  <2>. DEFINE g == Cardinality(Granted(j))
              a == Cardinality(Asked(j))
              u == IF Unsent(j) THEN 1 ELSE 0
  <2>1. /\ IsFiniteSet(Granted(j)) /\ g \in Nat /\ IsFiniteSet(Asked(j)) /\ a \in Nat
        /\ g + a + u <= job[j].tries /\ job[j].tries \in Nat
    BY <1>0, GrantedIsFinite, FS_CardinalityType DEF GrantsOK
  <2>2. \/ ~Promote /\ Granted(j)' = Granted(j)
        \/ Promote /\ Granted(j)' \subseteq Granted(j) \cup {promo.req.target}
           /\ (promo.req.client # j => Granted(j)' \subseteq Granted(j))
    <3>1. CASE ~Promote
      BY <1>0, <3>1, Frames, GrantsStep DEF Granted
    <3>2. CASE Promote
      BY <1>0, <3>2, Frames, GrantsStep DEF Granted, Promoted
    <3>. QED  BY <3>1, <3>2
  <2>3. Start(j) \/ Post(j) => ~Promote
    BY DEF Start, Post, Receive, Promote, registryVars, IdleHandler
  <2>4. CASE Post(j)
    <3>1. Asked(j)' \subseteq Asked(j) \cup {RequestOf(j)}
      BY <2>4 DEF Post, Receive, Asked, Pending
    <3>2. IsFiniteSet(Asked(j)') /\ Cardinality(Asked(j)') <= a + 1
          /\ Cardinality(Asked(j)') \in Nat
      BY <2>1, <3>1, OneMore
    <3>3. Unsent(j) /\ ~Unsent(j)' /\ job'[j].tries = job[j].tries
      BY <1>0, <2>4 DEF Post, Unsent, Goto, Run, Blocking, Registry, queueVars
    <3>4. Granted(j)' = Granted(j)
      BY <2>2, <2>3, <2>4
    <3>. QED  BY <2>1, <3>2, <3>3, <3>4
  <2>5. CASE Start(j)
    <3>1. job[j].status = "queued" /\ job'[j].tries = job[j].tries + 1
      BY <1>0, <2>5 DEF Start, PickUp, JobRow
    <3>2. ~Unsent(j)
      BY <3>1 DEF JobsOK, RunningOK, Unsent, Blocking
    <3>3. Asked(j)' = Asked(j)
      BY <2>5 DEF Start, registryVars, Asked, Pending
    <3>4. Granted(j)' = Granted(j)
      BY <2>2, <2>3, <2>5
    <3>. QED  BY <2>1, <3>1, <3>2, <3>3, <3>4
  <2>6. ASSUME ~Start(j)
        PROVE  /\ job'[j].tries = job[j].tries
               /\ (IF Unsent(j)' THEN 1 ELSE 0) <= u /\ u \in Nat
    BY <2>6, TriesStay
  <2>7. CASE Promote
    <3>1. /\ Asked(j)' \subseteq Asked(j) \ {promo.req}
          /\ promo.req.client = j => promo.req \in Asked(j)
      BY <2>7 DEF Promote, Asked, Pending, GrantsOK, IdleHandler
    <3>2. CASE promo.req.client = j
      <4>1. /\ IsFiniteSet(Asked(j)') /\ Cardinality(Asked(j)') + 1 <= a
            /\ Cardinality(Asked(j)') \in Nat
        BY <2>1, <3>1, <3>2, OneLess
      <4>2. Cardinality(Granted(j)') <= g + 1 /\ Cardinality(Granted(j)') \in Nat
        <5>. DEFINE n == promo.req.target
        <5>1. Granted(j)' \subseteq Granted(j) \cup {n}
          BY <2>2, <2>7
        <5>. HIDE DEF n
        <5>. QED  BY <2>1, <5>1, OneMore
      <4>. QED  BY <2>1, <2>3, <2>6, <2>7, <4>1, <4>2
    <3>3. CASE promo.req.client # j
      <4>1. /\ IsFiniteSet(Asked(j)') /\ Cardinality(Asked(j)') <= a
            /\ Cardinality(Asked(j)') \in Nat
        BY <2>1, <3>1, SmallerSet
      <4>2. Cardinality(Granted(j)') <= g /\ Cardinality(Granted(j)') \in Nat
        BY <2>1, <2>2, <2>7, <3>3, SmallerSet
      <4>. QED  BY <2>1, <2>3, <2>6, <2>7, <4>1, <4>2
    <3>. QED  BY <3>2, <3>3
  <2>8. CASE ~Post(j) /\ ~Start(j) /\ ~Promote
    <3>1. Asked(j)' \subseteq Asked(j)
      BY <2>8, PendingFrame DEF Asked, RequestOf
    <3>2. /\ IsFiniteSet(Asked(j)') /\ Cardinality(Asked(j)') <= a
          /\ Cardinality(Asked(j)') \in Nat
      BY <2>1, <3>1, SmallerSet
    <3>3. Granted(j)' = Granted(j)
      BY <2>2, <2>8
    <3>. QED  BY <2>1, <2>6, <2>8, <3>2, <3>3
  <2>. QED  BY <2>4, <2>5, <2>7, <2>8
<1>. QED  BY <1>1, <1>2 DEF GrantsOK

-----------------------------------------------------------------------------
(* What becomes of a model.                                                *)

IsLast(c, v) ==
    /\ versions[v].by = c
    /\ \A w \in Numbers : versions[w].by = c => w <= v

\* As long as no trainer takes another's version for its own, a retrain that is under
\* way compares, stages and asks for the last version it logged, and one that ended
\* well left a version in use that is at least as good.
Used(j, v) ==
    /\ run[j].pc \in {"stage", "tag", "compare"} => versions[v].auc = run[j].auc
    /\ run[j].pc \in {"tag", "compare"} =>
          \A s \in In("Staging") : versions[s].by = j => s = v
    /\ run[j].pc \in Waiting => run[j].version = v
    /\ (run[j].pc = "return" \/ job[j].status = "done") /\ ~DeadLettered(j)
          => \E w \in Promoted : versions[w].auc >= versions[v].auc

UsedOK ==
    ~mixed => \A j \in Job, v \in Numbers : IsLast(j, v) => Used(j, v)

\* The moves of a job that its last version does not depend on.
Moves(j) ==
    \/ job'[j].status = job[j].status /\ run'[j] = run[j]
    \/ /\ run'[j].pc \in {"idle", "failed", "train"}
       /\ job'[j].status = "done" => job[j].status = "done"
    \/ run[j].pc = "return" /\ run'[j].pc = "idle"
    \/ run'[j].pc = "return" /\ DeadLettered(j)' /\ job'[j].status # "done"
    \/ /\ job'[j].status # "done"
       /\ \/ /\ run[j].pc = "post" /\ run'[j].pc = "sent"
             /\ run'[j].version = run[j].version
          \/ /\ run[j].pc = "tag" /\ run'[j].pc = "compare"
             /\ run'[j].auc = run[j].auc

LEMMA UsedMoves ==
    ASSUME TypeOK, Next, NEW j \in Job, NEW v \in Numbers, Used(j, v), Moves(j),
           Numbers' = Numbers, Promoted \subseteq Promoted',
           In("Staging")' \subseteq In("Staging"),
           \A w \in Numbers : /\ versions'[w].auc = versions[w].auc
                             /\ versions'[w].by = versions[w].by
    PROVE  Used(j, v)'
<1>1. Promoted \subseteq Numbers /\ In("Staging") \subseteq Numbers
  BY DEF Promoted, In
<1>2. ~DeadLettered(j)' => ~DeadLettered(j)
  BY DeadLetters
<1>3. run'[j].pc \in {"stage", "tag", "compare"} => versions'[v].auc = run'[j].auc
  BY DEF Used, Moves, Waiting
<1>4. run'[j].pc \in {"tag", "compare"} =>
         \A s \in In("Staging")' : versions'[s].by = j => s = v
  BY <1>1 DEF Used, Moves, Waiting
<1>5. run'[j].pc \in Waiting => run'[j].version = v
  BY DEF Used, Moves, Waiting
<1>6. (run'[j].pc = "return" \/ job'[j].status = "done") /\ ~DeadLettered(j)'
         => \E w \in Promoted' : versions'[w].auc >= versions'[v].auc
  BY <1>1, <1>2 DEF Used, Moves, Waiting
<1>. QED  BY <1>3, <1>4, <1>5, <1>6 DEF Used

LEMMA UsedStep ==
    ASSUME TypeOK, StagesOK, JobsOK, TargetsOK, TagsOK, KindsOK, RequestsOK, OwnersOK,
           UsedOK, Next
    PROVE  UsedOK'
<1>0. /\ RegistryTypeOK /\ run \in [Client -> Run] /\ job \in [Job -> JobRow]
      /\ Job \subseteq Client /\ Cli \in Client /\ Cli \notin Job
      /\ versions \in Seq(Version) /\ Len(versions) \in Nat
      /\ versions \in [Numbers -> Version]
  BY ClientsAreJobs DEF TypeOK, QueueTypeOK, RegistryTypeOK, Numbers
<1>1. RegistryStep \/ UNCHANGED registryVars
  BY <1>0, Frames
<1>. SUFFICES ASSUME ~mixed', NEW j \in Job, NEW v \in Numbers', IsLast(j, v)'
              PROVE  Used(j, v)'
  BY DEF UsedOK
<1>2. ~mixed
  BY <1>1, MixedStays
<1>3. \A w \in Numbers : IsLast(j, w) => Used(j, w)
  BY <1>2 DEF UsedOK
<1>4. /\ \A w \in Numbers : versions'[w].auc = versions[w].auc
                            /\ versions'[w].by = versions[w].by
      /\ Promoted \subseteq Promoted' /\ Promoted \subseteq Numbers
      /\ \A w \in Numbers : versions[w].auc \in Nat
  BY <1>0, <1>1, GrantsStep, VersionsGrow, AucIsPositive DEF Promoted, Version
<1>5. run[j].pc # "idle" => job[j].status = "running"
  BY DEF JobsOK, RunningOK
\* Another client logs or stages a version.
<1>6. ASSUME NEW c \in Client, TrainingStep(c), c # j
      PROVE  job' = job /\ run'[j] = run[j]
  <2>1. job' = job
    BY <1>0, <1>6, TrainingFrame DEF queueVars
  <2>. QED
    BY <1>0, <1>6, <2>1 DEF TrainingStep, Train, TrainFails, StageNewest, Tag, Goto, Raise
<1>7. CASE \E c \in Client, a \in Auc : Train(c, a)
  <2>. PICK c \in Client, a \in Auc : Train(c, a)
    BY <1>7
  <2>. DEFINE new == [stage |-> "None", auc |-> a, tag |-> 0, by |-> c, granted |-> NoClient]
              n == Len(versions) + 1
  <2>1. new \in Version
    BY ClientsAreJobs, ClientsAreKnown DEF Version, Stage
  <2>2. /\ Numbers' = Numbers \cup {n} /\ versions'[n] = new
        /\ \A w \in Numbers : versions'[w] = versions[w] /\ w < n
    BY <1>0, <2>1, AppendedVersion DEF Train, LogModel, Numbers
  <2>3. job' = job /\ run' = [run EXCEPT ![c].pc = "stage", ![c].auc = a]
    BY DEF Train, Registry, queueVars
  <2>4. CASE c = j
    <3>1. v = n
      <4>1. n <= v
        BY <2>2, <2>4 DEF IsLast
      <4>2. n \in Nat /\ (v \in Numbers => v \in Nat /\ v < n)
        BY <1>0, <2>2 DEF Numbers
      <4>. HIDE DEF n
      <4>3. v \notin Numbers
        BY <4>1, <4>2
      <4>. QED  BY <2>2, <4>3
    <3>2. run'[j].pc = "stage" /\ run'[j].auc = a
      BY <1>0, <2>3, <2>4 DEF Run
    <3>3. job'[j].status = "running"
      BY <1>5, <2>3, <2>4 DEF Train
    <3>. QED  BY <2>2, <3>1, <3>2, <3>3 DEF Used, Waiting
  <2>5. CASE c # j
    <3>1. v \in Numbers /\ IsLast(j, v)
      BY <2>2, <2>5 DEF IsLast
    <3>2. Used(j, v) /\ job'[j] = job[j] /\ run'[j] = run[j]
      BY <1>0, <1>3, <2>3, <2>5, <3>1
    <3>3. In("Staging")' = In("Staging")
      BY <2>2 DEF In
    <3>4. ~DeadLettered(j)' => ~DeadLettered(j)
      BY DeadLetters
    <3>5. /\ versions'[v] = versions[v]
          /\ \A s \in In("Staging") : versions'[s] = versions[s]
      BY <2>2, <3>1 DEF In
    <3>6. (\E w \in Promoted : versions[w].auc >= versions[v].auc)
             => \E u \in Promoted' : versions'[u].auc >= versions'[v].auc
      BY <1>4, <3>1, <3>5
    <3>. QED  BY <1>4, <3>2, <3>3, <3>4, <3>5 DEF Used
  <2>. QED  BY <2>4, <2>5
\* A step that changes versions in place, if at all, and stages none.
<1>8. ASSUME DOMAIN versions' = DOMAIN versions
      PROVE  Numbers' = Numbers /\ v \in Numbers /\ IsLast(j, v) /\ Used(j, v)
  <2>1. versions' \in Seq(Version)
    BY TypeStep DEF TypeOK, RegistryTypeOK
  <2>2. Numbers' = Numbers
    BY <1>0, <1>8, <2>1 DEF Numbers
  <2>. QED  BY <1>3, <1>4, <2>2 DEF IsLast
<1>9. ASSUME DOMAIN versions' = DOMAIN versions, In("Staging")' \subseteq In("Staging"),
             Moves(j)
      PROVE  Used(j, v)'
  BY <1>4, <1>8, <1>9, UsedMoves
<1>10. ASSUME versions' = versions, Moves(j)
       PROVE  Used(j, v)'
  BY <1>9, <1>10 DEF In, Numbers
<1>11. CASE \E c \in Client : TrainFails(c)
  <2>. PICK c \in Client : TrainFails(c)
    BY <1>11
  <2>1. versions' = versions /\ job' = job
    BY DEF TrainFails, Local, registryVars, queueVars
  <2>2. c = j => run'[j].pc = "failed" /\ job[j].status = "running"
    BY <1>0, <1>5 DEF TrainFails, Raise, Goto, Run
  <2>3. c # j => run'[j] = run[j]
    BY <1>6 DEF TrainingStep
  <2>. QED  BY <1>10, <2>1, <2>2, <2>3 DEF Moves
<1>12. CASE \E c \in Client : StageNewest(c)
  <2>. PICK c \in Client : StageNewest(c)
    BY <1>12
  <2>1. CASE Fault /\ Raise(c) /\ UNCHANGED registryVars
    <3>1. versions' = versions /\ job' = job
      BY <2>1 DEF StageNewest, Registry, registryVars, queueVars
    <3>2. c = j => run'[j].pc = "failed" /\ job[j].status = "running"
      BY <1>0, <1>5, <2>1 DEF StageNewest, Raise, Goto, Run
    <3>3. c # j => run'[j] = run[j]
      BY <1>6 DEF TrainingStep
    <3>. QED  BY <1>10, <3>1, <3>2, <3>3 DEF Moves
  <2>2. CASE StageLatest(c)
             /\ run' = [run EXCEPT ![c].pc = "tag", ![c].version = Len(versions)]
    <3>. DEFINE last == Len(versions)
    <3>1. DOMAIN versions' = DOMAIN versions /\ versions[last].by = c
      BY <1>0, <2>2 DEF StageLatest, Numbers
    <3>2. Numbers' = Numbers /\ v \in Numbers /\ IsLast(j, v) /\ Used(j, v)
      BY <1>8, <3>1
    <3>3. last \in Numbers /\ v <= last
      BY <1>0, <3>2 DEF Numbers
    <3>4. In("Staging")' \subseteq {last}
      BY <1>0, <2>2, <3>2, <3>3 DEF StageLatest, ArchivedByStaging, In, Version
    <3>5. CASE c = j
      <4>1. last <= v
        BY <3>1, <3>2, <3>3, <3>5 DEF IsLast
      <4>2. v = last
        <5>1. v \in Nat /\ last \in Nat
          BY <1>0, <3>2 DEF Numbers
        <5>. QED  BY <3>3, <4>1, <5>1
      <4>3. run'[j].pc = "tag" /\ run'[j].auc = run[j].auc
        BY <1>0, <2>2, <3>5 DEF Run
      <4>4. job' = job /\ run[j].pc = "stage" /\ job[j].status = "running"
        BY <1>5, <3>5 DEF StageNewest, Registry, queueVars
      <4>5. versions'[v].auc = run'[j].auc
        BY <1>4, <3>2, <4>3, <4>4 DEF Used
      <4>. QED  BY <3>4, <4>2, <4>3, <4>4, <4>5 DEF Used, Waiting
    <3>6. CASE c # j
      <4>1. job' = job /\ run'[j] = run[j]
        BY <1>6, <3>6 DEF TrainingStep
      <4>2. \A s \in In("Staging")' : versions'[s].by # j
        BY <1>4, <3>1, <3>3, <3>4, <3>6
      <4>3. ~DeadLettered(j)' => ~DeadLettered(j)
        BY DeadLetters
      <4>4. versions'[v].auc = versions[v].auc
        BY <1>4, <3>2
      <4>5. (\E w \in Promoted : versions[w].auc >= versions[v].auc)
               => \E u \in Promoted' : versions'[u].auc >= versions'[v].auc
        BY <1>4, <3>2, <4>4
      <4>. QED  BY <1>4, <3>2, <4>1, <4>2, <4>3, <4>4, <4>5 DEF Used
    <3>. QED  BY <3>5, <3>6
  <2>. QED  BY <2>1, <2>2 DEF StageNewest
<1>13. CASE \E c \in Client : Tag(c)
  <2>. PICK c \in Client : Tag(c)
    BY <1>13
  <2>1. versions' = versions \/ TagVersion(run[c].version, run[c].auc)
    BY DEF Tag, registryVars
  <2>2. DOMAIN versions' = DOMAIN versions /\ Numbers' = Numbers
    <3>1. DOMAIN versions' = DOMAIN versions
      BY <2>1 DEF TagVersion
    <3>. QED  BY <1>8, <3>1
  <2>3. In("Staging")' \subseteq In("Staging")
    BY <1>0, <2>1, <2>2 DEF TagVersion, In, Version
  <2>4. c = j => /\ run[j].pc = "tag" /\ run'[j].pc \in {"compare", "failed"}
                 /\ run'[j].auc = run[j].auc
                 /\ job'[j].status = "running"
    BY <1>0, <1>5 DEF Tag, Goto, Raise, Run, Registry, queueVars
  <2>5. c # j => job' = job /\ run'[j] = run[j]
    BY <1>6 DEF TrainingStep
  <2>6. Moves(j)
    BY <2>4, <2>5 DEF Moves
  <2>. QED  BY <1>9, <2>2, <2>3, <2>6
<1>14. CASE Archived
  <2>1. DOMAIN versions' = DOMAIN versions /\ job' = job /\ run' = run
    BY <1>14 DEF Archived, ArchivePrevious, Retired, Registry, queueVars
  <2>2. Numbers' = Numbers
    BY <1>8, <2>1
  <2>3. In("Staging")' \subseteq In("Staging")
    BY <1>0, <1>14, <2>2 DEF Archived, ArchivePrevious, Retired, In, Version
  <2>. QED  BY <1>9, <2>1, <2>3 DEF Moves
<1>15. CASE Compare(j)
  <2>1. versions' = versions /\ job' = job /\ run[j].pc = "compare"
        /\ job[j].status = "running"
    BY <1>5, <1>15 DEF Compare, TakeStaging, Registry, registryVars, queueVars
  <2>2. v \in Numbers /\ Used(j, v)
    BY <1>8, <2>1
  <2>3. CASE run'[j].pc = "failed"
    BY <1>10, <2>1, <2>3 DEF Moves
  <2>4. CASE /\ TakeStaging(j) /\ In("Staging") # {}
             /\ run'[j].version = Latest("Staging")
             /\ run[j].auc >= ProductionTag /\ run'[j].pc = "post"
    <3>1. Latest("Staging") \in In("Staging") /\ versions[Latest("Staging")].by = j
      BY <1>0, <2>4, LatestIsTheOne DEF StagesOK, TakeStaging
    <3>2. run'[j].version = v
      BY <2>1, <2>2, <2>4, <3>1 DEF Used
    <3>. QED  BY <2>1, <2>4, <3>2 DEF Used
  <2>5. CASE ~(run[j].auc >= ProductionTag) /\ run'[j].pc = "return"
    <3>. DEFINE p == Latest("Production")
    <3>1. run[j].auc = versions[v].auc /\ run[j].auc \in Nat
      BY <1>4, <2>1, <2>2 DEF Used
    <3>2. In("Production") # {} /\ ProductionTag = versions[p].tag
      BY <2>5, <3>1 DEF ProductionTag
    <3>3. p \in In("Production") /\ p \in Promoted /\ p \in Numbers
      BY <1>0, <3>2, LatestIsTheOne DEF StagesOK, OneProduction, OwnersOK, In
    <3>4. versions[p].tag \in {0, versions[p].auc} /\ versions[p].auc \in Nat
      BY <1>2, <1>4, <3>3 DEF TagsOK
    <3>5. versions[p].auc >= versions[v].auc
      BY <2>5, <3>1, <3>2, <3>4
    <3>6. p \in Promoted' /\ versions'[p].auc >= versions'[v].auc
      BY <1>4, <2>1, <3>3, <3>5
    <3>. QED  BY <2>5, <3>6 DEF Used, Waiting
  <2>6. j \in Client
    BY <1>0
  <2>. QED
    BY <1>0, <1>15, <2>3, <2>4, <2>5, <2>6 DEF Compare, Raise, Goto, Run
<1>16. CASE PromotedAndAnswered
  <2>1. /\ Promote /\ job' = job /\ DOMAIN versions' = DOMAIN versions
        /\ Answered(promo.req, Success)
    BY <1>16 DEF PromotedAndAnswered, Promote, Registry, queueVars
  <2>2. Numbers' = Numbers /\ v \in Numbers /\ IsLast(j, v) /\ Used(j, v)
    BY <1>8, <2>1
  <2>3. In("Staging")' \subseteq In("Staging")
    BY <1>0, <2>1, <2>2 DEF Promote, In, Version
  <2>4. CASE run'[j] = run[j]
    BY <1>9, <2>1, <2>3, <2>4 DEF Moves
  <2>5. CASE /\ promo.req.client = j /\ run[j].pc = "sent"
             /\ job[j].tries = promo.req.try /\ run'[j].pc = "return"
    <3>1. promo.req \in Pending
      BY <2>1 DEF Promote, Pending
    <3>2. promo.req.target = v
      BY <2>2, <2>5, <3>1 DEF RequestsOK, Used, Waiting
    <3>3. v \in Promoted'
      BY <1>0, <1>1, <2>1, <3>2, GrantsStep
    <3>4. versions'[v].auc >= versions'[v].auc
      <4>1. versions'[v].auc \in Nat
        BY <1>4, <2>2
      <4>. QED  BY <4>1
    <3>. QED  BY <2>5, <3>3, <3>4 DEF Used, Waiting
  <2>. QED
    BY <1>0, <2>1, <2>4, <2>5 DEF Answered, Success, Run
<1>17. ASSUME ~\E c \in Client : TrainingStep(c), ~Compare(j), ~Archived, ~PromotedAndAnswered
       PROVE  Used(j, v)'
  <2>1. versions' = versions
    BY <1>17
    DEF Next, WorkerStep, Dispatch, Start, Drop, Retry, DeadLetter, DeadLetterFails, Finish,
        JobTimeout, ReplayLoad, ReplayLog, Compare, TakeStaging, Post, Receive, HttpTimeout,
        Reclaim, DayPasses, MakeTrain, WorkerCrash, ServiceRestart, RestartService,
        ServiceStep, Refused, Refuse, Passed, PassGates, TransitionFails, PromoteFails,
        Local, Registry, registryVars
  <2>2. /\ v \in Numbers /\ job[j].status # "absent" /\ job[j].key.kind = "retrain"
    BY <1>8, <2>1 DEF OwnersOK, IsLast
  <2>3. CASE job'[j] = job[j] /\ run'[j] = run[j]
    BY <1>10, <2>1, <2>3 DEF Moves
  <2>4. CASE Reclaim(j) \/ Drop(j)
    <3>1. run'[j].pc = "idle" /\ job'[j].status \in {"queued", "lost"}
      BY <1>0, <1>5, <2>4
      DEF Reclaim, ClaimExpires, Reclaimable, Drop, GiveUpJob, Leave, JobRow
    <3>. QED  BY <1>10, <2>1, <3>1 DEF Moves
  <2>5. CASE Start(j)
    <3>1. run'[j].pc = "train" /\ job'[j].status = "running"
      BY <1>0, <2>2, <2>5 DEF Start, PickUp, FirstStep, JobRow
    <3>. QED  BY <1>10, <2>1, <3>1 DEF Moves
  <2>6. CASE Retry(j) \/ DeadLetterFails(j) \/ JobTimeout(j) \/ WorkerCrash
    <3>1. run'[j].pc = "idle"
      BY <1>0, <2>6 DEF Retry, DeadLetterFails, JobTimeout, WorkerCrash, IdleRun
    <3>2. job'[j].status = "done" => job[j].status = "done"
      <4>1. CASE WorkerCrash
        <5>1. job'[j].status = IF job[j].status = "running" THEN "claimed"
                               ELSE job[j].status
          BY <1>0, <4>1 DEF WorkerCrash, AbandonJobs, JobRow
        <5>. QED  BY <5>1
      <4>2. CASE Leave(j, "queued") \/ Leave(j, "lost")
        BY <1>0, <4>2 DEF Leave, JobRow
      <4>. QED
        BY <2>6, <4>1, <4>2 DEF Retry, RetryJob, DeadLetterFails, JobTimeout, FailJob
    <3>. QED  BY <1>10, <2>1, <3>1, <3>2 DEF Moves
  <2>7. CASE Finish(j)
    <3>1. run[j].pc = "return" /\ run'[j].pc = "idle"
      BY <1>0, <2>7 DEF Finish, IdleRun
    <3>. QED  BY <1>10, <2>1, <3>1 DEF Moves
  <2>8. CASE DeadLetter(j)
    <3>1. run'[j].pc = "return" /\ job'[j].status = "running" /\ DeadLettered(j)'
      BY <1>0, <1>5, <2>8, DeadLetters DEF DeadLetter, PushToDlq, Goto, Run
    <3>. QED  BY <1>10, <2>1, <3>1 DEF Moves
  <2>9. CASE ReplayLoad(j) \/ ReplayLog(j)
    BY <2>2, <2>9 DEF ReplayLoad, ReplayLog, KindsOK
  <2>10. CASE Post(j) \/ HttpTimeout(j)
    <3>1. /\ job'[j].status = "running"
          /\ \/ /\ run[j].pc = "post" /\ run'[j].pc = "sent"
                /\ run'[j].version = run[j].version
             \/ run'[j].pc = "failed"
      BY <1>0, <1>5, <2>10 DEF Post, HttpTimeout, Goto, Run, Registry, queueVars, Waiting
    <3>. QED  BY <1>10, <2>1, <3>1 DEF Moves
  <2>11. CASE ServiceRestart
    <3>1. job' = job /\ (run'[j] = run[j] \/ (run[j].pc = "sent" /\ run'[j].pc = "failed"))
      BY <1>0, <2>11 DEF ServiceRestart, Registry, queueVars, Run
    <3>. QED  BY <1>5, <1>10, <2>1, <3>1 DEF Moves
  <2>12. CASE ServiceStep
    <3>1. run'[j] = run[j] \/ (run[j].pc = "sent" /\ run'[j].pc = "failed")
      <4>1. run' = run \/ \E req : Answered(req, "failed")
        BY <1>17, <2>12 DEF ServiceStep, Refused, Passed, TransitionFails, NotSuccess
      <4>2. ASSUME NEW req, Answered(req, "failed")
            PROVE  run'[j] = run[j] \/ (run[j].pc = "sent" /\ run'[j].pc = "failed")
        <5>1. CASE run' = [run EXCEPT ![req.client].pc = "failed"]
                   /\ run[req.client].pc = "sent"
          BY <1>0, <5>1 DEF Run
        <5>. QED  BY <4>2, <5>1 DEF Answered
      <4>. QED  BY <4>1, <4>2
    <3>. QED  BY <1>5, <1>10, <2>1, <2>12, <3>1, AnswerFrame DEF Moves
  <2>13. CASE \E k \in Key : \E target \in Targets(k.kind) : Dispatch(j, k, target)
    BY <2>2, <2>13 DEF Dispatch, EnqueueJob
  <2>. QED
    BY <1>0, <1>17, <2>3, <2>4, <2>5, <2>6, <2>7, <2>8, <2>9, <2>10, <2>11, <2>12, <2>13,
       OthersStay
    DEF WorkerStep
<1>. QED
  BY <1>7, <1>11, <1>12, <1>13, <1>14, <1>15, <1>16, <1>17 DEF TrainingStep

-----------------------------------------------------------------------------
(* The inductive invariant and the theorems.                               *)

OutcomeInv ==
    /\ IInv
    /\ LostOK /\ KindsOK /\ LoadOK /\ RetriesOK
    /\ RequestsOK /\ OwnersOK /\ SentOK /\ UsedOK /\ GrantsOK

LEMMA InitOutcome == Init => OutcomeInv
<1>. SUFFICES ASSUME Init PROVE OutcomeInv
  OBVIOUS
<1>1. IInv
  BY InitIInv
<1>2. /\ inbox = {} /\ promo.step = "idle" /\ dlq = << >>
      /\ \A j \in Job : job[j].status = "absent" /\ run[j].pc = "idle"
  BY ClientsAreJobs DEF Init, QueueInit, RegistryInit, IdleRun, IdleHandler
<1>3. /\ Numbers = {1} /\ versions[1].stage = "Staging"
      /\ versions[1].by = Cli /\ versions[1].granted = NoClient
  <2>1. PICK a \in Auc :
           versions = <<[stage |-> "Staging", auc |-> a, tag |-> a,
                         by |-> Cli, granted |-> NoClient]>>
    BY DEF Init, RegistryInit
  <2>2. Len(versions) = 1
    BY <2>1
  <2>. QED  BY <2>1, <2>2 DEF Numbers
<1>4. In("Staging") = {1} /\ In("Production") = {} /\ Promoted = {}
  BY <1>3 DEF In, Promoted
<1>5. \A j \in Job : ~DeadLettered(j)
  <2>1. Len(dlq) = 0
    BY <1>2
  <2>. QED  BY <2>1 DEF DeadLettered
<1>6. LostOK /\ KindsOK /\ RetriesOK
  BY <1>2, <1>5 DEF LostOK, KindsOK, RetriesOK, Waiting
<1>7. LoadOK
  BY <1>2, <1>4 DEF LoadOK
<1>8. RequestsOK /\ SentOK
  BY <1>2, <1>4 DEF RequestsOK, SentOK, Pending
<1>9. OwnersOK /\ UsedOK
  BY <1>3, <1>4, ClientsAreJobs DEF OwnersOK, UsedOK, IsLast
<1>10. GrantsOK
  <2>1. \A j \in Job : Granted(j) = {} /\ Asked(j) = {} /\ ~Unsent(j) /\ job[j].tries = 0
    BY <1>2, <1>4 DEF Granted, Asked, Pending, Unsent, Blocking, Init, QueueInit
  <2>2. IsFiniteSet({}) /\ Cardinality({}) = 0
    BY FS_EmptySet
  <2>3. ASSUME NEW j \in Job
        PROVE  /\ IsFiniteSet(Asked(j))
               /\ Cardinality(Granted(j)) + Cardinality(Asked(j))
                     + (IF Unsent(j) THEN 1 ELSE 0) <= job[j].tries
    <3>1. IsFiniteSet(Asked(j)) /\ Cardinality(Asked(j)) = 0 /\ Cardinality(Granted(j)) = 0
      BY <2>1, <2>2
    <3>. QED  BY <2>1, <3>1
  <2>. QED  BY <1>2, <2>3 DEF GrantsOK
<1>. QED  BY <1>1, <1>6, <1>7, <1>8, <1>9, <1>10 DEF OutcomeInv

LEMMA OutcomeStep == OutcomeInv /\ [Next]_vars => OutcomeInv'
<1>1. ASSUME OutcomeInv, Next PROVE OutcomeInv'
  <2>. USE <1>1 DEF OutcomeInv
  <2>1. IInv'
    BY IInvStep
  <2>2. /\ TypeOK /\ StagesOK /\ JobsOK /\ TargetsOK /\ TagsOK
    BY DEF IInv
  <2>3. LostOK' /\ KindsOK' /\ LoadOK' /\ RetriesOK'
    BY <2>2, LostStep, KindsStep, LoadStep, RetriesStep
  <2>4. RequestsOK' /\ OwnersOK' /\ SentOK' /\ UsedOK' /\ GrantsOK'
    BY <2>2, RequestsStep, OwnersStep, SentStep, UsedStep, GrantsOKStep
  <2>. QED  BY <2>1, <2>3, <2>4
<1>2. ASSUME OutcomeInv, UNCHANGED vars PROVE OutcomeInv'
  <2>. USE <1>2 DEF vars, queueVars, registryVars, bounds, OutcomeInv
  <2>1. IInv'
    BY IInvStep
  <2>2. /\ Numbers' = Numbers /\ Promoted' = Promoted /\ Pending' = Pending
        /\ \A stage : In(stage)' = In(stage)
        /\ \A j : DeadLettered(j)' = DeadLettered(j)
        /\ \A c : Succeeded(c)' = Succeeded(c) /\ \A v : IsLast(c, v)' = IsLast(c, v)
        /\ \A req : Awaited(req)' = Awaited(req)
        /\ Disturbed' = Disturbed
    BY DEF Numbers, Promoted, Pending, In, DeadLettered, Succeeded, IsLast, Awaited,
           Disturbed
  <2>3. LostOK'
    BY <2>2 DEF LostOK, HasBody
  <2>4. KindsOK'
    BY DEF KindsOK
  <2>5. LoadOK'
    BY <2>2 DEF LoadOK
  <2>6. RetriesOK'
    BY <2>2 DEF RetriesOK
  <2>7. RequestsOK'
    BY <2>2 DEF RequestsOK
  <2>8. OwnersOK'
    BY <2>2 DEF OwnersOK
  <2>9. SentOK'
    BY <2>2 DEF SentOK
  <2>10. UsedOK'
    BY <2>2 DEF UsedOK, Used
  <2>11. GrantsOK'
    BY <2>2 DEF GrantsOK, Granted, Asked, Unsent
  <2>. QED  BY <2>1, <2>3, <2>4, <2>5, <2>6, <2>7, <2>8, <2>9, <2>10, <2>11
<1>. QED  BY <1>1, <1>2

\* main.py, the three jobs, register.py and promotion.py: what a job, a request under
\* way and a version say of each other, in every reachable state.
THEOREM Outcomes == Spec => []OutcomeInv
BY InitOutcome, OutcomeStep, PTL DEF Spec

\* main.py and the handlers of the three jobs: undisturbed, arq gives a job up only
\* if its own body has expired, since each handler counts the tries as arq does.
THEOREM LostJobsAreExplained == Spec => []LostIsExplained
<1>. OutcomeInv => LostIsExplained
  BY DEF OutcomeInv, LostOK, LostIsExplained
<1>. QED  BY Outcomes, PTL

\* service/main.py and load_model: once the setup has staged a version there is always
\* one to load, between the two transitions of a promotion and after a torn one as well.
THEOREM SomethingToLoad == Spec => []ModelLoadable
<1>. OutcomeInv => ModelLoadable
  BY LoadFinds DEF OutcomeInv, IInv, In, Numbers, ModelLoadable
<1>. QED  BY Outcomes, PTL

\* replay_test.py: each try of a replay that fails costs a fault, for any number of
\* jobs that share them, so that fewer faults than tries dead-letter none.
THEOREM ReplaysOutlastFaults == Spec => []RetriesSuffice
<1>1. ASSUME OutcomeInv PROVE RetriesSuffice
  <2>. SUFFICES ASSUME NEW j \in Job, DeadLettered(j), job[j].key.kind = "replay_test",
                       faults < MaxTries, crashes = 0, ~activeRun
                PROVE  FALSE
    BY DEF RetriesSuffice
  <2>. USE <1>1 DEF OutcomeInv, IInv
  <2>1. job[j].tries = MaxTries
    BY DEF JobsOK, DeadLetteredOnce, DeadLettered
  <2>2. job[j].status # "absent"
    BY <2>1, TriesAreNat DEF JobsOK
  <2>3. job[j].tries <= faults
    BY <2>2 DEF RetriesOK
  <2>4. faults \in Nat
    BY WorkerBounds DEF TypeOK
  <2>. QED  BY <2>1, <2>3, <2>4, TriesAreNat
<1>2. OutcomeInv => RetriesSuffice
  BY <1>1
<1>. QED  BY <1>2, Outcomes, PTL

\* retrain.py and promotion.py: without a fault or a crash nothing was promoted for a
\* job that then failed for good.
THEOREM DeadLettersPromoteNothing == Spec => []DeadLetterHasNoEffect
<1>. OutcomeInv => DeadLetterHasNoEffect
  BY DEF OutcomeInv, SentOK, Succeeded, DeadLetterHasNoEffect
<1>. QED  BY Outcomes, PTL

\* dedup.py with retrain.py: without a fault, a crash or an expiry an approved retrain
\* is promoted at most once, whatever other jobs and trainings come between.
THEOREM RetrainsPromoteOnce == Spec => []PromotesOnce
<1>1. ASSUME OutcomeInv PROVE PromotesOnce
  <2>. USE <1>1 DEF OutcomeInv, IInv
  <2>. SUFFICES ASSUME ~Disturbed, expiries = 0, NEW v \in Promoted, NEW w \in Promoted,
                       job[versions[v].granted].key = job[versions[w].granted].key
                PROVE  v = w
    BY DEF PromotesOnce
  <2>1. \A c : Succeeded(c) => c \in Job /\ job[c].status # "absent"
    BY DEF Succeeded, JobsOK, RunningOK
  <2>2. /\ Succeeded(versions[v].granted) /\ Succeeded(versions[w].granted)
        /\ versions[v].granted = versions[w].granted => v = w
    BY DEF SentOK
  <2>3. versions[v].granted = versions[w].granted
    BY <2>1, <2>2 DEF LostOK, HasBody
  <2>. QED  BY <2>2, <2>3
<1>2. OutcomeInv => PromotesOnce
  BY <1>1
<1>. QED  BY <1>2, Outcomes, PTL

\* retrain.py and rollback.py: a lost answer, a timeout or a crash makes a job ask
\* again, and each of its tries promotes at most one version.
THEOREM TriesPromoteOnce == Spec => []OnePromotionPerTry
<1>1. ASSUME OutcomeInv PROVE OnePromotionPerTry
  <2>. SUFFICES ASSUME NEW j \in Job
                PROVE  Cardinality(Granted(j)) <= job[j].tries
    BY DEF OnePromotionPerTry, Granted
  <2>. USE <1>1 DEF OutcomeInv, IInv
  <2>1. /\ Cardinality(Granted(j)) \in Nat /\ Cardinality(Asked(j)) \in Nat
        /\ job[j].tries \in Nat
    BY GrantedIsFinite, FS_CardinalityType DEF GrantsOK, TypeOK, QueueTypeOK, JobRow
  <2>2. \/ Cardinality(Granted(j)) + Cardinality(Asked(j)) + 1 <= job[j].tries
        \/ Cardinality(Granted(j)) + Cardinality(Asked(j)) + 0 <= job[j].tries
    BY DEF GrantsOK
  <2>. QED  BY <2>1, <2>2
<1>2. OutcomeInv => OnePromotionPerTry
  BY <1>1
<1>. QED  BY <1>2, Outcomes, PTL

\* retrain.py, register.py and promotion.py: a retrain that ended well has its last
\* model promoted or one at least as good, as long as no trainer took another's
\* version for its own; no fault, crash or lost answer is excluded.
THEOREM RetrainsAreUsed == Spec => []RetrainIsUsed
<1>. OutcomeInv => RetrainIsUsed
  BY DEF OutcomeInv, UsedOK, Used, IsLast, RetrainIsUsed
<1>. QED  BY Outcomes, PTL
=============================================================================
