------------------------------- MODULE JobQueue -------------------------------
(***************************************************************************)
(* The arq queue drift_actions in Redis: the dispatch keys of              *)
(* enqueue_with_dedup, the tries arq counts for each job, and the          *)
(* dead-letter list.  The dispatch itself (claim, then push) is modelled   *)
(* step by step in AgentGraph and is one step here.                        *)
(***************************************************************************)
EXTENDS Naturals, Sequences

CONSTANTS
    Job,             \* ids of arq jobs (uuid4)
    Investigation,   \* ids of investigations
    NoId,            \* None
    Key,             \* the actions and investigations that are dispatched
    MaxTries,        \* max_tries of WorkerSettings, and the 3 of every job
    MaxExpiries      \* bound: how often the 24 h of a dispatch key pass

ASSUME JobIdsAreFresh == NoId \notin Job \cup Investigation
Kind == {"replay_test", "retrain", "rollback"}

ASSUME KeysAreDispatches == Key \subseteq [kind : Kind, inv : Investigation]
ASSUME TriesAreNat == MaxTries \in Nat \ {0} /\ MaxExpiries \in Nat

VARIABLES
    job,       \* what the queue knows of each job
    keys,      \* dispatch:{action}:{investigation}: the job of the key, if any
    dlq,       \* drift_actions:dlq, in order of the pushes
    expiries

queueVars == <<job, keys, dlq, expiries>>

\* "claimed" is a job whose worker died: its in-progress key still stands.
\* arq counts a dead-lettered job as "done", since its function returned.
JobStatus == {"absent", "queued", "running", "claimed", "done", "lost"}
JobRow    == [key    : Key \cup {NoId},
              target : Nat,
              status : JobStatus,
              tries  : 0 .. MaxTries]

QueueTypeOK ==
    /\ job \in [Job -> JobRow]
    /\ \A j \in Job : job[j].status # "absent" => job[j].key \in Key
    /\ keys \in [Key -> Job \cup {NoId}]
    /\ dlq \in Seq(Job)
    /\ expiries \in 0 .. MaxExpiries

QueueInit ==
    /\ job = [j \in Job |-> [key |-> NoId, target |-> 0,
                             status |-> "absent", tries |-> 0]]
    /\ keys = [k \in Key |-> NoId]
    /\ dlq = << >>
    /\ expiries = 0

-----------------------------------------------------------------------------
Ended(j) == job[j].status \in {"done", "lost"}

DeadLettered(j) == \E n \in 1 .. Len(dlq) : dlq[n] = j

\* enqueue_with_dedup: a key that is set is answered "deduplicated".
\* Mutant: no key is ever found.
KeyNeverSet(k) == k \notin Key
KeyIsSet(k) == keys[k] # NoId

\* A new uuid4 each time: which of the unused ids it is makes no difference.
FreshId == CHOOSE j \in Job : job[j].status = "absent"

EnqueueJob(j, k, target) ==
    /\ job[j].status = "absent"
    /\ j = FreshId
    /\ ~KeyIsSet(k)
    /\ keys' = [keys EXCEPT ![k] = j]
    /\ job' = [job EXCEPT ![j] = [key |-> k, target |-> target,
                                  status |-> "queued", tries |-> 0]]
    /\ UNCHANGED <<dlq, expiries>>

\* A day has passed.  The key and the body arq keeps of its job expire within
\* the same second; a job without a body is failed by arq when it is picked up.
KeyExpires(k) ==
    /\ expiries < MaxExpiries
    /\ keys[k] # NoId
    /\ keys' = [keys EXCEPT ![k] = NoId]
    /\ expiries' = expiries + 1
    /\ UNCHANGED <<job, dlq>>

HasBody(j) == keys[job[j].key] = j

\* arq adds a try when it picks a job up, however the last one ended, and fails
\* a job whose tries are used up without running it again.
\* Mutant: the comparison lets one try too many through.
OneTryTooMany(j) == job[j].tries <= MaxTries
HasTry(j) == job[j].tries < MaxTries

PickUp(j) ==
    /\ job[j].status = "queued"
    /\ HasBody(j)
    /\ HasTry(j)
    /\ job' = [job EXCEPT ![j].status = "running",
                          ![j].tries = job[j].tries + 1]
    /\ UNCHANGED <<keys, dlq, expiries>>

GiveUpJob(j) ==
    /\ job[j].status = "queued"
    /\ ~HasBody(j) \/ ~HasTry(j)
    /\ job' = [job EXCEPT ![j].status = "lost"]
    /\ UNCHANGED <<keys, dlq, expiries>>

Leave(j, status) == job' = [job EXCEPT ![j].status = status]

\* The handler every job function ends in: its last try goes to the dead-letter
\* list, any other raises Retry.
\* Mutant: the comparison is with the number of retries.
OneTryMore(j) == job[j].tries > MaxTries
LastTry(j) == job[j].tries >= MaxTries

RetryJob(j) ==
    /\ ~LastTry(j)
    /\ Leave(j, "queued")
    /\ UNCHANGED <<keys, dlq, expiries>>

PushToDlq(j) ==
    /\ LastTry(j)
    /\ dlq' = Append(dlq, j)
    /\ UNCHANGED <<job, keys, expiries>>

FinishJob(j) == Leave(j, "done") /\ UNCHANGED <<keys, dlq, expiries>>

\* arq fails a job for good when its function raises anything but Retry.
FailJob(j) == Leave(j, "lost") /\ UNCHANGED <<keys, dlq, expiries>>

\* The worker dies; arq takes a job up again when its in-progress key is gone.
\* Mutant: a try that did not end is not counted.
OnlyEndedTries(j) == job[j].tries - 1
TriesKept(j) == job[j].tries

AbandonJobs ==
    /\ job' = [j \in Job |->
                 IF job[j].status = "running"
                 THEN [job[j] EXCEPT !.status = "claimed", !.tries = TriesKept(j)]
                 ELSE job[j]]
    /\ UNCHANGED <<keys, dlq, expiries>>

\* Mutant: a job that died on its last try stays claimed.
HasTriesLeft(j) == job[j].status = "claimed" /\ job[j].tries < MaxTries
Reclaimable(j) == job[j].status = "claimed"

ClaimExpires(j) ==
    /\ Reclaimable(j)
    /\ Leave(j, "queued")
    /\ UNCHANGED <<keys, dlq, expiries>>
=============================================================================
