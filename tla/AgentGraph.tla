------------------------------ MODULE AgentGraph ------------------------------
(***************************************************************************)
(* The agent service: webhook intake, the LangGraph supervisor graph with  *)
(* its Postgres checkpoints, the human-in-the-loop approvals, the admin    *)
(* reset and the dispatch of approved actions to the worker queue.         *)
(*                                                                         *)
(* A task is one HTTP request the service is handling: a webhook delivery  *)
(* with the background graph run it starts, or a POST /hil/approve with    *)
(* the graph run it resumes.  Everything a task holds is lost in a crash;  *)
(* the tables, the checkpoints and Redis survive it.  A node that changes  *)
(* something outside the graph takes two steps, the effect and then the    *)
(* save of its checkpoint, so that a crash or another request can fall     *)
(* between them.                                                           *)
(***************************************************************************)
EXTENDS Naturals, Sequences

CONSTANTS
    Investigation,   \* ids of the investigations table (uuid4, also thread ids)
    Approval,        \* ids of the hil_approvals table (uuid4)
    Report,          \* ids of the drift reports the model service computes
    Task,            \* HTTP requests being handled at the same time
    NoId,            \* None
    RecursionLimit,  \* supersteps LangGraph grants one ainvoke call
    MaxFaults,       \* bound: failing calls to a tool, a database or Redis
    MaxCrashes       \* bound: crashes of the agent process

ASSUME NoIdIsFresh == NoId \notin Investigation \cup Approval \cup Report
ASSUME BoundsAreNat == {RecursionLimit, MaxFaults, MaxCrashes} \subseteq Nat

VARIABLES
    reports,   \* severity of each report the model service has computed
    current,   \* the report GET /drift/report now returns
    inv,       \* investigations: the alert's report and the status column
    hil,       \* hil_approvals: investigation, action and status columns
    ckpt,      \* latest checkpoint of each thread: the state and the next node
    task,      \* the requests in flight
    dedup,     \* Redis keys dispatch:{action}:{investigation}, one TTL window
    jobs,      \* the jobs pushed to the arq queue, in order
    granted,   \* history: the approvals a human has ever approved
    faults,
    crashes

service == <<reports, current>>
tables  == <<inv, hil>>
queue   == <<dedup, jobs>>
bounds  == <<faults, crashes>>
vars    == <<service, tables, queue, bounds, ckpt, task, granted>>

Severity     == {"low", "medium", "high"}
Actionable   == {"medium", "high"}
Dispatchable == {"replay_test", "retrain", "rollback"}

AgentState ==
    [report            : Report \cup {NoId},
     drift_report_id   : Report \cup {NoId},
     proposed_action   : Dispatchable \cup {"none", "no_action"},
     requires_hil      : BOOLEAN,
     hil_approval_id   : Approval \cup {NoId},
     awaiting_approval : BOOLEAN,
     dispatch_status   : {"", "blocked", "enqueued", "deduplicated", "error"},
     status            : {"open", "awaiting_approval", "resolved"},
     comms_done        : BOOLEAN]

Node == {"supervisor", "triage_agent", "action_agent", "request_hil",
         "pause_for_human", "dispatch", "comms_agent"}

\* Where a task is: about to run a node, inside the dispatch node ("freshness",
\* "setnx", "enqueue"), with a node's effect done and its checkpoint not yet
\* saved ("save"), or in the handler around the graph run.
Pc == Node \cup {"idle", "insert", "failed", "start", "resume",
                 "freshness", "setnx", "enqueue", "save"}

InitialState(r) ==
    [report |-> NoId, drift_report_id |-> r, proposed_action |-> "none",
     requires_hil |-> FALSE, hil_approval_id |-> NoId,
     awaiting_approval |-> FALSE, dispatch_status |-> "", status |-> "open",
     comms_done |-> FALSE]

IdleTask == [pc |-> "idle", inv |-> NoId, report |-> NoId,
             st |-> InitialState(NoId), steps |-> 0]

Row        == [report : Report \cup {NoId},
               status : {"none", "open", "awaiting_approval", "resolved"}]
HilRow     == [inv    : Investigation \cup {NoId},
               action : Dispatchable \cup {"none"},
               status : {"none", "pending", "approved", "rejected"}]
Checkpoint == [next : Node \cup {"none", "end"}, st : AgentState]
TaskState  == [pc     : Pc,
               inv    : Investigation \cup {NoId},
               report : Report \cup {NoId},
               st     : AgentState,
               steps  : 0 .. RecursionLimit]
JobKey     == [inv : Investigation, action : Dispatchable]
Job        == [inv : Investigation, action : Dispatchable,
               approval : Approval \cup {NoId}]

TypeOK ==
    /\ reports \in [Report -> Severity \cup {"none"}]
    /\ current \in Report \cup {NoId}
    /\ inv \in [Investigation -> Row]
    /\ hil \in [Approval -> HilRow]
    /\ ckpt \in [Investigation -> Checkpoint]
    /\ task \in [Task -> TaskState]
    /\ dedup \subseteq JobKey
    /\ jobs \in Seq(Job)
    /\ granted \subseteq Approval
    /\ faults \in 0 .. MaxFaults
    /\ crashes \in 0 .. MaxCrashes

Init ==
    /\ reports = [r \in Report |-> "none"]
    /\ current = NoId
    /\ inv = [i \in Investigation |-> [report |-> NoId, status |-> "none"]]
    /\ hil = [a \in Approval |-> [inv |-> NoId, action |-> "none",
                                  status |-> "none"]]
    /\ ckpt = [i \in Investigation |-> [next |-> "none",
                                        st |-> InitialState(NoId)]]
    /\ task = [t \in Task |-> IdleTask]
    /\ dedup = {}
    /\ jobs = << >>
    /\ granted = {}
    /\ faults = 0
    /\ crashes = 0

-----------------------------------------------------------------------------
(* The model service, as the agent sees it: every computation of the drift *)
(* report has a new id.                                                    *)

NewReport(r, s) ==
    /\ reports[r] = "none"
    /\ reports' = [reports EXCEPT ![r] = s]
    /\ current' = r
    /\ UNCHANGED <<tables, queue, bounds, ckpt, task, granted>>

AlertSeverity(i) == reports[inv[i].report]

-----------------------------------------------------------------------------
(* POST /webhook/drift.  The service draws one event id per report, so the *)
(* lookup and the unique constraint on event or report are on the report.  *)

HasInvestigation(r) == \E i \in Investigation : inv[i].report = r

\* Mutant: the table has no unique constraint.
NoUniqueViolation(r) == r \notin Report
UniqueViolation(r) == HasInvestigation(r)

\* The first SELECT.  A delivery that finds a row is answered as a duplicate
\* and changes nothing; only the others go on to the INSERT.
Deliver(t, r) ==
    /\ task[t].pc = "idle"
    /\ reports[r] # "none"
    /\ ~HasInvestigation(r)
    /\ task' = [task EXCEPT ![t] = [IdleTask EXCEPT !.pc = "insert",
                                                    !.report = r]]
    /\ UNCHANGED <<service, tables, queue, bounds, ckpt, granted>>

\* The INSERT and its commit.
InsertRow(t, i) ==
    /\ task[t].pc = "insert"
    /\ ~UniqueViolation(task[t].report)
    /\ inv[i].status = "none"
    /\ inv' = [inv EXCEPT ![i] = [report |-> task[t].report,
                                  status |-> "open"]]
    /\ task' = [task EXCEPT ![t] = [task[t] EXCEPT !.pc = "start", !.inv = i]]
    /\ UNCHANGED <<service, hil, queue, bounds, ckpt, granted>>

\* Postgres reports a unique violation when the INSERT executes, outside the
\* handler's try block around the commit: the request ends in an error.
InsertConflict(t) ==
    /\ task[t].pc = "insert"
    /\ UniqueViolation(task[t].report)
    /\ task' = [task EXCEPT ![t].pc = "failed"]
    /\ UNCHANGED <<service, tables, queue, bounds, ckpt, granted>>

AnswerFailed(t) ==
    /\ task[t].pc = "failed"
    /\ task' = [task EXCEPT ![t] = IdleTask]
    /\ UNCHANGED <<service, tables, queue, bounds, ckpt, granted>>

-----------------------------------------------------------------------------
(* Running the graph.  A superstep runs one node and saves its checkpoint. *)

Fault   == faults < MaxFaults /\ faults' = faults + 1
NoFault == faults' = faults

At(t, n) == task[t].pc = n /\ task[t].steps < RecursionLimit

SaveCheckpoint(i, n, st) ==
    ckpt' = [ckpt EXCEPT ![i] = [next |-> n, st |-> st]]

\* A worker node returned st and has no unsaved effect: the superstep is saved
\* and the supervisor is next.
Return(t, st) ==
    /\ SaveCheckpoint(task[t].inv, "supervisor", st)
    /\ task' = [task EXCEPT ![t] = [task[t] EXCEPT !.pc = "supervisor", !.st = st,
                                             !.steps = task[t].steps + 1]]

\* The task goes on to a later point of the same node.
Within(t, pc, st) ==
    /\ task' = [task EXCEPT ![t] = [task[t] EXCEPT !.pc = pc, !.st = st]]
    /\ ckpt' = ckpt

\* An exception leaves ainvoke: the last checkpoint stays.
Abort(t) ==
    /\ task' = [task EXCEPT ![t] = IdleTask]
    /\ ckpt' = ckpt

\* The background task calls ainvoke; the checkpoint of its input is saved.
StartGraph(t) ==
    /\ task[t].pc = "start"
    /\ LET st == InitialState(task[t].report) IN
          /\ SaveCheckpoint(task[t].inv, "supervisor", st)
          /\ task' = [task EXCEPT ![t] = [task[t] EXCEPT !.pc = "supervisor",
                                                   !.st = st]]
    /\ UNCHANGED <<service, tables, queue, bounds, granted>>

\* ainvoke(None): run on from the thread's latest checkpoint, or return at
\* once when the thread has ended.
Resume(t) ==
    /\ task[t].pc = "resume"
    /\ LET c == ckpt[task[t].inv] IN
          IF c.next \in Node THEN Within(t, c.next, c.st) ELSE Abort(t)
    /\ UNCHANGED <<service, tables, queue, bounds, granted>>

RecursionError(t) ==
    /\ task[t].pc \in Node
    /\ task[t].steps = RecursionLimit
    /\ Abort(t)
    /\ UNCHANGED <<service, tables, queue, bounds, granted>>

\* supervisor_node's policy, in the order of its branches.
CommsOrEnd(st) == IF st.comms_done THEN "end" ELSE "comms_agent"

Route(severity, st) ==
    IF st.status = "resolved" THEN CommsOrEnd(st)
    ELSE IF st.report = NoId THEN "triage_agent"
    ELSE IF severity \notin Actionable THEN CommsOrEnd(st)
    ELSE IF st.proposed_action = "none" THEN "action_agent"
    ELSE IF st.proposed_action = "no_action" THEN CommsOrEnd(st)
    ELSE IF st.awaiting_approval THEN "pause_for_human"
    ELSE IF st.requires_hil /\ st.hil_approval_id = NoId THEN "request_hil"
    ELSE IF st.dispatch_status = "" THEN "dispatch"
    ELSE CommsOrEnd(st)

\* The supervisor saves its choice.  The run stops at the end and, because of
\* interrupt_before, whenever a supervisor step leads to pause_for_human: only
\* a resume that starts from that checkpoint runs the node.
Supervisor(t) ==
    /\ At(t, "supervisor")
    /\ LET i == task[t].inv
           n == Route(AlertSeverity(i), task[t].st)
       IN  /\ SaveCheckpoint(i, n, task[t].st)
           /\ task' = [task EXCEPT ![t] =
                          IF n \in {"end", "pause_for_human"} THEN IdleTask
                          ELSE [task[t] EXCEPT !.pc = n,
                                             !.steps = task[t].steps + 1]]
    /\ UNCHANGED <<service, tables, queue, bounds, granted>>

\* Mutant: only the triage notes of the result are kept.
TriagedNotesOnly(st) == st
Triaged(st) == [st EXCEPT !.report = current, !.drift_report_id = current]

\* The report is fetched, and replaces the alert's in the staleness guard.  A
\* failing inspect_drift leaves the state without one; a failing LLM does not.
TriageAgent(t) ==
    /\ At(t, "triage_agent")
    /\ \/ NoFault /\ Return(t, Triaged(task[t].st))
       \/ Fault /\ Return(t, task[t].st)
    /\ UNCHANGED <<service, tables, queue, crashes, granted>>

\* Mutant: the branches for high and medium are exchanged.
ProposeExchanged(severity) ==
    CASE severity = "low" -> "no_action"
      [] severity = "high" -> "replay_test"
      [] OTHER -> "retrain"
ProposeAction(severity) ==
    CASE severity = "low" -> "no_action"
      [] severity = "high" -> "retrain"
      [] OTHER -> "replay_test"

\* The staleness guard compares the stored report id with the stored report.
ActionAgent(t) ==
    /\ At(t, "action_agent")
    /\ LET st == task[t].st
           action == ProposeAction(AlertSeverity(task[t].inv))
       IN  \/ /\ NoFault
              /\ Return(t, IF st.drift_report_id # st.report
                           THEN [st EXCEPT !.status = "resolved"]
                           ELSE [st EXCEPT !.proposed_action = action,
                                           !.requires_hil = action # "no_action",
                                           !.awaiting_approval = FALSE])
           \/ /\ Fault
              /\ Return(t, [st EXCEPT !.proposed_action = "none",
                                   !.requires_hil = FALSE])
    /\ UNCHANGED <<service, tables, queue, crashes, granted>>

\* Mutant: the approval is requested for a retrain whatever was proposed.
RequestRetrain(t) == [inv |-> task[t].inv, action |-> "retrain",
                      status |-> "pending"]
ApprovalRow(t) == [inv |-> task[t].inv, action |-> task[t].st.proposed_action,
                   status |-> "pending"]

\* The tool inserts the approval row and commits; the node's new state is saved
\* only afterwards.
RequestHil(t, a) ==
    /\ At(t, "request_hil")
    /\ hil[a].status = "none"
    /\ LET st == task[t].st IN
          IF st.proposed_action \notin Dispatchable
          THEN /\ Return(t, [st EXCEPT !.requires_hil = FALSE,
                                      !.awaiting_approval = FALSE])
               /\ hil' = hil
          ELSE /\ Within(t, "save", [st EXCEPT !.requires_hil = TRUE,
                                              !.awaiting_approval = TRUE,
                                              !.hil_approval_id = a,
                                              !.status = "awaiting_approval"])
               /\ hil' = [hil EXCEPT ![a] = ApprovalRow(t)]
    /\ UNCHANGED <<service, inv, queue, bounds, granted>>

RequestHilFails(t) ==
    /\ At(t, "request_hil")
    /\ task[t].st.proposed_action \in Dispatchable
    /\ Fault
    /\ Return(t, [task[t].st EXCEPT !.status = "resolved"])
    /\ UNCHANGED <<service, tables, queue, crashes, granted>>

\* The checkpoint after a node whose effect is done.
Save(t) ==
    /\ At(t, "save")
    /\ Return(t, task[t].st)
    /\ UNCHANGED <<service, tables, queue, bounds, granted>>

\* _approval_is_valid.  Mutant: the decision is not looked at.
ApprovalExists(i, st) ==
    /\ st.hil_approval_id # NoId
    /\ LET row == hil[st.hil_approval_id] IN
          row.inv = i /\ row.action = st.proposed_action
ApprovalIsValid(i, st) ==
    /\ st.hil_approval_id # NoId
    /\ st.proposed_action \in Dispatchable
    /\ LET row == hil[st.hil_approval_id] IN
          /\ row.inv = i
          /\ row.status = "approved"
          /\ row.action = st.proposed_action

\* Mutant: the flag that sends the run to the human is not cleared.
StillAwaiting(ok, st) ==
    [st EXCEPT !.status = IF ok THEN "open" ELSE "resolved"]
AfterPause(ok, st) ==
    [st EXCEPT !.awaiting_approval = FALSE,
               !.status = IF ok THEN "open" ELSE "resolved"]

\* The query for the approval runs outside safe_run: a database error ends the
\* run, here and in Dispatch.
PauseForHuman(t) ==
    /\ At(t, "pause_for_human")
    /\ \/ NoFault /\ LET st == task[t].st IN
                        Return(t, AfterPause(ApprovalIsValid(task[t].inv, st), st))
       \/ Fault /\ Abort(t)
    /\ UNCHANGED <<service, tables, queue, crashes, granted>>

-----------------------------------------------------------------------------
(* The dispatch node: approval, freshness, model version, then Redis.      *)

\* Mutant: a blocked dispatch does not resolve the investigation.
BlockedOpen(st) == [st EXCEPT !.dispatch_status = "blocked"]
Blocked(st) == [st EXCEPT !.dispatch_status = "blocked", !.status = "resolved"]

Outcome(st, status) ==
    [st EXCEPT !.dispatch_status = status, !.status = "resolved"]

Dispatch(t) ==
    /\ At(t, "dispatch")
    /\ LET st == task[t].st IN
          \/ /\ NoFault
             /\ IF st.awaiting_approval \/ st.proposed_action \notin Dispatchable
                THEN Return(t, st)
                ELSE IF st.requires_hil /\ ~ApprovalIsValid(task[t].inv, st)
                THEN Return(t, Blocked(st))
                ELSE Within(t, "freshness", st)
          \/ Fault /\ st.requires_hil /\ Abort(t)
    /\ UNCHANGED <<service, tables, queue, crashes, granted>>

\* _freshness_error: a report with another id passes when its severity is the
\* alert's, and the report the triage saw passes whatever its severity.
IsFresh(i, st) ==
    \/ st.drift_report_id = NoId
    \/ st.drift_report_id = current
    \/ reports[current] = AlertSeverity(i)

\* A report that cannot be fetched, or a model version that has neither itself
\* nor a Production version to go on with, blocks the dispatch too.
CheckFreshness(t) ==
    /\ task[t].pc = "freshness"
    /\ LET st == task[t].st IN
          \/ /\ NoFault
             /\ IF IsFresh(task[t].inv, st) THEN Within(t, "setnx", st)
                ELSE Return(t, Blocked(st))
          \/ Fault /\ Return(t, Blocked(st))
    /\ UNCHANGED <<service, tables, queue, crashes, granted>>

KeyOf(t) == [inv |-> task[t].inv, action |-> task[t].st.proposed_action]

JobWith(k) == \E n \in 1 .. Len(jobs) :
                 jobs[n].inv = k.inv /\ jobs[n].action = k.action

\* Mutants: the guard looks for a job in the queue instead of claiming the key
\* atomically; the key leaves out the investigation.
AlreadyQueued(k) == JobWith(k)
KeyOfActionSeen(k) == \E d \in dedup : d.action = k.action
KeyTaken(k) == k \in dedup

\* SET NX of the idempotency key.
ClaimKey(t) ==
    /\ task[t].pc = "setnx"
    /\ LET st == task[t].st IN
          \/ /\ NoFault
             /\ KeyTaken(KeyOf(t))
             /\ Return(t, Outcome(st, "deduplicated"))
             /\ dedup' = dedup
          \/ /\ NoFault
             /\ ~KeyTaken(KeyOf(t))
             /\ Within(t, "enqueue", st)
             /\ dedup' = dedup \cup {KeyOf(t)}
          \/ /\ Fault
             /\ Return(t, Outcome(st, "error"))
             /\ dedup' = dedup
    /\ UNCHANGED <<service, tables, jobs, crashes, granted>>

\* enqueue_job.  A failure leaves the key behind.
Enqueue(t) ==
    /\ task[t].pc = "enqueue"
    /\ LET st == task[t].st IN
          \/ /\ NoFault
             /\ jobs' = Append(jobs, [inv |-> task[t].inv,
                                      action |-> st.proposed_action,
                                      approval |-> st.hil_approval_id])
             /\ Within(t, "save", Outcome(st, "enqueued"))
          \/ /\ Fault
             /\ jobs' = jobs
             /\ Return(t, Outcome(st, "error"))
    /\ UNCHANGED <<service, tables, dedup, crashes, granted>>

\* Mutant: the status column is written from the outcome of the dispatch.
RowStatusFromDispatch(st) == st.dispatch_status
RowStatus(st) == st.status

\* update_dashboard writes the status column from the state; a failing tool is
\* ignored.  Without a report there is nothing to say.
CommsAgent(t) ==
    /\ At(t, "comms_agent")
    /\ LET done == [task[t].st EXCEPT !.comms_done = TRUE] IN
          \/ /\ NoFault
             /\ IF task[t].st.report = NoId
                THEN Return(t, done) /\ inv' = inv
                ELSE /\ inv' = [inv EXCEPT ![task[t].inv].status =
                                              RowStatus(task[t].st)]
                     /\ Within(t, "save", done)
          \/ /\ Fault
             /\ Within(t, "save", done)
             /\ inv' = inv
    /\ UNCHANGED <<service, hil, queue, crashes, granted>>

-----------------------------------------------------------------------------
(* The operator and the process.                                           *)

\* POST /hil/approve, for an approval and an investigation that need not go
\* together.  The UPDATE takes the row only if they do, whatever its status: a
\* row that is already decided can be decided again.
Matches(a, i) == hil[a].inv = i

Decide(a, i, decision) ==
    hil' = IF Matches(a, i) THEN [hil EXCEPT ![a].status = decision] ELSE hil

\* With "approved" the thread is resumed, whether a row was taken or not.
Approve(t, a, i) ==
    /\ task[t].pc = "idle"
    /\ inv[i].status # "none"
    /\ Decide(a, i, "approved")
    /\ granted' = IF Matches(a, i) THEN granted \cup {a} ELSE granted
    /\ task' = [task EXCEPT ![t] = [IdleTask EXCEPT !.pc = "resume", !.inv = i]]
    /\ UNCHANGED <<service, inv, queue, bounds, ckpt>>

\* With "rejected" the investigation is closed and the graph is not resumed.
Reject(a, i) ==
    /\ inv[i].status # "none"
    /\ Decide(a, i, "rejected")
    /\ inv' = [inv EXCEPT ![i].status = "resolved"]
    /\ UNCHANGED <<service, queue, bounds, ckpt, task, granted>>

\* POST /admin/reset.
AdminReset ==
    /\ inv' = [i \in Investigation |->
                 IF inv[i].status = "none" THEN inv[i]
                 ELSE [inv[i] EXCEPT !.status = "resolved"]]
    /\ hil' = [a \in Approval |->
                 IF hil[a].status = "pending"
                 THEN [hil[a] EXCEPT !.status = "rejected"] ELSE hil[a]]
    /\ UNCHANGED <<service, queue, bounds, ckpt, task, granted>>

\* The process dies and is started again.  The lifespan resumes no thread.
Crash ==
    /\ crashes < MaxCrashes
    /\ crashes' = crashes + 1
    /\ task' = [t \in Task |-> IdleTask]
    /\ UNCHANGED <<service, tables, queue, faults, ckpt, granted>>

-----------------------------------------------------------------------------
\* A step the event loop takes for a request already in flight.
Progress(t) ==
    \/ \E i \in Investigation : InsertRow(t, i)
    \/ \E a \in Approval : RequestHil(t, a)
    \/ InsertConflict(t) \/ AnswerFailed(t) \/ StartGraph(t) \/ Resume(t)
    \/ Supervisor(t) \/ TriageAgent(t) \/ ActionAgent(t) \/ RequestHilFails(t)
    \/ Save(t) \/ PauseForHuman(t) \/ Dispatch(t) \/ CheckFreshness(t)
    \/ ClaimKey(t) \/ Enqueue(t) \/ CommsAgent(t) \/ RecursionError(t)

Next ==
    \/ \E r \in Report, s \in Severity : NewReport(r, s)
    \/ \E t \in Task, r \in Report : Deliver(t, r)
    \/ \E t \in Task, a \in Approval, i \in Investigation : Approve(t, a, i)
    \/ \E t \in Task : Progress(t)
    \/ \E a \in Approval, i \in Investigation : Reject(a, i)
    \/ AdminReset
    \/ Crash

Spec == Init /\ [][Next]_vars

\* The event loop never stops serving a request it has accepted.  Nothing is
\* assumed of the model service, the operators and crashes.
FairSpec == Spec /\ \A t \in Task : WF_vars(Progress(t))

-----------------------------------------------------------------------------
(* Safety.                                                                 *)

\* One investigation per drift event, also when deliveries of the same event
\* overlap (ARCH.md: idempotent drift webhook intake).
OneInvestigationPerReport ==
    \A i, j \in Investigation :
        i # j /\ inv[i].report # NoId => inv[i].report # inv[j].report

\* However often an investigation is approved, resumed, crashed and resumed
\* again, and whatever two runs of its thread do at the same time, at most one
\* job of it reaches the queue within a TTL window of its key.
AtMostOneJob ==
    \A m, n \in 1 .. Len(jobs) : m # n => jobs[m].inv # jobs[n].inv

\* Every job carries an approval a human has granted, requested for the same
\* investigation and the same action.
JobApproved ==
    \A n \in 1 .. Len(jobs) :
        LET j == jobs[n] IN
            /\ j.approval \in granted
            /\ hil[j.approval].inv = j.inv
            /\ hil[j.approval].action = j.action

\* The queued action is the one the severity of the investigation's own alert
\* asks for, however the report has changed since; a low alert queues nothing.
JobFitsAlert ==
    \A n \in 1 .. Len(jobs) :
        \/ jobs[n].action = "retrain" /\ AlertSeverity(jobs[n].inv) = "high"
        \/ jobs[n].action = "replay_test" /\ AlertSeverity(jobs[n].inv) = "medium"

\* The approval a checkpoint waits for or was resumed with is a row of its own
\* investigation and proposal, also when two runs of the thread each requested
\* an approval and overwrote each other's checkpoint.
CheckpointApproval ==
    \A i \in Investigation :
        LET st == ckpt[i].st IN
            st.hil_approval_id # NoId =>
                /\ hil[st.hil_approval_id].inv = i
                /\ hil[st.hil_approval_id].action = st.proposed_action

\* What the dispatch reports is true of the queue: "enqueued" has a job, and
\* "deduplicated" too, or its enqueue is in flight or failed.
DispatchedIsQueued ==
    \A i \in Investigation :
        LET status == ckpt[i].st.dispatch_status
            queued == \E n \in 1 .. Len(jobs) : jobs[n].inv = i
        IN  /\ status = "enqueued" => queued
            /\ status = "deduplicated" =>
                  \/ queued
                  \/ \E t \in Task : task[t].pc = "enqueue" /\ task[t].inv = i
                  \/ faults + crashes > 0

\* A thread that has ended has closed the row the dashboard shows, unless a
\* write of it failed.
EndedIsResolved ==
    \A i \in Investigation :
        (/\ ckpt[i].next = "end"
         /\ AlertSeverity(i) \in Actionable
         /\ faults = 0) => inv[i].status = "resolved"

\* An investigation of an actionable alert that a rejection, a reset or its own
\* end has closed is not opened again by a run still in flight.
ResolvedStaysResolved ==
    [][\A i \in Investigation :
          inv[i].status = "resolved" /\ AlertSeverity(i) \in Actionable
              => inv'[i].status = "resolved"]_vars

-----------------------------------------------------------------------------
(* Liveness, under FairSpec.                                               *)

\* The thread of an investigation has reached a human or its end.
Rests(i) == ckpt[i].next \in {"pause_for_human", "end"}

\* Every opened investigation reaches its approval or its end, also when tools
\* fail on the way.
EveryInvestigationRests ==
    \A i \in Investigation :
        (inv[i].status # "none" /\ ckpt[i].next = "none") ~> Rests(i)

\* A resumed run that has picked up the paused thread takes it to its end,
\* whatever the operators decide meanwhile and other runs of the thread do.
ResumedRunEnds ==
    \A i \in Investigation :
        (\E t \in Task : task[t].pc = "pause_for_human" /\ task[t].inv = i)
            ~> ckpt[i].next = "end"

-----------------------------------------------------------------------------
(* What the documentation says and the code does not do.                   *)

\* A thread with a checkpoint goes on to its approval or its end, also when the
\* agent is killed (README: investigation resumes from the last checkpoint).
CheckpointedThreadContinues ==
    \A i \in Investigation : ckpt[i].next \in Node ~> Rests(i)

\* A granted approval takes effect: its thread ends, unless the decision is
\* changed (hil.py: record HIL decision and resume the paused graph).
ApprovalTakesEffect ==
    \A i \in Investigation, a \in Approval :
        (a \in granted /\ hil[a].inv = i)
            ~> (ckpt[i].next = "end" \/ hil[a].status # "approved")
=============================================================================
