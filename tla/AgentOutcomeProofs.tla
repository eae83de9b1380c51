-------------------------- MODULE AgentOutcomeProofs --------------------------
(* Proofs about how an investigation ends in AgentGraph: what a thread says of *)
(* its dispatch is true, and the row of one that has ended is closed.          *)
EXTENDS AgentGraphProofs

\* The investigation has its job, or the one that is to queue it has claimed the
\* key, or something failed.
Queued(i)  == \E n \in 1 .. Len(jobs) : jobs[n].inv = i
Settled(i) == \/ Queued(i)
              \/ \E t \in Task : task[t].pc = "enqueue" /\ task[t].inv = i
              \/ faults + crashes > 0

\* The dispatch status of a state is true of the queue.
Told(i, st) ==
    /\ st.dispatch_status = "enqueued" => Queued(i)
    /\ st.dispatch_status = "deduplicated" => Settled(i)

\* As long as nothing has failed, the state of an actionable alert is resolved
\* only after a triage, so that its comms node does write the row.
AfterTriage ==
    Dispatching \cup {"action_agent", "request_hil", "pause_for_human", "dispatch"}

Closing(i, n, st) ==
    faults = 0 /\ AlertSeverity(i) \in Actionable =>
        /\ st.report = NoId => st.status # "resolved"
        /\ n \in AfterTriage => st.report # NoId
        /\ n = "end" => st.comms_done
        /\ st.comms_done => inv[i].status = "resolved"

OutcomesOK ==
    /\ (\E r \in Report : reports[r] # "none") => current # NoId
    /\ \A k \in dedup : Settled(k.inv)
    /\ \A i \in Investigation :
          /\ Told(i, ckpt[i].st)
          /\ ckpt[i].next # "none" => Closing(i, ckpt[i].next, ckpt[i].st)
    /\ \A t \in Task :
          task[t].pc \in Running \ {"start", "resume"} =>
              /\ Told(task[t].inv, task[t].st)
              /\ Closing(task[t].inv, task[t].pc, task[t].st)

-----------------------------------------------------------------------------
\* What the step leads to, in terms of the values after it.
QueuedAfter(i)  == \E n \in 1 .. Len(jobs') : jobs'[n].inv = i
SettledAfter(i) == \/ QueuedAfter(i)
                   \/ \E t \in Task : task'[t].pc = "enqueue" /\ task'[t].inv = i
                   \/ faults' + crashes' > 0
ToldAfter(i, st) ==
    /\ st.dispatch_status = "enqueued" => QueuedAfter(i)
    /\ st.dispatch_status = "deduplicated" => SettledAfter(i)
ClosingAfter(i, n, st) ==
    faults' = 0 /\ SeverityAfter(i) \in Actionable =>
        /\ st.report = NoId => st.status # "resolved"
        /\ n \in AfterTriage => st.report # NoId
        /\ n = "end" => st.comms_done
        /\ st.comms_done => inv'[i].status = "resolved"

\* Failing calls and crashes are only counted up.
LEMMA BoundsGrow ==
    ASSUME IInv, Next
    PROVE  /\ {faults, crashes, faults', crashes'} \subseteq Nat
           /\ faults' >= faults /\ crashes' >= crashes
           /\ Fault => faults' > 0
<1>1. {faults, crashes} \subseteq Nat
  BY BoundsAreNat DEF IInv, TypeOK
<1>2. ASSUME NEW t \in Task, Progress(t)
      PROVE  (faults' = faults \/ faults' = faults + 1) /\ crashes' = crashes
  BY <1>2
  DEF Progress, InsertRow, RequestHil, InsertConflict, AnswerFailed, StartGraph, Resume,
      Supervisor, TriageAgent, ActionAgent, RequestHilFails, Save, PauseForHuman,
      Dispatch, CheckFreshness, ClaimKey, Enqueue, CommsAgent, RecursionError,
      Fault, NoFault, bounds
<1>3. /\ faults' = faults \/ faults' = faults + 1
      /\ crashes' = crashes \/ crashes' = crashes + 1
  BY <1>2 DEF Next, NewReport, Deliver, Approve, Reject, AdminReset, Crash, bounds
<1>. QED  BY <1>1, <1>3 DEF Fault

\* A queued job stays, and a claimed key comes to its job or to a failure.
LEMMA SettledStays ==
    ASSUME IInv, Next, NEW i
    PROVE  /\ Queued(i) => QueuedAfter(i)
           /\ Settled(i) => SettledAfter(i)
<1>. USE DEF queue, service, tables, bounds
<1>1. ASSUME NEW t \in Task, Enqueue(t)
      PROVE  /\ Queued(i) => QueuedAfter(i)
             /\ QueuedAfter(task[t].inv) \/ faults' > 0
  <2>. DEFINE job == [inv |-> task[t].inv, action |-> task[t].st.proposed_action,
                      approval |-> task[t].st.hil_approval_id]
  <2>1. CASE jobs' = Append(jobs, job)
    <3>1. jobs \in Seq(Job)
      BY DEF IInv, TypeOK
    <3>2. /\ Len(jobs') = Len(jobs) + 1 /\ Len(jobs) \in Nat
          /\ jobs'[Len(jobs) + 1] = job
          /\ \A n \in 1 .. Len(jobs) : jobs'[n] = jobs[n]
      BY <2>1, <3>1
    <3>. QED  BY <3>2 DEF Queued, QueuedAfter
  <2>2. CASE jobs' = jobs /\ Fault
    BY <2>2, BoundsGrow DEF Queued, QueuedAfter
  <2>. QED  BY <1>1, <2>1, <2>2 DEF Enqueue
<1>2. jobs' = jobs \/ \E t \in Task : Enqueue(t)
  <2>1. \A t \in Task : Progress(t) => jobs' = jobs \/ Enqueue(t)
    BY ProgressFrame DEF IInv, ClaimKey
  <2>. QED
    BY <2>1 DEF Next, NewReport, Deliver, Approve, Reject, AdminReset, Crash
<1>3. Queued(i) => QueuedAfter(i)
  BY <1>1, <1>2 DEF Queued, QueuedAfter
<1>4. ASSUME NEW t \in Task, task[t].pc = "enqueue", task[t].inv = i
      PROVE  SettledAfter(i)
  <2>1. CASE task'[t] = task[t]
    BY <1>4, <2>1 DEF SettledAfter
  <2>2. CASE Crash
    <3>1. crashes' > 0
      BY <2>2, BoundsGrow DEF Crash
    <3>. QED  BY <3>1, BoundsGrow DEF SettledAfter
  <2>3. CASE Progress(t)
    <3>1. Enqueue(t)
      BY <1>4, <2>3
      DEF Progress, InsertRow, RequestHil, InsertConflict, AnswerFailed, StartGraph,
          Resume, Supervisor, TriageAgent, ActionAgent, RequestHilFails, Save,
          PauseForHuman, Dispatch, CheckFreshness, ClaimKey, CommsAgent,
          RecursionError, At, Node
    <3>. QED  BY <1>1, <1>4, <3>1, BoundsGrow DEF SettledAfter
  <2>4. ASSUME NEW u \in Task \ {t}, Progress(u)
        PROVE  task'[t] = task[t]
    BY <2>4, ProgressFrame DEF IInv
  <2>. QED
    BY <1>4, <2>1, <2>2, <2>3, <2>4
    DEF Next, NewReport, Deliver, Approve, Reject, AdminReset, IInv, TypeOK
<1>. QED  BY <1>3, <1>4, BoundsGrow DEF Settled, SettledAfter

LEMMA ToldStays ==
    ASSUME IInv, Next, NEW i, NEW st, Told(i, st)
    PROVE  ToldAfter(i, st)
BY SettledStays DEF Told, ToldAfter

LEMMA ClosingStays ==
    ASSUME IInv, Next, NEW i \in Investigation, inv[i].status # "none",
           NEW n, NEW st, Closing(i, n, st)
    PROVE  ClosingAfter(i, n, st)
<1>1. SeverityAfter(i) = AlertSeverity(i)
  BY RowsMonotone DEF IInv, SeverityAfter, AlertSeverity
<1>2. faults' = 0 => faults = 0
  BY BoundsGrow
<1>. QED  BY <1>1, <1>2, ResolvedStep DEF Closing, ClosingAfter

\* A report that has a severity has come from the service, and the service
\* returns one from then on.
LEMMA ReportIsThere ==
    ASSUME IInv, OutcomesOK, Next
    PROVE  (\E r \in Report : reports'[r] # "none") => current' # NoId
<1>. USE DEF service
<1>1. CASE UNCHANGED <<reports, current>>
  BY <1>1 DEF OutcomesOK
<1>2. CASE \E r \in Report, s \in Severity : NewReport(r, s)
  BY <1>2, NoIdIsFresh DEF NewReport
<1>. QED
  BY <1>1, <1>2, ProgressFrame
  DEF Next, Deliver, Approve, Reject, AdminReset, Crash, IInv

\* A key is claimed by the request that goes on to enqueue its job.
LEMMA KeysSettled ==
    ASSUME IInv, OutcomesOK, Next
    PROVE  \A k \in dedup' : SettledAfter(k.inv)
<1>. USE DEF queue
<1>1. \A k \in dedup : SettledAfter(k.inv)
  BY SettledStays DEF OutcomesOK
<1>2. ASSUME NEW t \in Task, ClaimKey(t), dedup' # dedup
      PROVE  \A k \in dedup' : SettledAfter(k.inv)
  <2>1. /\ dedup' = dedup \cup {KeyOf(t)}
        /\ Within(t, "enqueue", task[t].st)
    BY <1>2 DEF ClaimKey
  <2>2. task'[t].pc = "enqueue" /\ task'[t].inv = task[t].inv
    BY <2>1 DEF Within, IInv, TypeOK, TaskState
  <2>3. SettledAfter(KeyOf(t).inv)
    BY <2>2 DEF SettledAfter, KeyOf
  <2>. QED  BY <1>1, <2>1, <2>3
<1>3. dedup' = dedup \/ \E t \in Task : ClaimKey(t)
  <2>1. \A t \in Task : Progress(t) => dedup' = dedup \/ ClaimKey(t)
    BY ProgressFrame DEF IInv, Enqueue
  <2>. QED
    BY <2>1 DEF Next, NewReport, Deliver, Approve, Reject, AdminReset, Crash
<1>. QED  BY <1>1, <1>2, <1>3

\* The route the supervisor takes suits how the investigation is to end.
LEMMA RouteCloses ==
    ASSUME NEW i, NEW st \in AgentState, Closing(i, "supervisor", st)
    PROVE  Closing(i, Route(AlertSeverity(i), st), st)
BY DEF Closing, Route, CommsOrEnd, AfterTriage, Dispatching, AgentState

\* The report, the comms and the dispatch status of a state a node returns.
SameReport(s, st) == s.report = st.report /\ s.comms_done = st.comms_done
SameTale(s, st)   == SameReport(s, st) /\ s.dispatch_status = st.dispatch_status

LEMMA NodeTales ==
    ASSUME TypeOK, NEW st \in AgentState
    PROVE  /\ Triaged(st).report = current
           /\ Triaged(st).comms_done = st.comms_done
           /\ Triaged(st).dispatch_status = st.dispatch_status
           /\ \A ok \in BOOLEAN : SameTale(AfterPause(ok, st), st)
           /\ SameReport(Blocked(st), st) /\ Blocked(st).dispatch_status = "blocked"
           /\ \A o \in {"enqueued", "deduplicated", "error"} :
                 SameReport(Outcome(st, o), st) /\ Outcome(st, o).dispatch_status = o
           /\ SameTale([st EXCEPT !.status = "resolved"], st)
           /\ SameTale([st EXCEPT !.proposed_action = "none", !.requires_hil = FALSE], st)
           /\ \A a \in {"no_action", "retrain", "replay_test"} :
                 SameTale([st EXCEPT !.proposed_action = a,
                                     !.requires_hil = a # "no_action",
                                     !.awaiting_approval = FALSE], st)
           /\ \A a \in Approval :
                 SameTale([st EXCEPT !.requires_hil = TRUE, !.awaiting_approval = TRUE,
                                     !.hil_approval_id = a,
                                     !.status = "awaiting_approval"], st)
           /\ [st EXCEPT !.comms_done = TRUE].report = st.report
           /\ [st EXCEPT !.comms_done = TRUE].status = st.status
           /\ [st EXCEPT !.comms_done = TRUE].dispatch_status = st.dispatch_status
<1>. USE DEF AgentState, SameReport, SameTale
<1>1. /\ Triaged(st).report = current
      /\ Triaged(st).comms_done = st.comms_done
      /\ Triaged(st).dispatch_status = st.dispatch_status
  BY DEF Triaged
<1>2. \A ok \in BOOLEAN : SameTale(AfterPause(ok, st), st)
  BY DEF AfterPause
<1>3. SameReport(Blocked(st), st) /\ Blocked(st).dispatch_status = "blocked"
  BY DEF Blocked
<1>4. \A o \in {"enqueued", "deduplicated", "error"} :
         SameReport(Outcome(st, o), st) /\ Outcome(st, o).dispatch_status = o
  BY DEF Outcome
<1>5. /\ SameTale([st EXCEPT !.status = "resolved"], st)
      /\ SameTale([st EXCEPT !.proposed_action = "none", !.requires_hil = FALSE], st)
  OBVIOUS
<1>6. \A a \in {"no_action", "retrain", "replay_test"} :
         SameTale([st EXCEPT !.proposed_action = a,
                             !.requires_hil = a # "no_action",
                             !.awaiting_approval = FALSE], st)
  OBVIOUS
<1>7. \A a \in Approval :
         SameTale([st EXCEPT !.requires_hil = TRUE, !.awaiting_approval = TRUE,
                             !.hil_approval_id = a,
                             !.status = "awaiting_approval"], st)
  OBVIOUS
<1>8. /\ [st EXCEPT !.comms_done = TRUE].report = st.report
      /\ [st EXCEPT !.comms_done = TRUE].status = st.status
      /\ [st EXCEPT !.comms_done = TRUE].dispatch_status = st.dispatch_status
  OBVIOUS
<1>. QED  BY <1>1, <1>2, <1>3, <1>4, <1>5, <1>6, <1>7, <1>8

\* What the threads and the requests that run them say goes on to be true.
LEMMA StatesTold ==
    ASSUME IInv, OutcomesOK, Next
    PROVE  /\ \A i \in Investigation :
                 /\ ToldAfter(i, ckpt'[i].st)
                 /\ ckpt'[i].next # "none" => ClosingAfter(i, ckpt'[i].next, ckpt'[i].st)
           /\ \A t \in Task :
                 task'[t].pc \in Running \ {"start", "resume"} =>
                     /\ ToldAfter(task'[t].inv, task'[t].st)
                     /\ ClosingAfter(task'[t].inv, task'[t].pc, task'[t].st)
<1>. USE DEF service, tables, queue, bounds
<1>. DEFINE Held(i, n, st) == ToldAfter(i, st) /\ ClosingAfter(i, n, st)
            TaskHeld(u) == task'[u].pc \in Running \ {"start", "resume"} =>
                              Held(task'[u].inv, task'[u].pc, task'[u].st)
            ThreadHeld(i) ==
               /\ ToldAfter(i, ckpt'[i].st)
               /\ ckpt'[i].next # "none" => ClosingAfter(i, ckpt'[i].next, ckpt'[i].st)
<1>. SUFFICES (\A i \in Investigation : ThreadHeld(i)) /\ \A u \in Task : TaskHeld(u)
  OBVIOUS
<1>1. ASSUME NEW u \in Task, task'[u] = task[u]
      PROVE  TaskHeld(u)
  <2>. SUFFICES ASSUME task[u].pc \in Running \ {"start", "resume"}
                PROVE  Held(task[u].inv, task[u].pc, task[u].st)
    BY <1>1
  <2>1. task[u].inv \in Investigation /\ inv[task[u].inv].status # "none"
    BY DEF IInv, TasksOK
  <2>. QED  BY <2>1, ToldStays, ClosingStays DEF OutcomesOK
<1>2. ASSUME NEW i \in Investigation, ckpt'[i] = ckpt[i]
      PROVE  ThreadHeld(i)
  <2>1. ToldAfter(i, ckpt[i].st)
    BY ToldStays DEF OutcomesOK
  <2>2. ckpt[i].next # "none" => ClosingAfter(i, ckpt[i].next, ckpt[i].st)
    BY ClosingStays DEF OutcomesOK, IInv, StatesOK
  <2>. QED  BY <1>2, <2>1, <2>2
<1>3. ASSUME NEW u \in Task,
             task'[u].pc \in {"idle", "insert", "failed", "start", "resume"}
      PROVE  TaskHeld(u)
  BY <1>3 DEF Running, Node, Dispatching
<1>4. CASE ~(\E t \in Task : Progress(t))
  <2>1. ckpt' = ckpt
    BY <1>4 DEF Next, NewReport, Deliver, Approve, Reject, AdminReset, Crash
  <2>2. ASSUME NEW u \in Task
        PROVE  task'[u] = task[u] \/ task'[u].pc \in {"idle", "insert", "resume"}
    <3>1. ASSUME NEW t \in Task, NEW v, NEW pc, task' = [task EXCEPT ![t] = v],
                 v.pc \in {"insert", "resume"}
          PROVE  task'[u] = task[u] \/ task'[u].pc \in {"idle", "insert", "resume"}
      BY <3>1 DEF IInv, TypeOK
    <3>2. ASSUME NEW t \in Task, NEW r \in Report, Deliver(t, r)
          PROVE  task'[u] = task[u] \/ task'[u].pc \in {"idle", "insert", "resume"}
      <4>1. [IdleTask EXCEPT !.pc = "insert", !.report = r].pc = "insert"
        BY DEF IdleTask
      <4>. QED  BY <3>1, <3>2, <4>1 DEF Deliver
    <3>3. ASSUME NEW t \in Task, NEW a \in Approval, NEW i \in Investigation,
                 Approve(t, a, i)
          PROVE  task'[u] = task[u] \/ task'[u].pc \in {"idle", "insert", "resume"}
      <4>1. [IdleTask EXCEPT !.pc = "resume", !.inv = i].pc = "resume"
        BY DEF IdleTask
      <4>. QED  BY <3>1, <3>3, <4>1 DEF Approve
    <3>4. CASE Crash
      BY <3>4 DEF Crash, IdleTask
    <3>5. CASE task' = task
      BY <3>5
    <3>. QED
      BY <1>4, <3>2, <3>3, <3>4, <3>5 DEF Next, NewReport, Reject, AdminReset
  <2>. HIDE DEF TaskHeld, ThreadHeld
  <2>. QED  BY <1>1, <1>2, <1>3, <2>1, <2>2
<1>5. CASE \E t \in Task : Progress(t)
  <2>. PICK t \in Task : Progress(t)
    BY <1>5
  <2>. DEFINE i == task[t].inv
              st == task[t].st
              Own == i \in Investigation => ThreadHeld(i)
  <2>. SUFFICES TaskHeld(t) /\ Own
    <3>. HIDE DEF TaskHeld, ThreadHeld
    <3>1. \A u \in Task : TaskHeld(u)
      BY <1>1, ProgressFrame DEF IInv
    <3>2. \A j \in Investigation : ThreadHeld(j)
      BY <1>2, ProgressFrame DEF IInv
    <3>. QED  BY <3>1, <3>2
  <2>a. task[t] \in TaskState /\ st \in AgentState
    BY DEF IInv, TypeOK, TaskState
  <2>b. task[t].pc \in Running =>
          /\ i \in Investigation
          /\ inv[i].status # "none"
          /\ AlertSeverity(i) \in Severity
    BY DEF IInv, TasksOK, RowsOK
  <2>c. task[t].pc \in Running \ {"start", "resume"} =>
          /\ Told(i, st) /\ ToldAfter(i, st)
          /\ Closing(i, task[t].pc, st) /\ ClosingAfter(i, task[t].pc, st)
    BY <2>b, ToldStays, ClosingStays DEF OutcomesOK
  <2>d. ASSUME NEW s \in AgentState, Return(t, s), task[t].pc \in Running,
               Held(i, "supervisor", s)
        PROVE  TaskHeld(t) /\ Own
    <3>1. /\ task'[t].pc = "supervisor" /\ task'[t].st = s /\ task'[t].inv = i
          /\ ckpt'[i] = [next |-> "supervisor", st |-> s]
      BY <2>a, <2>b, <2>d DEF Return, SaveCheckpoint, IInv, TypeOK, TaskState
    <3>. QED  BY <2>d, <3>1
  <2>e. ASSUME NEW s \in AgentState, NEW pc, Within(t, pc, s), Held(i, pc, s)
        PROVE  TaskHeld(t) /\ Own
    <3>1. task'[t].pc = pc /\ task'[t].st = s /\ task'[t].inv = i
      BY <2>a, <2>e DEF Within, IInv, TypeOK, TaskState
    <3>2. Own
      BY <1>2, <2>e DEF Within
    <3>. QED  BY <2>e, <3>1, <3>2
  <2>f. ASSUME Abort(t) \/ task'[t].pc \in {"start", "failed", "idle"}, ckpt' = ckpt
        PROVE  TaskHeld(t) /\ Own
    <3>1. task'[t].pc \in {"idle", "start", "failed"}
      BY <2>f DEF Abort, IInv, TypeOK, IdleTask
    <3>2. TaskHeld(t)
      BY <1>3, <3>1
    <3>. QED  BY <1>2, <2>f, <3>2
  <2>g. Abort(t) => ckpt' = ckpt
    BY DEF Abort
  \* A node that has seen the triaged report, and leaves it and the comms alone.
  <2>h. ASSUME NEW s, NEW n, task[t].pc \in AfterTriage, n # "end",
               s.report = st.report, s.comms_done = st.comms_done
        PROVE  ClosingAfter(i, n, s)
    <3>1. task[t].pc \in Running \ {"start", "resume"}
      BY <2>h DEF AfterTriage, Dispatching, Running, Node
    <3>. QED  BY <2>c, <2>h, <3>1 DEF ClosingAfter
  <2>i. ASSUME NEW s, NEW n, Fault
        PROVE  ClosingAfter(i, n, s)
    BY <2>i, BoundsGrow DEF ClosingAfter
  \* A node past the triage that returns to the supervisor, or goes on.
  <2>k. ASSUME NEW s \in AgentState, NEW n, task[t].pc \in AfterTriage, n # "end",
               task[t].pc \in Running \ {"start", "resume"}, SameReport(s, st),
               s.dispatch_status \in {st.dispatch_status, "", "blocked", "error"}
        PROVE  Held(i, n, s)
    <3>1. ToldAfter(i, s)
      BY <2>c, <2>k DEF ToldAfter
    <3>2. ClosingAfter(i, n, s)
      BY <2>h, <2>k DEF SameReport
    <3>. QED  BY <3>1, <3>2
  <2>l. task[t].pc \in Running \ {"start", "resume"} => task[t].pc \in Running
    OBVIOUS
  <2>m. TypeOK
    BY DEF IInv
  <2>. HIDE DEF TaskHeld, Own, Held
  <2>1. CASE \/ \E j \in Investigation : InsertRow(t, j)
             \/ InsertConflict(t) \/ AnswerFailed(t)
    <3>1. ckpt' = ckpt /\ task'[t].pc \in {"start", "failed", "idle"}
      <4>1. CASE \E j \in Investigation : InsertRow(t, j)
        BY <4>1, <2>a DEF InsertRow, IInv, TypeOK, TaskState
      <4>2. CASE InsertConflict(t)
        BY <4>2, <2>a DEF InsertConflict, IInv, TypeOK, TaskState
      <4>3. CASE AnswerFailed(t)
        BY <4>3 DEF AnswerFailed, IInv, TypeOK, IdleTask
      <4>. QED  BY <2>1, <4>1, <4>2, <4>3
    <3>. QED  BY <2>f, <3>1
  <2>2. CASE StartGraph(t)
    <3>. DEFINE s0 == InitialState(task[t].report)
    <3>1. Held(i, "supervisor", s0)
      BY DEF Held, ToldAfter, ClosingAfter, InitialState, AfterTriage, Dispatching
    <3>2. /\ task'[t].pc = "supervisor" /\ task'[t].st = s0 /\ task'[t].inv = i
          /\ i \in Investigation => ckpt'[i] = [next |-> "supervisor", st |-> s0]
      BY <2>2, <2>a DEF StartGraph, SaveCheckpoint, IInv, TypeOK, TaskState
    <3>. QED  BY <3>1, <3>2 DEF TaskHeld, Own, Held
  <2>3. CASE Resume(t)
    <3>. DEFINE c == ckpt[i]
    <3>1. CASE c.next \in Node
      <4>1. i \in Investigation /\ inv[i].status # "none"
        BY <2>3, <2>b DEF Resume, Running
      <4>2. c.st \in AgentState /\ c.next # "none"
        BY <3>1, <4>1 DEF IInv, TypeOK, Checkpoint, Node
      <4>3. Held(i, c.next, c.st)
        BY <4>1, <4>2, ToldStays, ClosingStays DEF OutcomesOK, Held
      <4>4. Within(t, c.next, c.st)
        BY <2>3, <3>1 DEF Resume
      <4>. QED  BY <2>e, <4>2, <4>3, <4>4
    <3>2. CASE c.next \notin Node
      BY <2>3, <2>f, <2>g, <3>2 DEF Resume
    <3>. QED  BY <3>1, <3>2
  <2>4. CASE RecursionError(t)
    BY <2>4, <2>f, <2>g DEF RecursionError
  <2>5. CASE Supervisor(t)
    <3>. DEFINE n == Route(AlertSeverity(i), st)
    <3>1. task[t].pc = "supervisor" /\ task[t].pc \in Running \ {"start", "resume"}
      BY <2>5 DEF Supervisor, At, Running, Node
    <3>2. Closing(i, n, st)
      BY <2>a, <2>c, <3>1, RouteCloses
    <3>3. Held(i, n, st)
      BY <2>b, <2>c, <3>1, <3>2, ClosingStays DEF Held
    <3>. HIDE DEF n
    <3>4. ckpt'[i] = [next |-> n, st |-> st]
      BY <2>5, <2>b, <3>1 DEF Supervisor, SaveCheckpoint, IInv, TypeOK, n
    <3>5. \/ task'[t].pc = "idle"
          \/ task'[t].pc = n /\ task'[t].st = st /\ task'[t].inv = i
      BY <2>5, <2>a DEF Supervisor, IInv, TypeOK, TaskState, n, IdleTask
    <3>. QED  BY <1>3, <3>3, <3>4, <3>5 DEF TaskHeld, Own, Held
  <2>6. CASE TriageAgent(t)
    <3>1. task[t].pc = "triage_agent" /\ task[t].pc \in Running \ {"start", "resume"}
      BY <2>6 DEF TriageAgent, At, Running, Node
    <3>2. current # NoId
      BY <2>b, <3>1 DEF OutcomesOK, IInv, RowsOK, AlertSeverity, Severity
    <3>3. Held(i, "supervisor", Triaged(st))
      <4>1. /\ Triaged(st).report = current /\ Triaged(st).comms_done = st.comms_done
            /\ Triaged(st).dispatch_status = st.dispatch_status
        BY <2>a, <2>m, NodeTales
      <4>2. ToldAfter(i, Triaged(st))
        BY <2>c, <3>1, <4>1 DEF ToldAfter
      <4>3. ClosingAfter(i, "supervisor", Triaged(st))
        BY <2>c, <3>1, <3>2, <4>1 DEF ClosingAfter, AfterTriage, Dispatching
      <4>. QED  BY <4>2, <4>3 DEF Held
    <3>4. Fault => Held(i, "supervisor", st)
      BY <2>c, <2>i, <3>1 DEF Held
    <3>5. Triaged(st) \in AgentState
      BY <2>a, <2>m, NodeStateTypes
    <3>6. Return(t, Triaged(st)) \/ (Fault /\ Return(t, st))
      BY <2>6 DEF TriageAgent
    <3>. QED  BY <2>a, <2>d, <2>l, <3>1, <3>3, <3>4, <3>5, <3>6
  <2>7. CASE ActionAgent(t)
    <3>1. task[t].pc \in AfterTriage /\ task[t].pc \in Running \ {"start", "resume"}
      BY <2>7 DEF ActionAgent, At, Running, Node, AfterTriage
    <3>2. ProposeAction(AlertSeverity(i)) \in {"no_action", "retrain", "replay_test"}
      BY DEF ProposeAction
    <3>3. \E s \in AgentState : Return(t, s) /\ SameTale(s, st)
      <4>1. \A a \in {"no_action", "retrain", "replay_test"} :
               LET s == [st EXCEPT !.proposed_action = a,
                                   !.requires_hil = a # "no_action",
                                   !.awaiting_approval = FALSE]
               IN  s \in AgentState /\ SameTale(s, st)
        BY <2>a, <2>m, NodeStateTypes, NodeTales
      <4>2. LET s == [st EXCEPT !.status = "resolved"]
            IN  s \in AgentState /\ SameTale(s, st)
        BY <2>a, <2>m, NodeStateTypes, NodeTales
      <4>3. LET s == [st EXCEPT !.proposed_action = "none", !.requires_hil = FALSE]
            IN  s \in AgentState /\ SameTale(s, st)
        BY <2>a, <2>m, NodeStateTypes, NodeTales
      <4>. QED  BY <2>7, <3>2, <4>1, <4>2, <4>3 DEF ActionAgent
    <3>. QED  BY <2>d, <2>k, <2>l, <3>1, <3>3 DEF SameTale
  <2>8. CASE (\E a \in Approval : RequestHil(t, a)) \/ RequestHilFails(t)
    <3>1. task[t].pc \in AfterTriage /\ task[t].pc \in Running \ {"start", "resume"}
      BY <2>8 DEF RequestHil, RequestHilFails, At, Running, Node, AfterTriage
    <3>2. CASE RequestHilFails(t)
      <4>. DEFINE s == [st EXCEPT !.status = "resolved"]
      <4>1. s \in AgentState /\ SameTale(s, st)
        BY <2>a, <2>m, NodeStateTypes, NodeTales
      <4>2. Return(t, s)
        BY <3>2 DEF RequestHilFails
      <4>. HIDE DEF s
      <4>. QED  BY <2>d, <2>k, <2>l, <3>1, <4>1, <4>2 DEF SameTale
    <3>3. ASSUME NEW a \in Approval, RequestHil(t, a)
          PROVE  TaskHeld(t) /\ Own
      <4>. DEFINE s == [st EXCEPT !.requires_hil = TRUE, !.awaiting_approval = TRUE,
                                  !.hil_approval_id = a,
                                  !.status = "awaiting_approval"]
      <4>1. s \in AgentState /\ SameTale(s, st)
        BY <2>a, <2>m, NodeStateTypes, NodeTales
      <4>2. Within(t, "save", s)
        BY <3>3, RequestHilStep DEF IInv
      <4>. HIDE DEF s
      <4>. QED  BY <2>e, <2>k, <3>1, <4>1, <4>2 DEF SameTale
    <3>. QED  BY <2>8, <3>2, <3>3
  <2>9. CASE Save(t)
    <3>1. task[t].pc \in Running \ {"start", "resume"}
      BY <2>9 DEF Save, At, Running
    <3>2. ClosingAfter(i, "supervisor", st)
      BY <2>c, <3>1 DEF ClosingAfter, AfterTriage, Dispatching
    <3>3. Held(i, "supervisor", st)
      BY <2>c, <3>1, <3>2 DEF Held
    <3>4. Return(t, st)
      BY <2>9 DEF Save
    <3>. QED  BY <2>a, <2>d, <2>l, <3>1, <3>3, <3>4
  <2>10. CASE PauseForHuman(t)
    <3>1. task[t].pc \in AfterTriage /\ task[t].pc \in Running \ {"start", "resume"}
      BY <2>10 DEF PauseForHuman, At, Running, Node, AfterTriage
    <3>. DEFINE s == AfterPause(ApprovalIsValid(i, st), st)
    <3>2. s \in AgentState /\ SameTale(s, st)
      <4>1. ApprovalIsValid(i, st) \in BOOLEAN
        BY DEF ApprovalIsValid
      <4>. QED  BY <2>a, <2>m, <4>1, NodeStateTypes, NodeTales
    <3>3. Return(t, s) \/ Abort(t)
      BY <2>10 DEF PauseForHuman
    <3>. HIDE DEF s
    <3>4. Held(i, "supervisor", s)
      BY <2>k, <3>1, <3>2 DEF SameTale
    <3>. QED  BY <2>d, <2>f, <2>g, <2>l, <3>1, <3>2, <3>3, <3>4
  <2>11. CASE Dispatch(t) \/ CheckFreshness(t)
    <3>1. task[t].pc \in AfterTriage /\ task[t].pc \in Running \ {"start", "resume"}
      BY <2>11 DEF Dispatch, CheckFreshness, At, Running, Node, AfterTriage, Dispatching
    <3>2. /\ Blocked(st) \in AgentState /\ SameReport(Blocked(st), st)
          /\ Blocked(st).dispatch_status = "blocked"
      BY <2>a, <2>m, NodeStateTypes, NodeTales
    <3>3. \/ Return(t, st) \/ Return(t, Blocked(st)) \/ Abort(t)
          \/ Within(t, "freshness", st) \/ Within(t, "setnx", st)
      BY <2>11 DEF Dispatch, CheckFreshness
    <3>4. SameReport(st, st)
      BY DEF SameReport
    <3>5. \A n : n # "end" => Held(i, n, st) /\ Held(i, n, Blocked(st))
      BY <2>a, <2>k, <3>1, <3>2, <3>4
    <3>. QED  BY <2>a, <2>d, <2>e, <2>f, <2>g, <2>l, <3>1, <3>2, <3>3, <3>5
  <2>12. CASE ClaimKey(t) \/ Enqueue(t)
    <3>1. task[t].pc \in AfterTriage /\ task[t].pc \in Running \ {"start", "resume"}
      BY <2>12 DEF ClaimKey, Enqueue, Running, AfterTriage, Dispatching
    <3>2. \A o \in {"enqueued", "deduplicated", "error"} :
             /\ Outcome(st, o) \in AgentState
             /\ SameReport(Outcome(st, o), st)
             /\ Outcome(st, o).dispatch_status = o
      <4>1. \A o \in {"enqueued", "deduplicated", "error"} : Outcome(st, o) \in AgentState
        BY <2>a, <2>m, NodeStateTypes
      <4>. QED  BY <2>a, <2>m, <4>1, NodeTales
    <3>. DEFINE Close(n, o) == ClosingAfter(i, n, Outcome(st, o))
    <3>c. \A n, o : n # "end" /\ o \in {"enqueued", "deduplicated", "error"} => Close(n, o)
      BY <2>h, <3>1, <3>2 DEF SameReport
    <3>3. CASE Within(t, "enqueue", st) \/ Return(t, Outcome(st, "error"))
      <4>1. Held(i, "enqueue", st)
        BY <2>a, <2>k, <3>1 DEF SameReport
      <4>2. Held(i, "supervisor", Outcome(st, "error"))
        BY <2>k, <3>1, <3>2
      <4>. QED  BY <2>a, <2>d, <2>e, <2>l, <3>1, <3>2, <3>3, <4>1, <4>2
    <3>4. CASE ClaimKey(t) /\ Return(t, Outcome(st, "deduplicated")) /\ KeyTaken(KeyOf(t))
      <4>1. Settled(i)
        BY <3>4 DEF OutcomesOK, KeyTaken, KeyOf
      <4>2. SettledAfter(i)
        BY <4>1, SettledStays
      <4>3. ToldAfter(i, Outcome(st, "deduplicated"))
        BY <3>2, <4>2 DEF ToldAfter
      <4>4. Held(i, "supervisor", Outcome(st, "deduplicated"))
        BY <3>c, <4>3 DEF Held
      <4>. QED  BY <2>d, <2>l, <3>1, <3>2, <3>4, <4>4
    <3>5. CASE /\ Enqueue(t) /\ Within(t, "save", Outcome(st, "enqueued"))
               /\ jobs' = Append(jobs, [inv |-> i, action |-> st.proposed_action,
                                        approval |-> st.hil_approval_id])
      <4>1. QueuedAfter(i)
        <5>. DEFINE job == [inv |-> i, action |-> st.proposed_action,
                            approval |-> st.hil_approval_id]
        <5>1. jobs \in Seq(Job) /\ job.inv = i
          BY DEF IInv, TypeOK
        <5>2. Len(jobs') = Len(jobs) + 1 /\ jobs'[Len(jobs) + 1] = job /\ Len(jobs) \in Nat
          BY <3>5, <5>1
        <5>3. Len(jobs) + 1 \in 1 .. Len(jobs')
          BY <5>2
        <5>. QED  BY <5>1, <5>2, <5>3 DEF QueuedAfter
      <4>2. ToldAfter(i, Outcome(st, "enqueued"))
        BY <3>2, <4>1 DEF ToldAfter
      <4>3. Held(i, "save", Outcome(st, "enqueued"))
        BY <3>c, <4>2 DEF Held
      <4>. QED  BY <2>e, <3>2, <3>5, <4>3
    <3>. QED  BY <2>12, <3>3, <3>4, <3>5 DEF ClaimKey, Enqueue
  <2>13. CASE CommsAgent(t)
    <3>. DEFINE s == [st EXCEPT !.comms_done = TRUE]
    <3>1. task[t].pc = "comms_agent" /\ task[t].pc \in Running \ {"start", "resume"}
      BY <2>13 DEF CommsAgent, At, Running, Node
    <3>2. /\ s \in AgentState
          /\ s.report = st.report /\ s.status = st.status
          /\ s.dispatch_status = st.dispatch_status
      BY <2>a, <2>m, NodeStateTypes, NodeTales
    <3>3. SeverityAfter(i) = AlertSeverity(i)
      BY <2>b, <3>1, RowsMonotone DEF SeverityAfter, AlertSeverity, IInv
    <3>4. AlertSeverity(i) \in Actionable => st.status = "resolved"
      BY <3>1 DEF IInv, StatesOK, GoodAt
    <3>5. ASSUME NEW n, n \in {"save", "supervisor"}
          PROVE  ClosingAfter(i, n, s)
      <4>1. CASE Fault
        BY <2>i, <4>1
      <4>2. CASE NoFault /\ st.report # NoId /\ inv' = [inv EXCEPT ![i].status = st.status]
        <5>1. inv'[i].status = st.status
          BY <2>b, <3>1, <4>2 DEF IInv, TypeOK, Row
        <5>. QED  BY <2>c, <3>1, <3>2, <3>3, <3>4, <3>5, <4>2, <5>1
                  DEF ClosingAfter, AfterTriage, Dispatching
      <4>3. CASE NoFault /\ st.report = NoId
        BY <2>c, <3>1, <3>3, <3>4, <4>3 DEF ClosingAfter
      <4>. QED  BY <2>13, <4>1, <4>2, <4>3 DEF CommsAgent, RowStatus
    <3>6. Return(t, s) \/ Within(t, "save", s)
      BY <2>13 DEF CommsAgent
    <3>7. ToldAfter(i, s)
      BY <2>c, <3>1, <3>2 DEF ToldAfter
    <3>8. Held(i, "supervisor", s) /\ Held(i, "save", s)
      BY <3>5, <3>7 DEF Held
    <3>. HIDE DEF s
    <3>. QED  BY <2>d, <2>e, <2>l, <3>1, <3>2, <3>6, <3>8
  <2>. QED
    BY <2>1, <2>2, <2>3, <2>4, <2>5, <2>6, <2>7, <2>8, <2>9, <2>10, <2>11, <2>12, <2>13
    DEF Progress
<1>. QED  BY <1>4, <1>5

LEMMA OutcomesInit == Init => OutcomesOK
<1>. SUFFICES ASSUME Init PROVE OutcomesOK
  OBVIOUS
<1>1. /\ \A r \in Report : reports[r] = "none"
      /\ dedup = {}
  BY DEF Init
<1>2. \A i \in Investigation :
         ckpt[i].next = "none" /\ ckpt[i].st.dispatch_status = ""
  BY DEF Init, InitialState
<1>3. \A t \in Task : task[t].pc = "idle"
  BY DEF Init, IdleTask
<1>4. "idle" \notin Running
  BY DEF Running, Node, Dispatching
<1>. QED  BY <1>1, <1>2, <1>3, <1>4 DEF OutcomesOK, Told

LEMMA OutcomesStep == IInv /\ OutcomesOK /\ [Next]_vars => OutcomesOK'
<1>1. ASSUME IInv, OutcomesOK, Next PROVE OutcomesOK'
  <2>1. /\ \A i : Settled(i)' = SettledAfter(i)
        /\ \A i, st : ToldAfter(i, st) => Told(i, st)'
        /\ \A i, n, st : ClosingAfter(i, n, st) => Closing(i, n, st)'
    BY DEF Settled, SettledAfter, Queued, QueuedAfter, Told, ToldAfter, Closing,
           ClosingAfter, SeverityAfter, AlertSeverity
  <2>2. \A k \in dedup' : Settled(k.inv)'
    BY <1>1, <2>1, KeysSettled
  <2>. QED
    BY <1>1, <2>2, ReportIsThere, StatesTold
    DEF OutcomesOK, Told, ToldAfter, Closing, ClosingAfter, Settled, SettledAfter,
        Queued, QueuedAfter, SeverityAfter, AlertSeverity
<1>2. ASSUME OutcomesOK, UNCHANGED vars PROVE OutcomesOK'
  BY <1>2 DEF vars, service, tables, queue, bounds, OutcomesOK, Told, Closing, Settled,
              Queued, AlertSeverity
<1>. QED  BY <1>1, <1>2

THEOREM Outcomes == Spec => [](IInv /\ OutcomesOK)
BY Invariance, OutcomesInit, OutcomesStep, PTL DEF Spec

\* dispatch_node: a thread that says "enqueued" has a job in the queue, and one
\* that says "deduplicated" has one too, or its enqueue is in flight or failed.
THEOREM DispatchTellsTheTruth == Spec => []DispatchedIsQueued
<1>. OutcomesOK => DispatchedIsQueued
  BY DEF OutcomesOK, Told, Settled, Queued, DispatchedIsQueued
<1>. QED  BY Outcomes, PTL

\* comms_agent: a thread of an actionable alert that has ended without a failing
\* call has closed its row, for any number of runs, crashes and decisions.
THEOREM EndedRowsAreClosed == Spec => []EndedIsResolved
<1>. OutcomesOK => EndedIsResolved
  BY DEF OutcomesOK, Closing, EndedIsResolved
<1>. QED  BY Outcomes, PTL
=============================================================================
