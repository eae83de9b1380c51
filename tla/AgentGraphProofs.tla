--------------------------- MODULE AgentGraphProofs ---------------------------
(* Proofs about AgentGraph, for every number of investigations, approvals, *)
(* reports and concurrent requests.                                        *)
EXTENDS AgentGraphInv, TLAPS

LEMMA InitialStateType ==
    ASSUME NEW r \in Report \cup {NoId}
    PROVE  InitialState(r) \in AgentState
BY DEF InitialState, AgentState, Dispatchable

LEMMA IdleTaskType ==
    IdleTask \in TaskState
BY InitialStateType, BoundsAreNat DEF IdleTask, Pc, TaskState

\* A superstep that returns a well-typed state keeps the types of the
\* checkpoints and the tasks; so do the other ways to go on.
LEMMA ReturnType ==
    ASSUME TypeOK, NEW t \in Task, NEW st \in AgentState, Return(t, st),
           task[t].steps < RecursionLimit
    PROVE  ckpt' \in [Investigation -> Checkpoint] /\ task' \in [Task -> TaskState]
<1>1. [next |-> "supervisor", st |-> st] \in Checkpoint
  BY DEF Checkpoint, Node
<1>2. ckpt' \in [Investigation -> Checkpoint]
  BY <1>1 DEF TypeOK, Return, SaveCheckpoint
<1>3. task[t] \in TaskState
  BY DEF TypeOK
<1>4. task[t].steps + 1 \in 0 .. RecursionLimit
  BY <1>3, BoundsAreNat DEF TaskState
<1>5. "supervisor" \in Pc
  BY DEF Pc, Node
<1>6. [task[t] EXCEPT !.pc = "supervisor", !.st = st,
                      !.steps = task[t].steps + 1] \in TaskState
  BY <1>3, <1>4, <1>5 DEF TaskState
<1>7. task' \in [Task -> TaskState]
  BY <1>6 DEF TypeOK, Return
<1>. QED  BY <1>2, <1>7

LEMMA WithinType ==
    ASSUME TypeOK, NEW t \in Task, NEW st \in AgentState, NEW pc \in Pc,
           Within(t, pc, st)
    PROVE  ckpt' \in [Investigation -> Checkpoint] /\ task' \in [Task -> TaskState]
BY DEF TypeOK, Within, TaskState

LEMMA AbortType ==
    ASSUME TypeOK, NEW t \in Task, Abort(t)
    PROVE  ckpt' \in [Investigation -> Checkpoint] /\ task' \in [Task -> TaskState]
BY IdleTaskType DEF TypeOK, Abort

-----------------------------------------------------------------------------
\* What each node returns is a state of the declared type.
LEMMA NodeStateTypes ==
    ASSUME TypeOK, NEW st \in AgentState
    PROVE  /\ Triaged(st) \in AgentState
           /\ \A ok \in BOOLEAN : AfterPause(ok, st) \in AgentState
           /\ Blocked(st) \in AgentState
           /\ \A s \in {"enqueued", "deduplicated", "error"} :
                 Outcome(st, s) \in AgentState
           /\ [st EXCEPT !.comms_done = TRUE] \in AgentState
           /\ [st EXCEPT !.status = "resolved"] \in AgentState
           /\ [st EXCEPT !.proposed_action = "none", !.requires_hil = FALSE]
                 \in AgentState
           /\ \A a \in {"no_action", "retrain", "replay_test"} :
                 [st EXCEPT !.proposed_action = a,
                            !.requires_hil = a # "no_action",
                            !.awaiting_approval = FALSE] \in AgentState
           /\ \A a \in Approval :
                 [st EXCEPT !.requires_hil = TRUE, !.awaiting_approval = TRUE,
                            !.hil_approval_id = a,
                            !.status = "awaiting_approval"] \in AgentState
<1>. USE DEF AgentState, Dispatchable
<1>1. Triaged(st) \in AgentState
  BY DEF TypeOK, Triaged
<1>2. ASSUME NEW ok \in BOOLEAN PROVE AfterPause(ok, st) \in AgentState
  BY DEF AfterPause
<1>3. Blocked(st) \in AgentState
  BY DEF Blocked
<1>4. ASSUME NEW s \in {"enqueued", "deduplicated", "error"}
      PROVE  Outcome(st, s) \in AgentState
  BY DEF Outcome
<1>5. /\ [st EXCEPT !.comms_done = TRUE] \in AgentState
      /\ [st EXCEPT !.status = "resolved"] \in AgentState
      /\ [st EXCEPT !.proposed_action = "none", !.requires_hil = FALSE] \in AgentState
  OBVIOUS
<1>6. ASSUME NEW a \in {"no_action", "retrain", "replay_test"}
      PROVE  [st EXCEPT !.proposed_action = a,
                        !.requires_hil = a # "no_action",
                        !.awaiting_approval = FALSE] \in AgentState
  OBVIOUS
<1>7. ASSUME NEW a \in Approval
      PROVE  [st EXCEPT !.requires_hil = TRUE, !.awaiting_approval = TRUE,
                        !.hil_approval_id = a,
                        !.status = "awaiting_approval"] \in AgentState
  OBVIOUS
<1>. QED  BY <1>1, <1>2, <1>3, <1>4, <1>5, <1>6, <1>7

\* A request_hil node that runs has a proposal to ask the human about.
LEMMA RequestHilStep ==
    ASSUME StatesOK, NEW t \in Task, NEW a \in Approval, RequestHil(t, a)
    PROVE  /\ task[t].st.proposed_action \in Dispatchable
           /\ hil' = [hil EXCEPT ![a] = ApprovalRow(t)]
           /\ Within(t, "save", [task[t].st EXCEPT !.requires_hil = TRUE,
                                                  !.awaiting_approval = TRUE,
                                                  !.hil_approval_id = a,
                                                  !.status = "awaiting_approval"])
<1>1. task[t].pc = "request_hil"
  BY DEF RequestHil, At
<1>2. task[t].st.proposed_action \in Dispatchable
  BY <1>1 DEF StatesOK, GoodAt, Running, Node
<1>. QED  BY <1>2 DEF RequestHil

\* Every step keeps the types.
LEMMA TypeStep ==
    ASSUME TypeOK, TasksOK, StatesOK, Next
    PROVE  TypeOK'
<1>. USE DEF service, tables, queue, bounds
<1>1. CASE \E r \in Report, s \in Severity : NewReport(r, s)
  BY <1>1 DEF TypeOK, NewReport
<1>2. CASE \E t \in Task, r \in Report : Deliver(t, r)
  <2>. PICK t \in Task, r \in Report : Deliver(t, r)
    BY <1>2
  <2>1. [IdleTask EXCEPT !.pc = "insert", !.report = r] \in TaskState
    BY IdleTaskType DEF TaskState, Pc
  <2>. QED  BY <2>1 DEF TypeOK, Deliver
<1>3. CASE \E t \in Task, a \in Approval, i \in Investigation : Approve(t, a, i)
  <2>. PICK t \in Task, a \in Approval, k \in Investigation : Approve(t, a, k)
    BY <1>3
  <2>1. [IdleTask EXCEPT !.pc = "resume", !.inv = k] \in TaskState
    BY IdleTaskType, ZenonT(60) DEF TaskState, Pc, TypeOK, HilRow
  <2>2. hil' \in [Approval -> HilRow]
    BY SMTT(30) DEF TypeOK, Approve, Decide, Matches, HilRow
  <2>. QED  BY <2>1, <2>2 DEF TypeOK, Approve
<1>4. CASE \E a \in Approval, k \in Investigation : Reject(a, k)
  <2>. PICK a \in Approval, k \in Investigation : Reject(a, k)
    BY <1>4
  <2>1. hil' \in [Approval -> HilRow]
    BY SMTT(30) DEF TypeOK, Reject, Decide, Matches, HilRow
  <2>2. inv' \in [Investigation -> Row]
    BY DEF TypeOK, Reject, Decide, Matches, Row
  <2>. QED  BY <2>1, <2>2 DEF TypeOK, Reject
<1>5. CASE AdminReset
  <2>1. hil' \in [Approval -> HilRow]
    BY <1>5 DEF TypeOK, AdminReset, HilRow
  <2>2. inv' \in [Investigation -> Row]
    BY <1>5 DEF TypeOK, AdminReset, Row
  <2>. QED  BY <1>5, <2>1, <2>2 DEF TypeOK, AdminReset
<1>6. CASE Crash
  BY <1>6, IdleTaskType, BoundsAreNat DEF TypeOK, Crash
<1>7. CASE \E t \in Task : Progress(t)
  <2>. PICK t \in Task : Progress(t)
    BY <1>7
  <2>. DEFINE st == task[t].st
  <2>a. task[t] \in TaskState /\ st \in AgentState
    BY DEF TypeOK, TaskState
  <2>b. Fault => faults' \in 0 .. MaxFaults
    BY BoundsAreNat DEF TypeOK, Fault
  <2>c. NoFault => faults' \in 0 .. MaxFaults
    BY DEF TypeOK, NoFault
  <2>1. CASE \E i \in Investigation : InsertRow(t, i)
    <3>. PICK i \in Investigation : InsertRow(t, i)
      BY <2>1
    <3>1. [task[t] EXCEPT !.pc = "start", !.inv = i] \in TaskState
      BY <2>a DEF TaskState, Pc
    <3>2. [report |-> task[t].report, status |-> "open"] \in Row
      BY <2>a DEF TaskState, Row
    <3>. QED  BY <3>1, <3>2 DEF TypeOK, InsertRow
  <2>2. CASE \E a \in Approval : RequestHil(t, a)
    <3>. PICK a \in Approval : RequestHil(t, a)
      BY <2>2
    <3>1. ApprovalRow(t) \in HilRow
      BY <2>a, RequestHilStep DEF ApprovalRow, HilRow, RequestHil, At, TasksOK, Running,
         Node
    <3>2. hil' \in [Approval -> HilRow]
      BY <3>1, RequestHilStep DEF TypeOK
    <3>3. "save" \in Pc
      BY DEF Pc
    <3>4. ckpt' \in [Investigation -> Checkpoint] /\ task' \in [Task -> TaskState]
      BY <2>a, <3>3, NodeStateTypes, WithinType, RequestHilStep
    <3>. QED  BY <3>2, <3>4 DEF TypeOK, RequestHil
  <2>3. CASE InsertConflict(t)
    BY <2>3, <2>a DEF TypeOK, InsertConflict, TaskState, Pc
  <2>4. CASE AnswerFailed(t)
    BY <2>4, IdleTaskType DEF TypeOK, AnswerFailed
  <2>5. CASE StartGraph(t)
    <3>. DEFINE s0 == InitialState(task[t].report)
    <3>1. s0 \in AgentState
      BY <2>a, InitialStateType DEF TaskState
    <3>2. [task[t] EXCEPT !.pc = "supervisor", !.st = s0] \in TaskState
      BY <2>a, <3>1 DEF TaskState, Pc, Node
    <3>3. [next |-> "supervisor", st |-> s0] \in Checkpoint
      BY <3>1 DEF Checkpoint, Node
    <3>. QED  BY <2>5, <3>2, <3>3 DEF TypeOK, StartGraph, SaveCheckpoint
  <2>6. CASE Resume(t)
    <3>. DEFINE c == ckpt[task[t].inv]
    <3>1. task[t].inv \in Investigation
      BY <2>6 DEF TasksOK, Resume, Running
    <3>2. c.st \in AgentState
      BY <3>1 DEF TypeOK, Checkpoint
    <3>3. c.next \in Node => c.next \in Pc
      BY DEF Pc
    <3>4. ckpt' \in [Investigation -> Checkpoint] /\ task' \in [Task -> TaskState]
      BY <2>6, <3>2, <3>3, WithinType, AbortType DEF Resume
    <3>. QED  BY <2>6, <3>4 DEF TypeOK, Resume
  <2>7. CASE RecursionError(t)
    BY <2>7, AbortType DEF TypeOK, RecursionError
  <2>8. CASE Supervisor(t)
    <3>. DEFINE n == Route(AlertSeverity(task[t].inv), st)
    <3>1. n \in Node \cup {"end"} /\ n # "supervisor"
      BY DEF Route, CommsOrEnd, Node
    <3>2. [next |-> n, st |-> st] \in Checkpoint
      BY <2>a, <3>1 DEF Checkpoint
    <3>3. task[t].steps + 1 \in 0 .. RecursionLimit
      BY <2>8, <2>a, BoundsAreNat DEF Supervisor, At, TaskState
    <3>4. n # "end" =>
            [task[t] EXCEPT !.pc = n, !.steps = task[t].steps + 1] \in TaskState
      BY <2>a, <3>1, <3>3 DEF TaskState, Pc
    <3>. HIDE DEF n
    <3>5. ckpt' \in [Investigation -> Checkpoint]
      BY <2>8, <3>2 DEF TypeOK, Supervisor, SaveCheckpoint, n
    <3>6. task' \in [Task -> TaskState]
      BY <2>8, <3>4, IdleTaskType DEF TypeOK, Supervisor, n
    <3>. QED  BY <2>8, <3>5, <3>6 DEF TypeOK, Supervisor
  <2>9. CASE TriageAgent(t)
    <3>1. ckpt' \in [Investigation -> Checkpoint] /\ task' \in [Task -> TaskState]
      BY <2>9, <2>a, NodeStateTypes, ReturnType DEF TriageAgent, At
    <3>. QED  BY <2>9, <2>b, <2>c, <3>1 DEF TypeOK, TriageAgent
  <2>10. CASE ActionAgent(t)
    <3>1. ProposeAction(AlertSeverity(task[t].inv))
             \in {"no_action", "retrain", "replay_test"}
      BY DEF ProposeAction
    <3>2. \E s \in AgentState : Return(t, s)
      BY <2>10, <2>a, <3>1, NodeStateTypes DEF ActionAgent
    <3>3. ckpt' \in [Investigation -> Checkpoint] /\ task' \in [Task -> TaskState]
      BY <2>10, <3>2, ReturnType DEF ActionAgent, At
    <3>. QED  BY <2>10, <2>b, <2>c, <3>3 DEF TypeOK, ActionAgent
  <2>11. CASE RequestHilFails(t)
    <3>1. ckpt' \in [Investigation -> Checkpoint] /\ task' \in [Task -> TaskState]
      BY <2>11, <2>a, NodeStateTypes, ReturnType DEF RequestHilFails, At
    <3>. QED  BY <2>11, <2>b, <2>c, <3>1 DEF TypeOK, RequestHilFails
  <2>12. CASE Save(t)
    <3>1. ckpt' \in [Investigation -> Checkpoint] /\ task' \in [Task -> TaskState]
      BY <2>12, <2>a, ReturnType DEF Save, At
    <3>. QED  BY <2>12, <2>b, <2>c, <3>1 DEF TypeOK, Save
  <2>13. CASE PauseForHuman(t)
    <3>1. ApprovalIsValid(task[t].inv, st) \in BOOLEAN
      BY DEF ApprovalIsValid
    <3>2. ckpt' \in [Investigation -> Checkpoint] /\ task' \in [Task -> TaskState]
      BY <2>13, <2>a, <3>1, NodeStateTypes, ReturnType, AbortType
      DEF PauseForHuman, At
    <3>. QED  BY <2>13, <2>b, <2>c, <3>2 DEF TypeOK, PauseForHuman
  <2>14. CASE Dispatch(t)
    <3>1. "freshness" \in Pc
      BY DEF Pc
    <3>2. ckpt' \in [Investigation -> Checkpoint] /\ task' \in [Task -> TaskState]
      BY <2>14, <2>a, <3>1, NodeStateTypes, ReturnType, AbortType, WithinType
      DEF Dispatch, At
    <3>. QED  BY <2>14, <2>b, <2>c, <3>2 DEF TypeOK, Dispatch
  <2>15. CASE CheckFreshness(t)
    <3>1. "setnx" \in Pc /\ task[t].steps < RecursionLimit
      BY <2>15 DEF Pc, CheckFreshness, TasksOK, Dispatching
    <3>2. ckpt' \in [Investigation -> Checkpoint] /\ task' \in [Task -> TaskState]
      BY <2>15, <2>a, <3>1, NodeStateTypes, ReturnType, WithinType
      DEF CheckFreshness
    <3>. QED  BY <2>15, <2>b, <2>c, <3>2 DEF TypeOK, CheckFreshness
  <2>16. CASE ClaimKey(t)
    <3>1. "enqueue" \in Pc /\ task[t].steps < RecursionLimit
      BY <2>16 DEF Pc, ClaimKey, TasksOK, Dispatching
    <3>2. ckpt' \in [Investigation -> Checkpoint] /\ task' \in [Task -> TaskState]
      BY <2>16, <2>a, <3>1, NodeStateTypes, ReturnType, WithinType DEF ClaimKey
    <3>3. KeyOf(t) \in JobKey
      BY <2>16 DEF ClaimKey, KeyOf, JobKey, TasksOK, StatesOK, Running,
                   Dispatching, Approved
    <3>. QED  BY <2>16, <2>b, <2>c, <3>2, <3>3 DEF TypeOK, ClaimKey
  <2>17. CASE Enqueue(t)
    <3>1. "save" \in Pc /\ task[t].steps < RecursionLimit
      BY <2>17 DEF Pc, Enqueue, TasksOK, Dispatching
    <3>2. ckpt' \in [Investigation -> Checkpoint] /\ task' \in [Task -> TaskState]
      BY <2>17, <2>a, <3>1, NodeStateTypes, ReturnType, WithinType DEF Enqueue
    <3>3. [inv |-> task[t].inv, action |-> st.proposed_action,
           approval |-> st.hil_approval_id] \in Job
      BY <2>17, <2>a DEF Enqueue, Job, TasksOK, StatesOK, Running, Dispatching,
                         Approved, AgentState
    <3>4. jobs' \in Seq(Job)
      BY <2>17, <3>3, SMTT(30) DEF TypeOK, Enqueue
    <3>. QED  BY <2>17, <2>b, <2>c, <3>2, <3>4 DEF TypeOK, Enqueue
  <2>18. CASE CommsAgent(t)
    <3>1. "save" \in Pc
      BY DEF Pc
    <3>2. ckpt' \in [Investigation -> Checkpoint] /\ task' \in [Task -> TaskState]
      BY <2>18, <2>a, <3>1, NodeStateTypes, ReturnType, WithinType
      DEF CommsAgent, At
    <3>3. inv' \in [Investigation -> Row]
      <4>1. \/ inv' = inv
            \/ inv' = [inv EXCEPT ![task[t].inv].status = RowStatus(st)]
        BY <2>18 DEF CommsAgent
      <4>2. RowStatus(st) \in {"open", "awaiting_approval", "resolved"}
        BY <2>a DEF RowStatus, AgentState
      <4>. QED  BY <4>1, <4>2 DEF TypeOK, Row
    <3>. QED  BY <2>18, <2>b, <2>c, <3>2, <3>3 DEF TypeOK, CommsAgent
  <2>. QED
    BY <2>1, <2>2, <2>3, <2>4, <2>5, <2>6, <2>7, <2>8, <2>9, <2>10, <2>11,
       <2>12, <2>13, <2>14, <2>15, <2>16, <2>17, <2>18 DEF Progress
<1>. QED
  BY <1>1, <1>2, <1>3, <1>4, <1>5, <1>6, <1>7 DEF Next

-----------------------------------------------------------------------------
\* A step a request takes changes that request and the checkpoint of its own
\* thread; only the named actions touch the tables and the queue.
LEMMA ProgressFrame ==
    ASSUME TypeOK, NEW t \in Task, Progress(t)
    PROVE  /\ UNCHANGED <<reports, current, granted, crashes>>
           /\ inv' = inv \/ (\E i \in Investigation : InsertRow(t, i))
                         \/ CommsAgent(t)
           /\ hil' = hil \/ (\E a \in Approval : RequestHil(t, a))
           /\ UNCHANGED <<dedup, jobs>> \/ ClaimKey(t) \/ Enqueue(t)
           /\ \A u \in Task \ {t} : task'[u] = task[u]
           /\ \A i \in Investigation \ {task[t].inv} : ckpt'[i] = ckpt[i]
<1>. USE DEF service, tables, queue, bounds
<1>a. ASSUME NEW st, Return(t, st)
      PROVE  /\ \A u \in Task \ {t} : task'[u] = task[u]
             /\ \A i \in Investigation \ {task[t].inv} : ckpt'[i] = ckpt[i]
  BY <1>a DEF TypeOK, Return, SaveCheckpoint
<1>b. ASSUME NEW st, NEW pc, Within(t, pc, st)
      PROVE  (\A u \in Task \ {t} : task'[u] = task[u]) /\ ckpt' = ckpt
  BY <1>b DEF TypeOK, Within
<1>c. ASSUME Abort(t)
      PROVE  (\A u \in Task \ {t} : task'[u] = task[u]) /\ ckpt' = ckpt
  BY <1>c DEF TypeOK, Abort
<1>1. CASE \E i \in Investigation : InsertRow(t, i)
  BY <1>1 DEF TypeOK, InsertRow
<1>2. CASE InsertConflict(t) \/ AnswerFailed(t)
  BY <1>2 DEF TypeOK, InsertConflict, AnswerFailed
<1>3. CASE StartGraph(t) \/ Supervisor(t)
  BY <1>3 DEF TypeOK, StartGraph, Supervisor, SaveCheckpoint
<1>4. CASE Resume(t) \/ RecursionError(t)
  BY <1>4, <1>b, <1>c DEF Resume, RecursionError
<1>5. CASE TriageAgent(t) \/ ActionAgent(t) \/ RequestHilFails(t) \/ Save(t)
  BY <1>5, <1>a DEF TriageAgent, ActionAgent, RequestHilFails, Save
<1>6. CASE PauseForHuman(t) \/ Dispatch(t) \/ CheckFreshness(t)
  BY <1>6, <1>a, <1>b, <1>c DEF PauseForHuman, Dispatch, CheckFreshness
<1>7. CASE \E a \in Approval : RequestHil(t, a)
  BY <1>7, <1>a, <1>b DEF RequestHil
<1>8. CASE ClaimKey(t) \/ Enqueue(t)
  BY <1>8, <1>a, <1>b DEF ClaimKey, Enqueue
<1>9. CASE CommsAgent(t)
  BY <1>9, <1>a, <1>b DEF CommsAgent
<1>. QED
  BY <1>1, <1>2, <1>3, <1>4, <1>5, <1>6, <1>7, <1>8, <1>9 DEF Progress

\* Rows are never deleted, and what identifies them never changes.
LEMMA RowsMonotone ==
    ASSUME TypeOK, RowsOK, TasksOK, Next
    PROVE  /\ \A i \in Investigation : inv[i].status # "none" =>
                 /\ inv'[i].status # "none"
                 /\ inv'[i].report = inv[i].report
                 /\ AlertSeverity(i)' = AlertSeverity(i)
           /\ \A a \in Approval : hil[a].status # "none" =>
                 /\ hil'[a].status # "none"
                 /\ hil'[a].inv = hil[a].inv
                 /\ hil'[a].action = hil[a].action
           /\ granted \subseteq granted'
           /\ \A r \in Report : reports[r] # "none" => reports'[r] = reports[r]
<1>. USE DEF service, tables, queue, bounds
<1>1. \A r \in Report : reports[r] # "none" => reports'[r] = reports[r]
  <2>1. CASE \E r \in Report, s \in Severity : NewReport(r, s)
    BY <2>1 DEF NewReport, TypeOK
  <2>2. CASE UNCHANGED reports
    BY <2>2
  <2>. QED
    BY <2>1, <2>2, ProgressFrame
    DEF Next, Deliver, Approve, Reject, AdminReset, Crash
<1>2. granted \subseteq granted'
  BY ProgressFrame DEF Next, NewReport, Deliver, Approve, Reject, AdminReset, Crash
<1>3. \A i \in Investigation : inv[i].status # "none" =>
         inv'[i].status # "none" /\ inv'[i].report = inv[i].report
  <2>1. CASE inv' = inv
    BY <2>1
  <2>2. CASE \E a \in Approval, k \in Investigation : Reject(a, k)
    BY <2>2 DEF Reject, Decide, Matches, TypeOK, Row
  <2>3. CASE AdminReset
    BY <2>3 DEF AdminReset, TypeOK, Row
  <2>4. CASE \E t \in Task, i \in Investigation : InsertRow(t, i)
    BY <2>4 DEF InsertRow, TypeOK
  <2>5. ASSUME NEW t \in Task, CommsAgent(t)
        PROVE  \A i \in Investigation : inv[i].status # "none" =>
                  inv'[i].status # "none" /\ inv'[i].report = inv[i].report
    <3>1. \/ inv' = inv
          \/ inv' = [inv EXCEPT ![task[t].inv].status = RowStatus(task[t].st)]
      BY <2>5 DEF CommsAgent
    <3>2. RowStatus(task[t].st) # "none"
      BY DEF RowStatus, TypeOK, TaskState, AgentState
    <3>. QED  BY <3>1, <3>2 DEF TypeOK, Row
  <2>. QED
    BY <2>1, <2>2, <2>3, <2>4, <2>5, ProgressFrame
    DEF Next, NewReport, Deliver, Approve, Crash
<1>4. \A i \in Investigation : inv[i].status # "none" =>
         AlertSeverity(i)' = AlertSeverity(i)
  BY <1>1, <1>3 DEF RowsOK, AlertSeverity, Severity
<1>5. \A a \in Approval : hil[a].status # "none" =>
         /\ hil'[a].status # "none"
         /\ hil'[a].inv = hil[a].inv
         /\ hil'[a].action = hil[a].action
  <2>1. CASE hil' = hil
    BY <2>1
  <2>2. CASE \E t \in Task, a \in Approval, i \in Investigation : Approve(t, a, i)
    BY <2>2 DEF Approve, Decide, Matches, TypeOK, HilRow
  <2>3. CASE \E a \in Approval, k \in Investigation : Reject(a, k)
    BY <2>3 DEF Reject, Decide, Matches, TypeOK, HilRow
  <2>4. CASE AdminReset
    BY <2>4 DEF AdminReset, TypeOK, HilRow
  <2>5. CASE \E t \in Task, a \in Approval : RequestHil(t, a)
    BY <2>5 DEF RequestHil, TypeOK
  <2>. QED
    BY <2>1, <2>2, <2>3, <2>4, <2>5, ProgressFrame
    DEF Next, NewReport, Deliver, Crash
<1>. QED  BY <1>1, <1>2, <1>3, <1>4, <1>5

\* Only the INSERT gives a row its status, and it comes with the report of a
\* delivery; every other step leaves an absent row absent.
LEMMA RowsStep ==
    ASSUME TypeOK, RowsOK, TasksOK, StatesOK, Next
    PROVE  RowsOK'
<1>. USE DEF service, tables, queue, bounds
<1>1. ASSUME NEW i \in Investigation, inv[i].status = "none"
      PROVE  \/ inv'[i] = inv[i]
             \/ /\ inv'[i].status # "none"
                /\ inv'[i].report \in Report
                /\ reports[inv'[i].report] \in Severity
  <2>1. CASE inv' = inv
    BY <2>1
  <2>2. CASE \E a \in Approval, k \in Investigation : Reject(a, k)
    BY <2>2, <1>1 DEF Reject, Decide, Matches, TypeOK, RowsOK
  <2>3. CASE AdminReset
    BY <2>3, <1>1 DEF AdminReset, TypeOK
  <2>4. CASE \E t \in Task, j \in Investigation : InsertRow(t, j)
    BY <2>4, <1>1 DEF InsertRow, TypeOK, TasksOK
  <2>5. CASE \E t \in Task : CommsAgent(t)
    <3>. PICK t \in Task : CommsAgent(t)
      BY <2>5
    <3>1. task[t].inv # i
      BY <1>1 DEF CommsAgent, At, TasksOK, Running, Node
    <3>. QED  BY <3>1 DEF CommsAgent, TypeOK
  <2>. QED
    BY <2>1, <2>2, <2>3, <2>4, <2>5, ProgressFrame
    DEF Next, NewReport, Deliver, Approve, Crash
<1>2. \A i \in Investigation :
         IF inv'[i].status = "none" THEN inv'[i].report = NoId
         ELSE inv'[i].report \in Report /\ AlertSeverity(i)' \in Severity
  <2>. TAKE i \in Investigation
  <2>1. CASE inv[i].status # "none"
    BY <2>1, RowsMonotone DEF RowsOK
  <2>2. CASE inv[i].status = "none" /\ inv'[i] = inv[i]
    BY <2>2 DEF RowsOK
  <2>3. CASE /\ inv[i].status = "none"
             /\ inv'[i].status # "none"
             /\ inv'[i].report \in Report
             /\ reports[inv'[i].report] \in Severity
    BY <2>3, RowsMonotone DEF AlertSeverity, Severity
  <2>. QED  BY <1>1, <2>1, <2>2, <2>3
<1>3. \A a \in Approval :
         /\ IF hil'[a].status = "none" THEN hil'[a].inv = NoId
            ELSE /\ hil'[a].inv \in Investigation
                 /\ inv'[hil'[a].inv].status # "none"
         /\ hil'[a].status = "approved" => a \in granted'
         /\ a \in granted' => hil'[a].status # "none"
  <2>1. CASE hil' = hil /\ granted' = granted
    BY <2>1, RowsMonotone DEF RowsOK
  <2>2. CASE \E t \in Task, a \in Approval, i \in Investigation : Approve(t, a, i)
    BY <2>2, NoIdIsFresh DEF Approve, Decide, Matches, TypeOK, RowsOK, HilRow
  <2>3. CASE \E a \in Approval, k \in Investigation : Reject(a, k)
    <3>. PICK a \in Approval, k \in Investigation : Reject(a, k)
      BY <2>3
    <3>1. /\ granted' = granted
          /\ hil' = hil \/ hil' = [hil EXCEPT ![a].status = "rejected"]
          /\ hil' # hil => hil[a].inv \in Investigation
      BY DEF Reject, Decide, Matches
    <3>2. hil[a].inv \in Investigation => hil[a].status # "none"
      BY NoIdIsFresh DEF RowsOK
    <3>. QED  BY <3>1, <3>2, RowsMonotone DEF TypeOK, RowsOK, HilRow
  <2>4. CASE AdminReset
    <3>1. granted' = granted
          /\ \A a \in Approval : hil'[a] = hil[a]
                \/ /\ hil[a].status = "pending"
                   /\ hil'[a].status = "rejected"
                   /\ hil'[a].inv = hil[a].inv
      BY <2>4 DEF AdminReset, TypeOK, HilRow
    <3>. TAKE a \in Approval
    <3>2. CASE hil'[a] = hil[a]
      BY <3>1, <3>2, RowsMonotone DEF RowsOK
    <3>3. CASE /\ hil[a].status = "pending"
               /\ hil'[a].status = "rejected"
               /\ hil'[a].inv = hil[a].inv
      BY <3>1, <3>3, RowsMonotone DEF RowsOK
    <3>. QED  BY <3>1, <3>2, <3>3
  <2>5. CASE \E t \in Task, a \in Approval : RequestHil(t, a)
    <3>. PICK t \in Task, a \in Approval : RequestHil(t, a)
      BY <2>5
    <3>1. /\ hil' = [hil EXCEPT ![a] = ApprovalRow(t)]
          /\ UNCHANGED <<inv, granted>>
          /\ hil[a].status = "none"
      BY RequestHilStep DEF RequestHil
    <3>2. /\ ApprovalRow(t).inv \in Investigation
          /\ inv[ApprovalRow(t).inv].status # "none"
          /\ ApprovalRow(t).status = "pending"
      BY DEF RequestHil, ApprovalRow, TasksOK, At, Running, Node
    <3>. QED  BY <3>1, <3>2 DEF TypeOK, RowsOK
  <2>. QED
    BY <2>1, <2>2, <2>3, <2>4, <2>5, ProgressFrame
    DEF Next, NewReport, Deliver, Crash
<1>. QED  BY <1>2, <1>3 DEF RowsOK

\* A request that holds an investigation keeps it; one that still has work to
\* do inside a node has a superstep left for it.
LEMMA TasksStep ==
    ASSUME TypeOK, RowsOK, TasksOK, StatesOK, Next
    PROVE  TasksOK'
<1>. USE DEF service, tables, queue, bounds
<1>. DEFINE Good(s) ==
       /\ s.pc \in Running =>
             s.inv \in Investigation /\ inv'[s.inv].status # "none"
       /\ s.pc \in {"insert", "start"} =>
             s.report \in Report /\ reports'[s.report] \in Severity
       /\ s.pc \in Dispatching \cup {"save"} => s.steps < RecursionLimit
<1>1. \A u \in Task : task'[u] = task[u] => Good(task'[u])
  BY RowsMonotone DEF TasksOK, Severity
<1>2. Good(IdleTask)
  BY DEF IdleTask, Running, Node, Dispatching
<1>3. CASE \E t \in Task, r \in Report : Deliver(t, r)
  <2>. PICK t \in Task, r \in Report : Deliver(t, r)
    BY <1>3
  <2>1. Good([IdleTask EXCEPT !.pc = "insert", !.report = r])
    BY DEF Deliver, TypeOK, IdleTask, Running, Node, Dispatching
  <2>2. \A u \in Task : Good(task'[u])
    BY <1>1, <2>1 DEF Deliver, TypeOK
  <2>. QED  BY <2>2 DEF TasksOK
<1>4. CASE \E t \in Task, a \in Approval, i \in Investigation : Approve(t, a, i)
  <2>. PICK t \in Task, a \in Approval, k \in Investigation : Approve(t, a, k)
    BY <1>4
  <2>1. Good([IdleTask EXCEPT !.pc = "resume", !.inv = k])
    BY RowsMonotone DEF Approve, RowsOK, IdleTask, Running, Node, Dispatching
  <2>2. \A u \in Task : Good(task'[u])
    BY <1>1, <2>1 DEF Approve, TypeOK
  <2>. QED  BY <2>2 DEF TasksOK
<1>5. CASE Crash
  BY <1>5, <1>2 DEF Crash, TasksOK
<1>6. CASE task' = task
  BY <1>1, <1>6 DEF TasksOK
<1>7. CASE \E t \in Task : Progress(t)
  <2>. PICK t \in Task : Progress(t)
    BY <1>7
  <2>. SUFFICES Good(task'[t])
    BY <1>1, ProgressFrame DEF TasksOK
  <2>. DEFINE i == task[t].inv
              OwnOK == i \in Investigation /\ inv'[i].status # "none"
  <2>a. task[t] \in TaskState
    BY DEF TypeOK
  <2>b. task[t].pc \in Running => OwnOK
    BY RowsMonotone DEF TasksOK
  <2>c. ASSUME NEW st, Return(t, st), OwnOK
        PROVE  Good(task'[t])
    BY <2>c, <2>a DEF TypeOK, TaskState, Return, Running, Node, Dispatching
  <2>d. ASSUME NEW st, NEW pc \in Node, Within(t, pc, st), OwnOK
        PROVE  Good(task'[t])
    BY <2>d, <2>a DEF TypeOK, TaskState, Within, Node, Dispatching
  <2>e. ASSUME NEW st, NEW pc \in Dispatching \cup {"save"}, Within(t, pc, st),
               OwnOK, task[t].steps < RecursionLimit
        PROVE  Good(task'[t])
    BY <2>e, <2>a DEF TypeOK, TaskState, Within, Dispatching
  <2>f. Abort(t) => Good(task'[t])
    BY <1>2 DEF Abort, TypeOK
  <2>1. CASE \E j \in Investigation : InsertRow(t, j)
    <3>. PICK j \in Investigation : InsertRow(t, j)
      BY <2>1
    <3>1. inv'[j].status # "none"
      BY DEF InsertRow, TypeOK
    <3>2. task[t].report \in Report /\ reports'[task[t].report] \in Severity
      BY DEF InsertRow, TasksOK
    <3>. QED  BY <2>a, <3>1, <3>2 DEF InsertRow, TypeOK, TaskState, Dispatching
  <2>2. CASE InsertConflict(t)
    BY <2>2, <2>a DEF InsertConflict, TypeOK, TaskState, Running, Node, Dispatching
  <2>3. CASE AnswerFailed(t)
    BY <2>3, <1>2 DEF AnswerFailed, TypeOK
  <2>4. CASE StartGraph(t)
    BY <2>4, <2>a, <2>b DEF StartGraph, TypeOK, TaskState, Running, Node, Dispatching
  <2>5. CASE Resume(t) \/ RecursionError(t)
    BY <2>5, <2>b, <2>d, <2>f DEF Resume, RecursionError, Running
  <2>6. CASE Supervisor(t)
    <3>1. OwnOK
      BY <2>6, <2>b DEF Supervisor, At, Running, Node
    <3>2. \A n \in Node : Good([task[t] EXCEPT !.pc = n,
                                               !.steps = task[t].steps + 1])
      BY <2>a, <3>1 DEF TaskState, Node, Dispatching
    <3>3. Route(AlertSeverity(i), task[t].st) \in Node \cup {"end"}
      BY DEF Route, CommsOrEnd, Node
    <3>. HIDE DEF Good
    <3>. QED  BY <2>6, <1>2, <3>2, <3>3 DEF Supervisor, TypeOK
  <2>7. CASE TriageAgent(t) \/ ActionAgent(t) \/ RequestHilFails(t) \/ Save(t)
    BY <2>7, <2>b, <2>c
    DEF TriageAgent, ActionAgent, RequestHilFails, Save, At, Running, Node
  <2>8. CASE PauseForHuman(t)
    BY <2>8, <2>b, <2>c, <2>f DEF PauseForHuman, At, Running, Node
  <2>9. CASE Dispatch(t)
    BY <2>9, <2>b, <2>c, <2>e, <2>f DEF Dispatch, At, Running, Node, Dispatching
  <2>10. CASE CheckFreshness(t) \/ ClaimKey(t) \/ Enqueue(t)
    <3>1. OwnOK /\ task[t].steps < RecursionLimit
      BY <2>10, <2>b
      DEF CheckFreshness, ClaimKey, Enqueue, TasksOK, Running, Dispatching
    <3>. QED  BY <2>10, <2>c, <2>e, <3>1
              DEF CheckFreshness, ClaimKey, Enqueue, Dispatching
  <2>11. CASE \E a \in Approval : RequestHil(t, a)
    BY <2>11, <2>b, <2>e, RequestHilStep DEF RequestHil, At, Running, Node
  <2>12. CASE CommsAgent(t)
    BY <2>12, <2>b, <2>c, <2>e DEF CommsAgent, At, Running, Node
  <2>. QED
    BY <2>1, <2>2, <2>3, <2>4, <2>5, <2>6, <2>7, <2>8, <2>9, <2>10, <2>11,
       <2>12 DEF Progress
<1>. QED
  BY <1>3, <1>4, <1>5, <1>6, <1>7 DEF Next, NewReport, Reject, AdminReset

-----------------------------------------------------------------------------
\* The severity of an investigation's alert after a step.
SeverityAfter(i) == reports'[inv'[i].report]

\* What holds of the state of an open investigation's thread goes on holding
\* while rows and approvals change around it.
LEMMA StateStays ==
    ASSUME TypeOK, RowsOK, TasksOK, Next,
           NEW i \in Investigation, inv[i].status # "none",
           NEW st \in AgentState, NEW n
    PROVE  /\ GoodState(AlertSeverity(i), hil, i, st)
                 => GoodState(SeverityAfter(i), hil', i, st)
           /\ GoodAt(AlertSeverity(i), n, st) => GoodAt(SeverityAfter(i), n, st)
           /\ Approved(granted, st) => Approved(granted', st)
<1>1. SeverityAfter(i) = AlertSeverity(i)
  BY RowsMonotone DEF SeverityAfter, AlertSeverity
<1>2. st.hil_approval_id # NoId => st.hil_approval_id \in Approval
  BY DEF AgentState
<1>3. GoodState(AlertSeverity(i), hil, i, st)
         => GoodState(SeverityAfter(i), hil', i, st)
  BY <1>1, <1>2, RowsMonotone DEF GoodState
<1>4. GoodAt(AlertSeverity(i), n, st) => GoodAt(SeverityAfter(i), n, st)
  BY <1>1 DEF GoodAt
<1>5. Approved(granted, st) => Approved(granted', st)
  BY RowsMonotone DEF Approved
<1>. QED  BY <1>3, <1>4, <1>5

\* The state a worker node returns is as good as the one it was given.
LEMMA NodeStates ==
    ASSUME NEW sev, NEW rows, NEW i, NEW st \in AgentState,
           GoodState(sev, rows, i, st)
    PROVE  /\ GoodState(sev, rows, i, Triaged(st))
           /\ GoodState(sev, rows, i, Blocked(st))
           /\ \A s : GoodState(sev, rows, i, Outcome(st, s))
           /\ GoodState(sev, rows, i, [st EXCEPT !.comms_done = TRUE])
           /\ GoodState(sev, rows, i, [st EXCEPT !.status = "resolved"])
           /\ st.dispatch_status = "" =>
                 \A ok \in BOOLEAN : GoodState(sev, rows, i, AfterPause(ok, st))
BY DEF GoodState, AgentState, Triaged, Blocked, Outcome, AfterPause

\* The proposal fits the severity of the alert, and asks for an approval.
LEMMA ProposalGood ==
    ASSUME NEW sev, NEW rows, NEW i, NEW st \in AgentState,
           GoodState(sev, rows, i, st),
           st.proposed_action = "none", sev \in Severity
    PROVE  /\ GoodState(sev, rows, i, [st EXCEPT !.proposed_action = "none",
                                                 !.requires_hil = FALSE])
           /\ LET a == ProposeAction(sev) IN
                 GoodState(sev, rows, i, [st EXCEPT !.proposed_action = a,
                                                    !.requires_hil = a # "no_action",
                                                    !.awaiting_approval = FALSE])
<1>1. GoodState(sev, rows, i, [st EXCEPT !.proposed_action = "none",
                                         !.requires_hil = FALSE])
  BY DEF GoodState, AgentState, Dispatchable
<1>. DEFINE a == ProposeAction(sev)
<1>2. \/ a = "no_action" /\ sev = "low"
      \/ a \in Dispatchable /\ a # "no_action" /\ a # "none" /\ Fits(sev, a)
  BY DEF ProposeAction, Severity, Dispatchable, Fits
<1>3. "no_action" \notin Dispatchable
  BY DEF Dispatchable
<1>. HIDE DEF a
<1>4. GoodState(sev, rows, i, [st EXCEPT !.proposed_action = a,
                                         !.requires_hil = a # "no_action",
                                         !.awaiting_approval = FALSE])
  BY <1>2, <1>3 DEF GoodState, AgentState
<1>. QED  BY <1>1, <1>4 DEF a

\* The route the supervisor takes suits the state it is taken in.
LEMMA RouteGood ==
    ASSUME NEW sev, NEW rows, NEW i, NEW st \in AgentState,
           GoodState(sev, rows, i, st)
    PROVE  GoodAt(sev, Route(sev, st), st)
BY DEF GoodState, GoodAt, Route, CommsOrEnd, Actionable, AgentState

\* The states of threads and of the requests that run them stay good.
LEMMA StatesStep ==
    ASSUME TypeOK, RowsOK, TasksOK, StatesOK, Next
    PROVE  StatesOK'
<1>. USE DEF service, tables, queue, bounds
<1>. DEFINE Held(i, n, st) == /\ GoodState(SeverityAfter(i), hil', i, st)
                              /\ GoodAt(SeverityAfter(i), n, st)
            TaskGood(u) ==
              task'[u].pc \in Running \ {"start", "resume"} =>
                 /\ Held(task'[u].inv, task'[u].pc, task'[u].st)
                 /\ task'[u].pc \in Dispatching => Approved(granted', task'[u].st)
            ThreadGood(i) ==
              IF ckpt'[i].next = "none" THEN ckpt'[i].st.hil_approval_id = NoId
              ELSE /\ inv'[i].status # "none"
                   /\ Held(i, ckpt'[i].next, ckpt'[i].st)
<1>0. ASSUME \A u \in Task : TaskGood(u), \A i \in Investigation : ThreadGood(i)
      PROVE  StatesOK'
  BY <1>0, ZenonT(60)
  DEF StatesOK, GoodState, GoodAt, Approved, AlertSeverity, SeverityAfter
<1>1. ASSUME NEW u \in Task, task'[u] = task[u]
      PROVE  TaskGood(u)
  <2>1. task[u] \in TaskState /\ task[u].st \in AgentState
    BY DEF TypeOK, TaskState
  <2>2. CASE task[u].pc \in Running \ {"start", "resume"}
    <3>1. task[u].inv \in Investigation /\ inv[task[u].inv].status # "none"
      BY <2>2 DEF TasksOK
    <3>. QED  BY <1>1, <2>1, <2>2, <3>1, StateStays DEF StatesOK
  <2>. QED  BY <1>1, <2>2
<1>2. ASSUME NEW i \in Investigation, ckpt'[i] = ckpt[i]
      PROVE  ThreadGood(i)
  <2>1. ckpt[i].st \in AgentState
    BY DEF TypeOK, Checkpoint
  <2>. QED  BY <1>2, <2>1, StateStays, RowsMonotone DEF StatesOK
<1>3. ASSUME NEW u \in Task,
             task'[u].pc \in {"idle", "insert", "failed", "start", "resume"}
      PROVE  TaskGood(u)
  BY <1>3 DEF Running, Node, Dispatching
<1>4. CASE \E t \in Task, r \in Report : Deliver(t, r)
  <2>. PICK t \in Task, r \in Report : Deliver(t, r)
    BY <1>4
  <2>1. /\ ckpt' = ckpt
        /\ task'[t].pc = "insert"
        /\ \A u \in Task \ {t} : task'[u] = task[u]
    BY DEF Deliver, TypeOK, IdleTask
  <2>. HIDE DEF TaskGood, ThreadGood
  <2>2. (\A u \in Task : TaskGood(u)) /\ \A i \in Investigation : ThreadGood(i)
    BY <1>1, <1>2, <1>3, <2>1
  <2>. QED  BY <1>0, <2>2
<1>5. CASE \E t \in Task, a \in Approval, i \in Investigation : Approve(t, a, i)
  <2>. PICK t \in Task, a \in Approval, k \in Investigation : Approve(t, a, k)
    BY <1>5
  <2>1. /\ ckpt' = ckpt
        /\ task'[t].pc = "resume"
        /\ \A u \in Task \ {t} : task'[u] = task[u]
    BY DEF Approve, TypeOK, IdleTask
  <2>. HIDE DEF TaskGood, ThreadGood
  <2>2. (\A u \in Task : TaskGood(u)) /\ \A i \in Investigation : ThreadGood(i)
    BY <1>1, <1>2, <1>3, <2>1
  <2>. QED  BY <1>0, <2>2
<1>6. CASE Crash
  <2>1. ckpt' = ckpt /\ \A u \in Task : task'[u].pc = "idle"
    BY <1>6 DEF Crash, IdleTask
  <2>. HIDE DEF TaskGood, ThreadGood
  <2>2. (\A u \in Task : TaskGood(u)) /\ \A i \in Investigation : ThreadGood(i)
    BY <1>2, <1>3, <2>1
  <2>. QED  BY <1>0, <2>2
<1>7. CASE ckpt' = ckpt /\ task' = task
  <2>. HIDE DEF TaskGood, ThreadGood
  <2>2. (\A u \in Task : TaskGood(u)) /\ \A i \in Investigation : ThreadGood(i)
    BY <1>1, <1>2, <1>7
  <2>. QED  BY <1>0, <2>2
<1>8. CASE \E t \in Task : Progress(t)
  <2>. PICK t \in Task : Progress(t)
    BY <1>8
  <2>. DEFINE i == task[t].inv
              st == task[t].st
              sev == AlertSeverity(i)
              Own == i \in Investigation => ThreadGood(i)
  <2>. SUFFICES TaskGood(t) /\ Own
    <3>. HIDE DEF TaskGood, ThreadGood
    <3>1. \A u \in Task : TaskGood(u)
      BY <1>1, ProgressFrame
    <3>2. \A j \in Investigation : ThreadGood(j)
      BY <1>2, ProgressFrame
    <3>. QED  BY <1>0, <3>1, <3>2
  <2>a. task[t] \in TaskState /\ st \in AgentState
    BY DEF TypeOK, TaskState
  <2>b. task[t].pc \in Running =>
          /\ i \in Investigation
          /\ inv[i].status # "none"
          /\ inv'[i].status # "none"
          /\ AlertSeverity(i) \in Severity
    BY RowsMonotone DEF TasksOK, RowsOK
  <2>c. task[t].pc \in Running \ {"start", "resume"} =>
          /\ GoodState(sev, hil, i, st)
          /\ GoodAt(sev, task[t].pc, st)
          /\ task[t].pc \in Dispatching => Approved(granted, st)
    BY DEF StatesOK
  <2>d. ASSUME NEW s \in AgentState, GoodState(sev, hil, i, s), Return(t, s),
               task[t].pc \in Running
        PROVE  TaskGood(t) /\ Own
    <3>1. /\ task'[t].pc = "supervisor" /\ task'[t].st = s /\ task'[t].inv = i
          /\ ckpt'[i] = [next |-> "supervisor", st |-> s]
      BY <2>a, <2>b, <2>d DEF Return, SaveCheckpoint, TypeOK, TaskState
    <3>2. Held(i, "supervisor", s)
      BY <2>b, <2>d, StateStays DEF GoodAt
    <3>. QED  BY <2>b, <2>d, <3>1, <3>2 DEF Dispatching
  <2>e. ASSUME NEW s \in AgentState, NEW pc, Within(t, pc, s),
               task[t].pc \in Running, Held(i, pc, s),
               pc \in Dispatching => Approved(granted, s)
        PROVE  TaskGood(t) /\ Own
    <3>1. task'[t].pc = pc /\ task'[t].st = s /\ task'[t].inv = i
      BY <2>a, <2>e DEF Within, TypeOK, TaskState
    <3>2. pc \in Dispatching => Approved(granted', s)
      BY <2>b, <2>e, StateStays
    <3>3. TaskGood(t)
      BY <2>e, <3>1, <3>2
    <3>4. Own
      BY <1>2, <2>e DEF Within
    <3>. QED  BY <3>3, <3>4
  <2>f. ASSUME Abort(t) \/ task'[t].pc \in {"start", "failed", "idle"},
               ckpt' = ckpt
        PROVE  TaskGood(t) /\ Own
    <3>1. task'[t].pc \in {"idle", "start", "failed"}
      BY <2>f DEF Abort, TypeOK, IdleTask
    <3>2. TaskGood(t)
      BY <1>3, <3>1
    <3>. QED  BY <1>2, <2>f, <3>2
  <2>g. Abort(t) => ckpt' = ckpt
    BY DEF Abort
  <2>. HIDE DEF TaskGood, Own
  <2>1. CASE \/ \E j \in Investigation : InsertRow(t, j)
             \/ InsertConflict(t) \/ AnswerFailed(t)
    <3>1. ckpt' = ckpt /\ task'[t].pc \in {"start", "failed", "idle"}
      <4>1. CASE \E j \in Investigation : InsertRow(t, j)
        BY <4>1, <2>a DEF InsertRow, TypeOK, TaskState
      <4>2. CASE InsertConflict(t)
        BY <4>2, <2>a DEF InsertConflict, TypeOK, TaskState
      <4>3. CASE AnswerFailed(t)
        BY <4>3 DEF AnswerFailed, TypeOK, IdleTask
      <4>. QED  BY <2>1, <4>1, <4>2, <4>3
    <3>. QED  BY <2>f, <3>1
  <2>2. CASE StartGraph(t)
    <3>. DEFINE s0 == InitialState(task[t].report)
    <3>1. s0 \in AgentState
      BY <2>a, InitialStateType DEF TaskState
    <3>2. GoodState(sev, hil, i, s0)
      BY DEF GoodState, InitialState, Dispatchable
    <3>3. Held(i, "supervisor", s0)
      BY <2>2, <2>b, <3>1, <3>2, StateStays DEF StartGraph, Running, GoodAt
    <3>4. /\ task'[t].pc = "supervisor" /\ task'[t].st = s0 /\ task'[t].inv = i
          /\ i \in Investigation => ckpt'[i] = [next |-> "supervisor", st |-> s0]
      BY <2>2, <2>a DEF StartGraph, SaveCheckpoint, TypeOK, TaskState
    <3>5. i \in Investigation => inv'[i].status # "none"
      BY <2>2, <2>b DEF StartGraph, Running
    <3>. QED  BY <3>3, <3>4, <3>5 DEF TaskGood, Own, Dispatching
  <2>3. CASE Resume(t)
    <3>. DEFINE c == ckpt[i]
    <3>1. CASE c.next \in Node
      <4>1. i \in Investigation /\ inv[i].status # "none" /\ task[t].pc \in Running
        BY <2>3, <2>b DEF Resume, Running
      <4>2. c.st \in AgentState /\ c.next # "none"
        BY <3>1, <4>1 DEF TypeOK, Checkpoint, Node
      <4>3. Held(i, c.next, c.st)
        BY <4>1, <4>2, StateStays DEF StatesOK
      <4>4. Within(t, c.next, c.st) /\ c.next \notin Dispatching
        BY <2>3, <3>1 DEF Resume, Node, Dispatching
      <4>. QED  BY <2>e, <4>1, <4>2, <4>3, <4>4
    <3>2. CASE c.next \notin Node
      BY <2>3, <2>f, <2>g, <3>2 DEF Resume
    <3>. QED  BY <3>1, <3>2
  <2>4. CASE RecursionError(t)
    BY <2>4, <2>f, <2>g DEF RecursionError
  <2>5. CASE Supervisor(t)
    <3>. DEFINE n == Route(AlertSeverity(i), st)
    <3>1. task[t].pc = "supervisor" /\ task[t].pc \in Running
      BY <2>5 DEF Supervisor, At, Running, Node
    <3>2. n \in Node \cup {"end"}
      BY DEF Route, CommsOrEnd, Node
    <3>3. GoodAt(sev, n, st) /\ GoodState(sev, hil, i, st)
      BY <2>a, <2>c, <3>1, RouteGood
    <3>4. Held(i, n, st)
      BY <2>a, <2>b, <3>1, <3>3, StateStays
    <3>. HIDE DEF n
    <3>5. ckpt'[i] = [next |-> n, st |-> st]
      BY <2>5, <2>b, <3>1 DEF Supervisor, SaveCheckpoint, TypeOK, n
    <3>6. Own
      BY <2>b, <3>1, <3>2, <3>4, <3>5 DEF Own, Node
    <3>7. \/ task'[t].pc = "idle"
          \/ task'[t].pc = n /\ task'[t].st = st /\ task'[t].inv = i
      BY <2>5, <2>a DEF Supervisor, TypeOK, TaskState, n, IdleTask
    <3>8. TaskGood(t)
      BY <3>2, <3>4, <3>7 DEF TaskGood, Running, Node, Dispatching
    <3>. QED  BY <3>6, <3>8
  <2>6. CASE TriageAgent(t) \/ RequestHilFails(t) \/ Save(t)
    <3>1. task[t].pc \in Running \ {"start", "resume"}
      BY <2>6 DEF TriageAgent, RequestHilFails, Save, At, Running, Node
    <3>2. \E s \in AgentState : GoodState(sev, hil, i, s) /\ Return(t, s)
      BY <2>6, <2>a, <2>c, <3>1, NodeStates, NodeStateTypes
      DEF TriageAgent, RequestHilFails, Save
    <3>. QED  BY <2>d, <3>1, <3>2
  <2>7. CASE ActionAgent(t)
    <3>1. task[t].pc = "action_agent" /\ task[t].pc \in Running \ {"start", "resume"}
      BY <2>7 DEF ActionAgent, At, Running, Node
    <3>2. st.proposed_action = "none"
      BY <2>c, <3>1 DEF GoodAt
    <3>3. ProposeAction(AlertSeverity(i)) \in {"no_action", "retrain", "replay_test"}
      BY DEF ProposeAction
    <3>4. \E s \in AgentState : GoodState(sev, hil, i, s) /\ Return(t, s)
      BY <2>7, <2>a, <2>b, <2>c, <3>1, <3>2, <3>3, NodeStates, NodeStateTypes,
         ProposalGood DEF ActionAgent
    <3>. QED  BY <2>d, <3>1, <3>4
  <2>8. CASE PauseForHuman(t)
    <3>1. task[t].pc = "pause_for_human"
          /\ task[t].pc \in Running \ {"start", "resume"}
      BY <2>8 DEF PauseForHuman, At, Running, Node
    <3>2. st.dispatch_status = "" /\ ApprovalIsValid(i, st) \in BOOLEAN
      BY <2>c, <3>1 DEF GoodAt, ApprovalIsValid
    <3>3. \/ Abort(t)
          \/ \E s \in AgentState : GoodState(sev, hil, i, s) /\ Return(t, s)
      BY <2>8, <2>a, <2>c, <3>1, <3>2, NodeStates, NodeStateTypes DEF PauseForHuman
    <3>. QED  BY <2>d, <2>f, <2>g, <3>1, <3>3
  <2>9. CASE Dispatch(t)
    <3>1. task[t].pc = "dispatch" /\ task[t].pc \in Running \ {"start", "resume"}
      BY <2>9 DEF Dispatch, At, Running, Node
    <3>2. \/ Abort(t)
          \/ \E s \in AgentState : GoodState(sev, hil, i, s) /\ Return(t, s)
          \/ Within(t, "freshness", st) /\ Approved(granted, st)
      <4>1. ApprovalIsValid(i, st) => Approved(granted, st)
        BY <2>a DEF ApprovalIsValid, Approved, RowsOK, AgentState
      <4>2. st.proposed_action \in Dispatchable => st.requires_hil
        BY <2>c, <3>1 DEF GoodState
      <4>. QED  BY <2>9, <2>a, <2>c, <3>1, <4>1, <4>2, NodeStates, NodeStateTypes
                DEF Dispatch
    <3>3. Held(i, "freshness", st)
      BY <2>a, <2>b, <2>c, <3>1, StateStays DEF GoodAt
    <3>. QED  BY <2>a, <2>d, <2>e, <2>f, <2>g, <3>1, <3>2, <3>3
  <2>10. CASE CheckFreshness(t) \/ ClaimKey(t) \/ Enqueue(t)
    <3>1. task[t].pc \in Dispatching /\ task[t].pc \in Running \ {"start", "resume"}
      BY <2>10 DEF CheckFreshness, ClaimKey, Enqueue, Running, Dispatching
    <3>2. \/ \E s \in AgentState : GoodState(sev, hil, i, s) /\ Return(t, s)
          \/ \E pc \in {"setnx", "enqueue"} : Within(t, pc, st)
          \/ Within(t, "save", Outcome(st, "enqueued"))
      BY <2>10, <2>a, <2>c, <3>1, NodeStates, NodeStateTypes
      DEF CheckFreshness, ClaimKey, Enqueue
    <3>3. \A pc \in {"setnx", "enqueue"} : Held(i, pc, st)
      BY <2>a, <2>b, <2>c, <3>1, StateStays DEF GoodAt
    <3>4. Held(i, "save", Outcome(st, "enqueued"))
      BY <2>a, <2>b, <2>c, <3>1, StateStays, NodeStates, NodeStateTypes DEF GoodAt
    <3>5. "save" \notin Dispatching /\ Outcome(st, "enqueued") \in AgentState
      BY <2>a, NodeStateTypes DEF Dispatching
    <3>. QED  BY <2>a, <2>c, <2>d, <2>e, <3>1, <3>2, <3>3, <3>4, <3>5
  <2>11. CASE \E a \in Approval : RequestHil(t, a)
    <3>. PICK a \in Approval : RequestHil(t, a)
      BY <2>11
    <3>. DEFINE s == [st EXCEPT !.requires_hil = TRUE, !.awaiting_approval = TRUE,
                                !.hil_approval_id = a,
                                !.status = "awaiting_approval"]
    <3>1. task[t].pc = "request_hil" /\ task[t].pc \in Running \ {"start", "resume"}
      BY DEF RequestHil, At, Running, Node
    <3>2. s \in AgentState
      BY <2>a, NodeStateTypes
    <3>3. hil'[a] = ApprovalRow(t)
      BY RequestHilStep DEF TypeOK
    <3>4. SeverityAfter(i) = sev
      BY <2>b, <3>1, RowsMonotone DEF SeverityAfter, AlertSeverity
    <3>5. st.dispatch_status = "" /\ GoodState(sev, hil, i, st)
          /\ st.proposed_action \in Dispatchable
      BY <2>c, <3>1 DEF GoodAt
    <3>6. GoodState(SeverityAfter(i), hil', i, s)
      <4>1. /\ s.proposed_action = st.proposed_action
            /\ s.proposed_action # "none"
            /\ s.requires_hil = TRUE
            /\ s.hil_approval_id = a
            /\ s.dispatch_status = ""
        BY <2>a, <3>5 DEF AgentState, Dispatchable
      <4>2. /\ hil'[a].status # "none"
            /\ hil'[a].inv = i
            /\ hil'[a].action = st.proposed_action
        BY <3>3 DEF ApprovalRow
      <4>. QED  BY <3>4, <3>5, <4>1, <4>2 DEF GoodState
    <3>7. GoodAt(SeverityAfter(i), "save", s)
      BY DEF GoodAt
    <3>. QED  BY <2>e, <3>1, <3>2, <3>6, <3>7, RequestHilStep DEF Dispatching
  <2>12. CASE CommsAgent(t)
    <3>. DEFINE s == [st EXCEPT !.comms_done = TRUE]
    <3>1. task[t].pc \in Running \ {"start", "resume"}
      BY <2>12 DEF CommsAgent, At, Running, Node
    <3>2. s \in AgentState /\ GoodState(sev, hil, i, s)
      BY <2>a, <2>c, <3>1, NodeStates, NodeStateTypes
    <3>3. Held(i, "save", s)
      BY <2>b, <3>1, <3>2, StateStays DEF GoodAt
    <3>. QED  BY <2>12, <2>d, <2>e, <3>1, <3>2, <3>3 DEF CommsAgent, Dispatching
  <2>. QED
    BY <2>1, <2>2, <2>3, <2>4, <2>5, <2>6, <2>7, <2>8, <2>9, <2>10, <2>11,
       <2>12 DEF Progress
<1>. QED
  BY <1>4, <1>5, <1>6, <1>7, <1>8 DEF Next, NewReport, Reject, AdminReset
-----------------------------------------------------------------------------
(* The queue: one key per investigation, claimed once.                     *)

\* A request inside the dispatch node, past its approval check, carries the one
\* action the severity of the alert asks for, with a granted approval for it.
LEMMA DispatchingState ==
    ASSUME TypeOK, RowsOK, TasksOK, StatesOK, NEW t \in Task,
           task[t].pc \in Dispatching
    PROVE  /\ task[t].inv \in Investigation
           /\ inv[task[t].inv].status # "none"
           /\ task[t].st.proposed_action \in Dispatchable
           /\ Fits(AlertSeverity(task[t].inv), task[t].st.proposed_action)
           /\ task[t].st.hil_approval_id \in granted
           /\ hil[task[t].st.hil_approval_id].inv = task[t].inv
           /\ hil[task[t].st.hil_approval_id].action = task[t].st.proposed_action
<1>1. task[t].pc \in Running \ {"start", "resume"}
  BY DEF Running, Dispatching
<1>2. task[t].st.hil_approval_id \in granted => task[t].st.hil_approval_id # NoId
  BY NoIdIsFresh DEF TypeOK
<1>. QED  BY <1>1, <1>2 DEF TasksOK, StatesOK, GoodState, Approved

\* Only a claim brings a request to the point before the enqueue.
LEMMA AtEnqueue ==
    ASSUME TypeOK, TasksOK, Next, NEW u \in Task, task'[u].pc = "enqueue"
    PROVE  \/ task'[u] = task[u]
           \/ /\ task[u].pc = "setnx"
              /\ task'[u].inv = task[u].inv
              /\ task'[u].st = task[u].st
              /\ KeyOf(u) \notin dedup
              /\ dedup' = dedup \cup {KeyOf(u)}
              /\ jobs' = jobs
              /\ \A v \in Task \ {u} : task'[v] = task[v]
<1>. USE DEF service, tables, queue, bounds
<1>1. CASE task'[u] = task[u]
  BY <1>1
<1>2. CASE \/ Crash
           \/ \E r \in Report : Deliver(u, r)
           \/ \E a \in Approval, i \in Investigation : Approve(u, a, i)
  <2>1. Crash => task'[u].pc = "idle"
    BY DEF Crash, IdleTask
  <2>2. ASSUME NEW r \in Report, Deliver(u, r)
        PROVE  task'[u].pc = "insert"
    BY <2>2 DEF Deliver, TypeOK, IdleTask
  <2>3. ASSUME NEW a \in Approval, NEW i \in Investigation, Approve(u, a, i)
        PROVE  task'[u].pc = "resume"
    BY <2>3 DEF Approve, TypeOK, IdleTask
  <2>. QED  BY <1>2, <2>1, <2>2, <2>3
<1>3. CASE Progress(u)
  <2>1. ClaimKey(u)
    <3>1. task[u] \in TaskState
      BY DEF TypeOK
    <3>2. \A st : Return(u, st) => task'[u].pc = "supervisor"
      BY <3>1 DEF Return, TypeOK, TaskState
    <3>3. \A st, pc : Within(u, pc, st) => task'[u].pc = pc
      BY <3>1 DEF Within, TypeOK, TaskState
    <3>4. Abort(u) => task'[u].pc = "idle"
      BY DEF Abort, TypeOK, IdleTask
    <3>5. ASSUME NEW i \in Investigation, InsertRow(u, i)
          PROVE  task'[u].pc = "start"
      BY <3>1, <3>5 DEF InsertRow, TypeOK, TaskState
    <3>6. ~InsertConflict(u) /\ ~AnswerFailed(u)
      BY <3>1 DEF InsertConflict, AnswerFailed, TypeOK, TaskState, IdleTask
    <3>7. ~StartGraph(u)
      BY <3>1 DEF StartGraph, TypeOK, TaskState
    <3>8. ~Supervisor(u)
      <4>. DEFINE n == Route(AlertSeverity(task[u].inv), task[u].st)
      <4>1. n # "enqueue"
        BY DEF Route, CommsOrEnd
      <4>. HIDE DEF n
      <4>. SUFFICES ASSUME Supervisor(u)
                    PROVE  task'[u].pc = "idle" \/ task'[u].pc = n
        BY <4>1
      <4>. QED  BY <3>1 DEF Supervisor, TypeOK, TaskState, n, IdleTask
    <3>9. ~Resume(u) /\ ~RecursionError(u)
      BY <3>3, <3>4 DEF Resume, RecursionError, Node
    <3>10. ~TriageAgent(u) /\ ~ActionAgent(u) /\ ~RequestHilFails(u) /\ ~Save(u)
      BY <3>2 DEF TriageAgent, ActionAgent, RequestHilFails, Save
    <3>11. ~PauseForHuman(u) /\ ~Dispatch(u) /\ ~CheckFreshness(u)
      BY <3>2, <3>3, <3>4 DEF PauseForHuman, Dispatch, CheckFreshness
    <3>12. ~Enqueue(u) /\ ~CommsAgent(u) /\ ~\E a \in Approval : RequestHil(u, a)
      BY <3>2, <3>3 DEF Enqueue, CommsAgent, RequestHil
    <3>. QED
      BY <1>3, <3>5, <3>6, <3>7, <3>8, <3>9, <3>10, <3>11, <3>12 DEF Progress
  <2>2. \A st : Return(u, st) => task'[u].pc = "supervisor"
    BY DEF Return, TypeOK, TaskState
  <2>3. Within(u, "enqueue", task[u].st) /\ ~KeyTaken(KeyOf(u))
        /\ dedup' = dedup \cup {KeyOf(u)}
    BY <2>1, <2>2 DEF ClaimKey
  <2>. QED  BY <2>1, <2>3 DEF ClaimKey, KeyTaken, Within, TypeOK, TaskState
<1>. QED
  BY <1>1, <1>2, <1>3, ProgressFrame
  DEF Next, NewReport, Deliver, Approve, Reject, AdminReset, TypeOK

\* Only an enqueue changes the list of jobs.
LEMMA JobsStep ==
    ASSUME TypeOK, Next
    PROVE  \/ jobs' = jobs
           \/ \E t \in Task :
                 /\ task[t].pc = "enqueue"
                 /\ task'[t].pc # "enqueue"
                 /\ dedup' = dedup
                 /\ jobs' = Append(jobs, [inv |-> task[t].inv,
                                          action |-> task[t].st.proposed_action,
                                          approval |-> task[t].st.hil_approval_id])
                 /\ \A u \in Task \ {t} : task'[u] = task[u]
<1>. USE DEF service, tables, queue, bounds
<1>1. ASSUME NEW t \in Task, Enqueue(t)
      PROVE  task'[t].pc # "enqueue" /\ \A u \in Task \ {t} : task'[u] = task[u]
  <2>1. \A st : Return(t, st) => task'[t].pc = "supervisor"
                        /\ \A u \in Task \ {t} : task'[u] = task[u]
    BY DEF Return, TypeOK, TaskState
  <2>2. \A st : Within(t, "save", st) => task'[t].pc = "save"
                        /\ \A u \in Task \ {t} : task'[u] = task[u]
    BY DEF Within, TypeOK, TaskState
  <2>. QED  BY <1>1, <2>1, <2>2 DEF Enqueue
<1>2. ASSUME NEW t \in Task, Progress(t)
      PROVE  jobs' = jobs \/ Enqueue(t)
  BY <1>2, ProgressFrame DEF ClaimKey
<1>. QED
  BY <1>1, <1>2
  DEF Next, NewReport, Deliver, Approve, Reject, AdminReset, Crash, Enqueue
\* The key of every job is claimed, and the claim is what keeps two requests of
\* one thread from both reaching the enqueue: the severity of the alert does not
\* change, so both would carry the same action and claim the same key.
LEMMA QueueStep ==
    ASSUME TypeOK, RowsOK, TasksOK, StatesOK, QueueOK, Next
    PROVE  QueueOK'
<1>. DEFINE Key(n) == [inv |-> jobs[n].inv, action |-> jobs[n].action]
<1>1. dedup \subseteq dedup'
  <2>1. ASSUME NEW t \in Task, Progress(t)
        PROVE  dedup \subseteq dedup'
    BY <2>1, ProgressFrame DEF ClaimKey, Enqueue
  <2>. QED
    BY <2>1 DEF Next, NewReport, Deliver, Approve, Reject, AdminReset, Crash, queue
<1>2. \A n \in 1 .. Len(jobs) :
         /\ jobs[n].inv \in Investigation
         /\ Key(n) \in dedup
         /\ inv[jobs[n].inv].status # "none"
         /\ Fits(AlertSeverity(jobs[n].inv), jobs[n].action)
  <2>1. \A n \in 1 .. Len(jobs) : jobs[n] \in Job
    BY DEF TypeOK
  <2>2. \A n \in 1 .. Len(jobs) : jobs[n].inv \in Investigation
    BY <2>1 DEF Job
  <2>. QED  BY <2>2 DEF QueueOK
<1>3. \A n \in 1 .. Len(jobs') :
         /\ [inv |-> jobs'[n].inv, action |-> jobs'[n].action] \in dedup'
         /\ inv'[jobs'[n].inv].status # "none"
         /\ Fits(SeverityAfter(jobs'[n].inv), jobs'[n].action)
  <2>1. \A i \in Investigation : inv[i].status # "none" =>
           inv'[i].status # "none" /\ SeverityAfter(i) = AlertSeverity(i)
    BY RowsMonotone DEF AlertSeverity, SeverityAfter
  <2>2. CASE jobs' = jobs
    BY <1>1, <1>2, <2>1, <2>2
  <2>3. CASE \E t \in Task :
               /\ task[t].pc = "enqueue"
               /\ jobs' = Append(jobs, [inv |-> task[t].inv,
                                        action |-> task[t].st.proposed_action,
                                        approval |-> task[t].st.hil_approval_id])
    <3>. PICK t \in Task :
               /\ task[t].pc = "enqueue"
               /\ jobs' = Append(jobs, [inv |-> task[t].inv,
                                        action |-> task[t].st.proposed_action,
                                        approval |-> task[t].st.hil_approval_id])
      BY <2>3
    <3>. DEFINE j == [inv |-> task[t].inv, action |-> task[t].st.proposed_action,
                      approval |-> task[t].st.hil_approval_id]
    <3>1. /\ task[t].inv \in Investigation
          /\ inv[task[t].inv].status # "none"
          /\ Fits(AlertSeverity(task[t].inv), task[t].st.proposed_action)
          /\ KeyOf(t) \in dedup
      BY DispatchingState DEF Dispatching, QueueOK
    <3>2. /\ [inv |-> j.inv, action |-> j.action] \in dedup'
          /\ inv'[j.inv].status # "none"
          /\ Fits(SeverityAfter(j.inv), j.action)
      BY <1>1, <2>1, <3>1 DEF KeyOf
    <3>. HIDE DEF j
    <3>3. jobs \in Seq(Job) /\ jobs' = Append(jobs, j)
      BY DEF TypeOK, j
    <3>4. \A n \in 1 .. Len(jobs') :
             jobs'[n] = j \/ (n \in 1 .. Len(jobs) /\ jobs'[n] = jobs[n])
      BY <3>3
    <3>. QED  BY <1>1, <1>2, <2>1, <3>2, <3>4
  <2>. QED  BY <2>2, <2>3, JobsStep
<1>4. ASSUME NEW u \in Task, task'[u].pc = "enqueue"
      PROVE  /\ task'[u].inv = task[u].inv /\ task'[u].st = task[u].st
             /\ task[u].pc \in Dispatching
             /\ KeyOf(u) \in dedup'
  BY <1>1, <1>4, AtEnqueue DEF QueueOK, Dispatching
<1>5. ASSUME NEW u \in Task, task'[u].pc = "enqueue"
      PROVE  \A n \in 1 .. Len(jobs') : jobs'[n].inv # task[u].inv
  <2>1. CASE task'[u] = task[u]
    <3>1. \A n \in 1 .. Len(jobs) : jobs[n].inv # task[u].inv
      BY <1>5, <2>1 DEF QueueOK
    <3>2. CASE jobs' = jobs
      BY <3>1, <3>2
    <3>3. ASSUME NEW t \in Task, task[t].pc = "enqueue", task'[t].pc # "enqueue",
                 jobs' = Append(jobs, [inv |-> task[t].inv,
                                       action |-> task[t].st.proposed_action,
                                       approval |-> task[t].st.hil_approval_id])
          PROVE  \A n \in 1 .. Len(jobs') : jobs'[n].inv # task[u].inv
      <4>1. task[t].inv # task[u].inv
        BY <1>5, <2>1, <3>3 DEF QueueOK
      <4>2. jobs \in Seq(Job)
        BY DEF TypeOK
      <4>. QED  BY <3>1, <3>3, <4>1, <4>2
    <3>. QED  BY <3>2, <3>3, JobsStep
  <2>2. CASE jobs' = jobs /\ task[u].pc = "setnx" /\ KeyOf(u) \notin dedup
    <3>1. Fits(AlertSeverity(task[u].inv), task[u].st.proposed_action)
      BY <2>2, DispatchingState DEF Dispatching
    <3>. QED  BY <1>2, <2>2, <3>1 DEF KeyOf, Fits
  <2>. QED  BY <1>5, <2>1, <2>2, AtEnqueue
<1>6. ASSUME NEW u \in Task, NEW v \in Task, u # v,
             task'[u].pc = "enqueue", task'[v].pc = "enqueue"
      PROVE  task[u].inv # task[v].inv
  <2>1. ASSUME NEW x \in Task, NEW y \in Task, task'[y] = task[y],
               task[x].pc = "setnx", KeyOf(x) \notin dedup, task[y].pc = "enqueue"
        PROVE  task[x].inv # task[y].inv
    <3>1. /\ Fits(AlertSeverity(task[x].inv), task[x].st.proposed_action)
          /\ Fits(AlertSeverity(task[y].inv), task[y].st.proposed_action)
          /\ KeyOf(y) \in dedup
      BY <2>1, DispatchingState DEF Dispatching, QueueOK
    <3>. QED  BY <2>1, <3>1 DEF KeyOf, Fits
  <2>2. CASE task'[u] = task[u] /\ task'[v] = task[v]
    BY <1>6, <2>2 DEF QueueOK
  <2>3. CASE task'[u] # task[u]
    <3>1. task[u].pc = "setnx" /\ KeyOf(u) \notin dedup /\ task'[v] = task[v]
      BY <1>6, <2>3, AtEnqueue
    <3>. QED  BY <1>6, <2>1, <3>1
  <2>4. CASE task'[v] # task[v]
    <3>1. task[v].pc = "setnx" /\ KeyOf(v) \notin dedup /\ task'[u] = task[u]
      BY <1>6, <2>4, AtEnqueue
    <3>. QED  BY <1>6, <2>1, <3>1
  <2>. QED  BY <2>2, <2>3, <2>4
<1>7. ASSUME NEW u \in Task, task'[u].pc = "enqueue"
      PROVE  /\ KeyOf(u)' \in dedup'
             /\ \A n \in 1 .. Len(jobs') : jobs'[n].inv # task'[u].inv
             /\ \A v \in Task \ {u} :
                   task'[v].pc = "enqueue" => task'[v].inv # task'[u].inv
  <2>1. KeyOf(u)' = KeyOf(u)
    BY <1>4, <1>7 DEF KeyOf
  <2>. QED  BY <1>4, <1>5, <1>6, <1>7, <2>1
<1>. QED  BY <1>3, <1>7 DEF QueueOK, AlertSeverity, SeverityAfter
-----------------------------------------------------------------------------
(* The safety properties themselves.                                       *)

\* Only the INSERT gives a row a report.
LEMMA ReportsOfRows ==
    ASSUME TypeOK, RowsOK, TasksOK, Next, NEW i \in Investigation,
           inv'[i].report # inv[i].report
    PROVE  /\ inv[i].status = "none"
           /\ ~HasInvestigation(inv'[i].report)
           /\ \A j \in Investigation \ {i} : inv'[j] = inv[j]
<1>1. CASE \E t \in Task : InsertRow(t, i)
  BY <1>1 DEF InsertRow, UniqueViolation, TypeOK
<1>2. CASE \E t \in Task, j \in Investigation \ {i} : InsertRow(t, j)
  BY <1>2 DEF InsertRow, TypeOK
<1>3. CASE (\E a \in Approval, k \in Investigation : Reject(a, k)) \/ AdminReset
  <2>1. CASE \E a \in Approval, k \in Investigation : Reject(a, k)
    BY <2>1 DEF Reject, Decide, Matches, TypeOK, Row
  <2>2. CASE AdminReset
    BY <2>2 DEF AdminReset, TypeOK, Row
  <2>. QED  BY <1>3, <2>1, <2>2
<1>4. CASE \E t \in Task : CommsAgent(t)
  BY <1>4 DEF CommsAgent, TypeOK, Row
<1>. QED
  BY <1>1, <1>2, <1>3, <1>4, ProgressFrame
  DEF Next, NewReport, Deliver, Approve, Crash, tables

LEMMA OneInvestigationStep ==
    ASSUME TypeOK, RowsOK, TasksOK, OneInvestigationPerReport, Next
    PROVE  OneInvestigationPerReport'
<1>. SUFFICES ASSUME NEW i \in Investigation, NEW j \in Investigation, i # j,
                     inv'[i].report # NoId
              PROVE  inv'[i].report # inv'[j].report
  BY DEF OneInvestigationPerReport
<1>1. CASE inv'[i].report = inv[i].report /\ inv'[j].report = inv[j].report
  BY <1>1 DEF OneInvestigationPerReport
<1>2. CASE inv'[i].report # inv[i].report
  BY <1>2, ReportsOfRows DEF HasInvestigation
<1>3. CASE inv'[j].report # inv[j].report
  BY <1>3, ReportsOfRows DEF HasInvestigation
<1>. QED  BY <1>1, <1>2, <1>3

LEMMA AtMostOneJobStep ==
    ASSUME TypeOK, QueueOK, AtMostOneJob, Next
    PROVE  AtMostOneJob'
<1>1. CASE jobs' = jobs
  BY <1>1 DEF AtMostOneJob
<1>2. ASSUME NEW t \in Task, task[t].pc = "enqueue",
             jobs' = Append(jobs, [inv |-> task[t].inv,
                                   action |-> task[t].st.proposed_action,
                                   approval |-> task[t].st.hil_approval_id])
      PROVE  AtMostOneJob'
  <2>1. \A n \in 1 .. Len(jobs) : jobs[n].inv # task[t].inv
    BY <1>2 DEF QueueOK
  <2>2. jobs \in Seq(Job)
    BY DEF TypeOK
  <2>. QED  BY <1>2, <2>1, <2>2 DEF AtMostOneJob
<1>. QED  BY <1>1, <1>2, JobsStep

LEMMA JobApprovedStep ==
    ASSUME TypeOK, RowsOK, TasksOK, StatesOK, JobApproved, Next
    PROVE  JobApproved'
<1>. DEFINE Good(j) == /\ j.approval \in granted'
                       /\ hil'[j.approval].inv = j.inv
                       /\ hil'[j.approval].action = j.action
<1>0. \A a \in granted : /\ a \in granted'
                         /\ hil'[a].inv = hil[a].inv
                         /\ hil'[a].action = hil[a].action
  BY RowsMonotone DEF RowsOK, TypeOK
<1>1. \A n \in 1 .. Len(jobs) : Good(jobs[n])
  BY <1>0 DEF JobApproved
<1>2. CASE jobs' = jobs
  BY <1>1, <1>2 DEF JobApproved
<1>3. ASSUME NEW t \in Task, task[t].pc = "enqueue",
             jobs' = Append(jobs, [inv |-> task[t].inv,
                                   action |-> task[t].st.proposed_action,
                                   approval |-> task[t].st.hil_approval_id])
      PROVE  JobApproved'
  <2>. DEFINE j == [inv |-> task[t].inv, action |-> task[t].st.proposed_action,
                    approval |-> task[t].st.hil_approval_id]
  <2>1. Good(j)
    BY <1>0, <1>3, DispatchingState DEF Dispatching
  <2>. HIDE DEF j
  <2>2. jobs \in Seq(Job) /\ jobs' = Append(jobs, j)
    BY <1>3 DEF TypeOK, j
  <2>3. \A n \in 1 .. Len(jobs') :
           jobs'[n] = j \/ (n \in 1 .. Len(jobs) /\ jobs'[n] = jobs[n])
    BY <2>2
  <2>. QED  BY <1>1, <2>1, <2>3 DEF JobApproved
<1>. QED  BY <1>2, <1>3, JobsStep

-----------------------------------------------------------------------------
\* The invariant holds at the start and every step keeps it.
LEMMA InitIInv == Init => IInv
<1>. SUFFICES ASSUME Init PROVE IInv
  OBVIOUS
<1>1. TypeOK
  BY InitialStateType, IdleTaskType, BoundsAreNat
  DEF Init, TypeOK, Row, HilRow, Checkpoint
<1>2. \A t \in Task : task[t].pc = "idle"
  BY DEF Init, IdleTask
<1>3. RowsOK
  BY DEF Init, RowsOK
<1>4. TasksOK
  BY <1>2 DEF TasksOK, Running, Node, Dispatching
<1>5. StatesOK
  BY <1>2 DEF Init, StatesOK, InitialState, Running, Node, Dispatching
<1>6. jobs = << >>
  BY DEF Init
<1>7. QueueOK /\ AtMostOneJob /\ JobApproved
  BY <1>2, <1>6 DEF QueueOK, AtMostOneJob, JobApproved
<1>8. OneInvestigationPerReport
  BY DEF Init, OneInvestigationPerReport
<1>. QED  BY <1>1, <1>3, <1>4, <1>5, <1>7, <1>8 DEF IInv

LEMMA IInvStep == IInv /\ [Next]_vars => IInv'
<1>1. ASSUME IInv, Next PROVE IInv'
  BY <1>1, TypeStep, RowsStep, TasksStep, StatesStep, QueueStep,
     OneInvestigationStep, AtMostOneJobStep, JobApprovedStep DEF IInv
<1>2. ASSUME IInv, UNCHANGED vars PROVE IInv'
  <2>. USE <1>2 DEF vars, service, tables, queue, bounds
  <2>1. TypeOK' /\ RowsOK' /\ TasksOK'
    BY SMTT(30) DEF IInv, TypeOK, RowsOK, TasksOK, AlertSeverity
  <2>2. StatesOK'
    BY ZenonT(60) DEF IInv, StatesOK, AlertSeverity, GoodState, GoodAt, Approved
  <2>3. QueueOK'
    BY SMTT(30) DEF IInv, QueueOK, AlertSeverity, KeyOf, Fits
  <2>4. OneInvestigationPerReport' /\ AtMostOneJob' /\ JobApproved'
    BY DEF IInv, OneInvestigationPerReport, AtMostOneJob, JobApproved
  <2>. QED  BY <2>1, <2>2, <2>3, <2>4 DEF IInv
<1>. QED  BY <1>1, <1>2

\* The inductive invariant holds of every run of the agent service: whatever
\* interleaving of requests, faults, crashes and decisions, the rows, requests,
\* checkpoints and queue are related as its parts say.
THEOREM Invariance == Spec => []IInv
BY InitIInv, IInvStep, PTL DEF Spec

\* The tables, checkpoints, requests and queue keep their types.
THEOREM TypeCorrect == Spec => []TypeOK
<1>. IInv => TypeOK
  BY DEF IInv
<1>. QED  BY Invariance, PTL

\* POST /webhook/drift: no two investigations of one drift event, for any number
\* of overlapping deliveries.
THEOREM IntakeIsIdempotent == Spec => []OneInvestigationPerReport
<1>. IInv => OneInvestigationPerReport
  BY DEF IInv
<1>. QED  BY Invariance, PTL

\* dispatch_node and dedup: at most one job of an investigation is queued in a
\* TTL window, for any number of runs, resumes, crashes and approvals of it.
THEOREM DispatchIsIdempotent == Spec => []AtMostOneJob
<1>. IInv => AtMostOneJob
  BY DEF IInv
<1>. QED  BY Invariance, PTL

\* _approval_is_valid: every job carries an approval that a human granted for
\* this investigation and this action.
THEOREM JobsAreApproved == Spec => []JobApproved
<1>. IInv => JobApproved
  BY DEF IInv
<1>. QED  BY Invariance, PTL

\* propose_action: the queued action is the policy's for the severity the alert
\* had, however the reports change before it is dispatched.
THEOREM JobsFitTheirAlert == Spec => []JobFitsAlert
<1>. IInv => JobFitsAlert
  BY DEF IInv, QueueOK, Fits, JobFitsAlert
<1>. QED  BY Invariance, PTL

\* request_hil: a checkpoint names only an approval of its own investigation and
\* proposal.
THEOREM CheckpointsKeepTheirApproval == Spec => []CheckpointApproval
<1>. IInv => CheckpointApproval
  BY DEF IInv, StatesOK, GoodState, CheckpointApproval
<1>. QED  BY Invariance, PTL

\* The row of an actionable alert, once resolved, is resolved after any step.
LEMMA ResolvedStep ==
    ASSUME IInv, Next
    PROVE  \A i \in Investigation :
              inv[i].status = "resolved" /\ AlertSeverity(i) \in Actionable
                  => inv'[i].status = "resolved"
<1>. DEFINE Stays == \A i \in Investigation :
                        inv[i].status = "resolved" /\ AlertSeverity(i) \in Actionable
                            => inv'[i].status = "resolved"
<1>. SUFFICES Stays
  OBVIOUS
<1>. USE DEF IInv
<1>1. CASE inv' = inv
  BY <1>1
<1>2. CASE (\E a \in Approval, k \in Investigation : Reject(a, k)) \/ AdminReset
  <2>1. CASE \E a \in Approval, k \in Investigation : Reject(a, k)
    BY <2>1 DEF Reject, Decide, Matches, TypeOK, Row
  <2>2. CASE AdminReset
    BY <2>2 DEF AdminReset, TypeOK, Row
  <2>. QED  BY <1>2, <2>1, <2>2
<1>3. CASE \E t \in Task, i \in Investigation : InsertRow(t, i)
  BY <1>3 DEF InsertRow, TypeOK
<1>4. ASSUME NEW t \in Task, CommsAgent(t) PROVE  Stays
  <2>1. task[t].pc = "comms_agent"
    BY <1>4 DEF CommsAgent, At
  <2>2. AlertSeverity(task[t].inv) \in Actionable => task[t].st.status = "resolved"
    BY <2>1 DEF StatesOK, GoodAt, Running, Node
  <2>3. \/ inv' = inv
        \/ inv' = [inv EXCEPT ![task[t].inv].status = task[t].st.status]
    BY <1>4 DEF CommsAgent, RowStatus
  <2>. QED  BY <2>2, <2>3 DEF TypeOK, Row
<1>. QED
  BY <1>1, <1>2, <1>3, <1>4, ProgressFrame
  DEF Next, NewReport, Deliver, Approve, Crash, tables

\* comms_agent, hil.py and admin.py: once an investigation of an actionable alert
\* is resolved, no run still in flight opens it again.
THEOREM ResolvedIsFinal == Spec => ResolvedStaysResolved
<1>. DEFINE Stays == \A i \in Investigation :
                        inv[i].status = "resolved" /\ AlertSeverity(i) \in Actionable
                            => inv'[i].status = "resolved"
<1>1. IInv /\ [Next]_vars => [Stays]_vars
  BY ResolvedStep
<1>. QED  BY <1>1, Invariance, PTL DEF Spec, ResolvedStaysResolved
=============================================================================
