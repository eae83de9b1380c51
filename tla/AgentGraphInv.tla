---------------------------- MODULE AgentGraphInv ----------------------------
(* The inductive invariant behind the safety properties of AgentGraph.     *)
EXTENDS AgentGraph

\* A row exists exactly when it has an alert's report, whose severity is known.
RowsOK ==
    /\ \A i \in Investigation :
          IF inv[i].status = "none" THEN inv[i].report = NoId
          ELSE inv[i].report \in Report /\ AlertSeverity(i) \in Severity
    /\ \A a \in Approval :
          /\ IF hil[a].status = "none" THEN hil[a].inv = NoId
             ELSE hil[a].inv \in Investigation /\ inv[hil[a].inv].status # "none"
          /\ hil[a].status = "approved" => a \in granted
          /\ a \in granted => hil[a].status # "none"

\* The points inside the dispatch node that follow its approval check.
Dispatching == {"freshness", "setnx", "enqueue"}
Running     == Node \cup Dispatching \cup {"start", "resume", "save"}

TasksOK ==
    \A t \in Task :
        /\ task[t].pc \in Running =>
              task[t].inv \in Investigation /\ inv[task[t].inv].status # "none"
        /\ task[t].pc \in {"insert", "start"} =>
              task[t].report \in Report /\ reports[task[t].report] \in Severity
        /\ task[t].pc \in Dispatching \cup {"save"} =>
              task[t].steps < RecursionLimit

Fits(severity, action) ==
    \/ action = "retrain" /\ severity = "high"
    \/ action = "replay_test" /\ severity = "medium"

\* What holds of the state a thread of investigation i carries, given the
\* severity of its alert and the approval rows.
GoodState(severity, rows, i, st) ==
    /\ st.proposed_action = "none" => st.hil_approval_id = NoId
    /\ st.proposed_action = "no_action" => severity = "low"
    /\ st.proposed_action \in Dispatchable =>
          Fits(severity, st.proposed_action) /\ st.requires_hil
    /\ st.hil_approval_id # NoId =>
          LET row == rows[st.hil_approval_id] IN
              /\ row.status # "none"
              /\ row.inv = i
              /\ row.action = st.proposed_action
    /\ st.dispatch_status # "" => st.status = "resolved"

\* What holds of it when node n is next.
GoodAt(severity, n, st) ==
    /\ n = "action_agent" => st.proposed_action = "none"
    /\ n = "request_hil" => st.proposed_action \in Dispatchable
    /\ n \in {"request_hil", "pause_for_human"} => st.dispatch_status = ""
    /\ n = "comms_agent" /\ severity \in Actionable => st.status = "resolved"

Approved(grants, st) ==
    st.proposed_action \in Dispatchable /\ st.hil_approval_id \in grants

StatesOK ==
    /\ \A i \in Investigation :
          IF ckpt[i].next = "none" THEN ckpt[i].st.hil_approval_id = NoId
          ELSE /\ inv[i].status # "none"
               /\ GoodState(AlertSeverity(i), hil, i, ckpt[i].st)
               /\ GoodAt(AlertSeverity(i), ckpt[i].next, ckpt[i].st)
    /\ \A t \in Task :
          task[t].pc \in Running \ {"start", "resume"} =>
              LET i == task[t].inv IN
              /\ GoodState(AlertSeverity(i), hil, i, task[t].st)
              /\ GoodAt(AlertSeverity(i), task[t].pc, task[t].st)
              /\ task[t].pc \in Dispatching => Approved(granted, task[t].st)

\* The idempotency key of every job is claimed, and a task that has claimed a
\* key and not yet enqueued is the only one and has no job before it.
QueueOK ==
    /\ \A n \in 1 .. Len(jobs) :
          /\ [inv |-> jobs[n].inv, action |-> jobs[n].action] \in dedup
          /\ inv[jobs[n].inv].status # "none"
          /\ Fits(AlertSeverity(jobs[n].inv), jobs[n].action)
    /\ \A t \in Task : task[t].pc = "enqueue" =>
          /\ KeyOf(t) \in dedup
          /\ \A n \in 1 .. Len(jobs) : jobs[n].inv # task[t].inv
          /\ \A u \in Task \ {t} :
                task[u].pc = "enqueue" => task[u].inv # task[t].inv

\* The inductive invariant: the parts above, with the properties they carry.
IInv ==
    /\ TypeOK
    /\ RowsOK
    /\ TasksOK
    /\ StatesOK
    /\ QueueOK
    /\ OneInvestigationPerReport
    /\ AtMostOneJob
    /\ JobApproved
=============================================================================
