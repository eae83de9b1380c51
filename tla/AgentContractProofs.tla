------------------------- MODULE AgentContractProofs -------------------------
(* Proof that AgentGraph implements HilContract, for all values of the       *)
(* constants: each step of the graph is a step of the contract or a stutter. *)
EXTENDS AgentContract, AgentGraphProofs

\* The mapped variables of the contract, by name.
Alerts == [i \in Investigation |-> AlertOf(i)]
Asked  == AskedIn({a \in Approval : hil[a].status # "none"})
Agreed == AskedIn(granted)
Sent   == [n \in 1 .. Len(jobs) |->
              [inv |-> jobs[n].inv, action |-> jobs[n].action]]

\* Who touches which table: webhook intake opens rows, request_hil writes new
\* approvals, POST /hil/approve grants them.
LEMMA OnlyInsertOpens ==
    ASSUME IInv, Next, ~(\E t \in Task, i \in Investigation : InsertRow(t, i))
    PROVE  \A i \in Investigation : inv[i].status = "none" => inv'[i] = inv[i]
<1>. USE DEF service, tables, queue, bounds
<1>1. CASE \E t \in Task : Progress(t)
  <2>. PICK t \in Task : Progress(t)
    BY <1>1
  <2>1. CASE inv' = inv
    BY <2>1
  <2>2. CASE CommsAgent(t)
    <3>1. task[t].inv \in Investigation /\ inv[task[t].inv].status # "none"
      BY <2>2 DEF IInv, TasksOK, CommsAgent, At, Running, Node
    <3>. QED  BY <2>2, <3>1 DEF CommsAgent, IInv, TypeOK
  <2>. QED  BY <2>1, <2>2, ProgressFrame DEF IInv
<1>2. CASE \E a \in Approval, i \in Investigation : Reject(a, i)
  BY <1>2 DEF Reject, IInv, TypeOK
<1>3. CASE AdminReset
  BY <1>3 DEF AdminReset
<1>. QED
  BY <1>1, <1>2, <1>3 DEF Next, NewReport, Deliver, Approve, Crash

LEMMA OnlyRequestHilAsks ==
    ASSUME IInv, Next, ~(\E t \in Task, a \in Approval : RequestHil(t, a))
    PROVE  \A a \in Approval : hil[a].status = "none" => hil'[a].status = "none"
<1>. USE DEF service, tables, queue, bounds
<1>1. CASE \E t \in Task : Progress(t)
  BY <1>1, ProgressFrame DEF IInv
<1>2. CASE \E a \in Approval, i \in Investigation : Reject(a, i)
  <2>. PICK a \in Approval, i \in Investigation : Reject(a, i)
    BY <1>2
  <2>1. NoId \notin Investigation
    BY NoIdIsFresh
  <2>. QED  BY <2>1 DEF Reject, Decide, Matches, IInv, TypeOK, RowsOK
<1>3. CASE AdminReset
  BY <1>3 DEF AdminReset
<1>4. CASE \E t \in Task, a \in Approval, i \in Investigation : Approve(t, a, i)
  <2>. PICK t \in Task, a \in Approval, i \in Investigation : Approve(t, a, i)
    BY <1>4
  <2>1. NoId \notin Investigation
    BY NoIdIsFresh
  <2>. QED  BY <2>1 DEF Approve, Decide, Matches, IInv, TypeOK, RowsOK
<1>. QED
  BY <1>1, <1>2, <1>3, <1>4 DEF Next, NewReport, Deliver, Crash

LEMMA OnlyApproveGrants ==
    ASSUME IInv, Next,
           ~(\E t \in Task, a \in Approval, i \in Investigation : Approve(t, a, i))
    PROVE  granted' = granted
<1>1. CASE \E t \in Task : Progress(t)
  BY <1>1, ProgressFrame DEF IInv
<1>. QED
  BY <1>1 DEF Next, NewReport, Deliver, Reject, AdminReset, Crash

\* What a step leaves alone is left alone as the contract sees it.
LEMMA AlertsFrame ==
    ASSUME IInv, Next, ~(\E t \in Task, i \in Investigation : InsertRow(t, i))
    PROVE  Alerts' = Alerts
<1>1. \A i \in Investigation : AlertOf(i)' = AlertOf(i)
  BY OnlyInsertOpens, RowsMonotone DEF AlertOf, IInv
<1>. QED  BY <1>1 DEF Alerts

LEMMA AskedFrame ==
    ASSUME IInv, Next, ~(\E t \in Task, a \in Approval : RequestHil(t, a))
    PROVE  Asked' = Asked
<1>1. \A a \in Approval :
         /\ hil'[a].status = "none" <=> hil[a].status = "none"
         /\ hil[a].status # "none" => /\ hil'[a].inv = hil[a].inv
                                      /\ hil'[a].action = hil[a].action
  BY OnlyRequestHilAsks, RowsMonotone DEF IInv
<1>. QED  BY <1>1 DEF Asked, AskedIn

LEMMA GrantedRowsStay ==
    ASSUME IInv, Next
    PROVE  \A a \in granted : /\ a \in Approval
                              /\ hil[a].status # "none"
                              /\ hil'[a].inv = hil[a].inv
                              /\ hil'[a].action = hil[a].action
BY RowsMonotone DEF IInv, RowsOK, TypeOK

LEMMA AgreedFrame ==
    ASSUME IInv, Next,
           ~(\E t \in Task, a \in Approval, i \in Investigation : Approve(t, a, i))
    PROVE  Agreed' = Agreed
BY OnlyApproveGrants, GrantedRowsStay DEF Agreed, AskedIn

LEMMA SentFrame ==
    ASSUME jobs' = jobs
    PROVE  Sent' = Sent
BY DEF Sent

-----------------------------------------------------------------------------
\* The four steps the contract sees.  Webhook intake opens an investigation with
\* the severity of its report.
LEMMA InsertOpens ==
    ASSUME IInv, Next, NEW t \in Task, NEW i \in Investigation, InsertRow(t, i)
    PROVE  /\ \E s \in {"low", "medium", "high"} :
                 Alerts[i] = "none" /\ Alerts' = [Alerts EXCEPT ![i] = s]
           /\ Asked' = Asked /\ Agreed' = Agreed /\ Sent' = Sent
<1>. USE DEF service, tables, queue, bounds
<1>. DEFINE s == reports[task[t].report]
<1>1. s \in {"low", "medium", "high"}
  BY DEF IInv, TasksOK, InsertRow, Severity
<1>2. AlertOf(i) = "none" /\ AlertOf(i)' = s
  BY DEF InsertRow, AlertOf, AlertSeverity, IInv, TypeOK
<1>3. \A j \in Investigation \ {i} : AlertOf(j)' = AlertOf(j)
  BY DEF InsertRow, AlertOf, AlertSeverity, IInv, TypeOK
<1>4. Alerts' = [Alerts EXCEPT ![i] = s]
  BY <1>2, <1>3 DEF Alerts
<1>5. Asked' = Asked /\ Agreed' = Agreed /\ Sent' = Sent
  BY DEF InsertRow, Asked, Agreed, AskedIn, Sent
<1>. QED  BY <1>1, <1>2, <1>4, <1>5 DEF Alerts

\* request_hil asks for the action of the alert's severity.
LEMMA RequestAsks ==
    ASSUME IInv, Next, NEW t \in Task, NEW a \in Approval, RequestHil(t, a)
    PROVE  \E i \in Investigation :
              /\ \/ Alerts[i] = "high"
                       /\ Asked' = Asked \cup {[inv |-> i, action |-> "retrain"]}
                 \/ Alerts[i] = "medium"
                       /\ Asked' = Asked \cup {[inv |-> i, action |-> "replay_test"]}
              /\ Alerts' = Alerts /\ Agreed' = Agreed /\ Sent' = Sent
<1>. USE DEF service, tables, queue, bounds
<1>. DEFINE i == task[t].inv
            action == task[t].st.proposed_action
<1>1. task[t].pc = "request_hil"
  BY DEF RequestHil, At
<1>2. i \in Investigation /\ inv[i].status # "none"
  BY <1>1 DEF IInv, TasksOK, Running, Node
<1>3. action \in Dispatchable /\ hil' = [hil EXCEPT ![a] = ApprovalRow(t)]
  BY RequestHilStep DEF IInv
<1>4. Fits(AlertSeverity(i), action)
  BY <1>1, <1>3 DEF IInv, StatesOK, GoodState, Running, Node
<1>5. hil[a].status = "none" /\ hil'[a] = [inv |-> i, action |-> action,
                                           status |-> "pending"]
  BY <1>3 DEF RequestHil, ApprovalRow, IInv, TypeOK
<1>6. \A b \in Approval \ {a} : hil'[b] = hil[b]
  BY <1>3 DEF IInv, TypeOK
<1>7. Asked' = Asked \cup {[inv |-> i, action |-> action]}
  BY <1>5, <1>6 DEF Asked, AskedIn
<1>8. Alerts' = Alerts
  BY DEF RequestHil, Alerts, AlertOf, AlertSeverity
<1>9. a \notin granted /\ granted \subseteq Approval /\ granted' = granted
  BY <1>5 DEF IInv, RowsOK, TypeOK, RequestHil
<1>10. Agreed' = Agreed
  BY <1>6, <1>9 DEF Agreed, AskedIn
<1>11. Sent' = Sent
  BY DEF RequestHil, Sent
<1>. QED
  BY <1>2, <1>4, <1>7, <1>8, <1>10, <1>11 DEF Fits, Alerts, AlertOf

\* POST /hil/approve agrees to what was asked, or changes nothing of it.
LEMMA ApproveAgrees ==
    ASSUME IInv, Next, NEW t \in Task, NEW a \in Approval, NEW i \in Investigation,
           Approve(t, a, i)
    PROVE  /\ Agreed' = Agreed \/ \E q \in Asked : Agreed' = Agreed \cup {q}
           /\ Alerts' = Alerts /\ Asked' = Asked /\ Sent' = Sent
<1>. USE DEF service, tables, queue, bounds
<1>. DEFINE q == [inv |-> hil[a].inv, action |-> hil[a].action]
<1>1. Alerts' = Alerts /\ Sent' = Sent
  BY DEF Approve, Alerts, AlertOf, AlertSeverity, Sent
<1>2. \A b \in Approval : hil'[b].inv = hil[b].inv /\ hil'[b].action = hil[b].action
  BY DEF Approve, Decide, Matches, IInv, TypeOK, HilRow
<1>3. granted \subseteq Approval
  BY DEF IInv, TypeOK
<1>4. CASE Matches(a, i)
  <2>1. hil[a].status # "none"
    BY <1>4, NoIdIsFresh DEF Matches, IInv, RowsOK
  <2>2. q \in Asked
    BY <2>1 DEF Asked, AskedIn
  <2>3. granted' = granted \cup {a}
    BY <1>4 DEF Approve
  <2>4. Agreed' = Agreed \cup {q}
    BY <1>2, <1>3, <2>3 DEF Agreed, AskedIn
  <2>5. Asked' = Asked
    <3>. \A b \in Approval : hil'[b].status = "none" <=> hil[b].status = "none"
      BY <2>1 DEF Approve, Decide, Matches, IInv, TypeOK, HilRow
    <3>. QED  BY <1>2 DEF Asked, AskedIn
  <2>. QED  BY <1>1, <2>2, <2>4, <2>5
<1>5. CASE ~Matches(a, i)
  <2>1. hil' = hil /\ granted' = granted
    BY <1>5 DEF Approve, Decide
  <2>2. Agreed' = Agreed /\ Asked' = Asked
    BY <2>1 DEF Agreed, Asked, AskedIn
  <2>. QED  BY <1>1, <2>2
<1>. QED  BY <1>4, <1>5

\* dispatch_node sends an action that was agreed to, of an investigation that has
\* sent none.
LEMMA EnqueueSends ==
    ASSUME IInv, Next, jobs' # jobs
    PROVE  /\ \E q \in Agreed : /\ \A n \in 1 .. Len(Sent) : Sent[n].inv # q.inv
                                /\ Sent' = Append(Sent, q)
           /\ Agreed \subseteq Asked
<1>1. PICK t \in Task :
         /\ task[t].pc = "enqueue"
         /\ jobs' = Append(jobs, [inv |-> task[t].inv,
                                  action |-> task[t].st.proposed_action,
                                  approval |-> task[t].st.hil_approval_id])
  BY JobsStep DEF IInv
<1>. DEFINE q == [inv |-> task[t].inv, action |-> task[t].st.proposed_action]
            j == [inv |-> task[t].inv, action |-> task[t].st.proposed_action,
                  approval |-> task[t].st.hil_approval_id]
<1>2. q \in Agreed
  BY <1>1, DispatchingState DEF Agreed, AskedIn, Dispatching, IInv
<1>3. jobs \in Seq(Job) /\ Len(jobs) \in Nat
  BY DEF IInv, TypeOK
<1>4. Len(Sent) = Len(jobs) /\ \A n \in 1 .. Len(jobs) : Sent[n].inv = jobs[n].inv
  <2>. Len(Sent) = Len(jobs)
    BY <1>3 DEF Sent
  <2>. QED  BY DEF Sent
<1>5. \A n \in 1 .. Len(Sent) : Sent[n].inv # q.inv
  BY <1>1, <1>4 DEF IInv, QueueOK
<1>6. Sent' = Append(Sent, q)
  <2>1. j \in Job
    BY <1>1, DispatchingState DEF IInv, Job, TypeOK, TaskState, AgentState, Dispatching
  <2>. DEFINE n1 == Len(jobs) + 1
  <2>2. Len(jobs') = n1 /\ jobs'[n1] = j /\ \A n \in 1 .. Len(jobs) : jobs'[n] = jobs[n]
    BY <1>1, <1>3, <2>1
  <2>3. Sent' = [n \in 1 .. n1 |-> IF n = n1 THEN q ELSE Sent[n]]
    BY <1>3, <2>2 DEF Sent
  <2>4. Append(Sent, q) = [n \in 1 .. n1 |-> IF n = n1 THEN q ELSE Sent[n]]
    BY <1>3, <1>4
  <2>. QED  BY <2>3, <2>4
<1>7. Agreed \subseteq Asked
  BY DEF Agreed, Asked, AskedIn, IInv, TypeOK, RowsOK
<1>. QED  BY <1>2, <1>5, <1>6, <1>7

-----------------------------------------------------------------------------
\* The refinement.
LEMMA InitContract == Init => Contract!Init
<1>. SUFFICES ASSUME Init PROVE Contract!Init
  OBVIOUS
<1>1. \A i \in Investigation : AlertOf(i) = "none"
  BY DEF Init, AlertOf
<1>2. {a \in Approval : hil[a].status # "none"} = {} /\ granted = {} /\ Len(jobs) = 0
  BY DEF Init
<1>3. [n \in 1 .. Len(jobs) |->
          [inv |-> jobs[n].inv, action |-> jobs[n].action]] = << >>
  BY <1>2
<1>. QED  BY <1>1, <1>2, <1>3 DEF Contract!Init, AskedIn

LEMMA ContractStep == IInv /\ [Next]_vars => [Contract!Next]_(Contract!contractVars)
<1>1. ASSUME IInv, Next
      PROVE  \/ Contract!Next
             \/ Alerts' = Alerts /\ Asked' = Asked /\ Agreed' = Agreed /\ Sent' = Sent
  <2>. USE <1>1 DEF Contract!Next
  <2>1. CASE \E t \in Task, i \in Investigation : InsertRow(t, i)
    BY <2>1, InsertOpens DEF Contract!Open, Alerts, Asked, Agreed, Sent
  <2>2. CASE \E t \in Task, a \in Approval : RequestHil(t, a)
    <3>. DEFINE Ask(i, s, action) ==
                  /\ Alerts[i] = s
                  /\ Asked' = Asked \cup {[inv |-> i, action |-> action]}
    <3>1. PICK i \in Investigation :
             /\ Ask(i, "high", "retrain") \/ Ask(i, "medium", "replay_test")
             /\ Alerts' = Alerts /\ Agreed' = Agreed /\ Sent' = Sent
      BY <2>2, RequestAsks
    <3>2. /\ {"high", "medium"} \subseteq DOMAIN Contract!ActionFor
          /\ Contract!ActionFor["high"] = "retrain"
          /\ Contract!ActionFor["medium"] = "replay_test"
      BY DEF Contract!ActionFor
    <3>3. Contract!Ask(i)
      BY <3>1, <3>2 DEF Contract!Ask, Contract!Request, Alerts, Asked, Agreed, Sent
    <3>. QED  BY <3>3
  <2>3. CASE \E t \in Task, a \in Approval, i \in Investigation : Approve(t, a, i)
    BY <2>3, ApproveAgrees DEF Contract!Agree, Alerts, Asked, Agreed, Sent
  <2>4. CASE /\ ~(\E t \in Task, i \in Investigation : InsertRow(t, i))
             /\ ~(\E t \in Task, a \in Approval : RequestHil(t, a))
             /\ ~(\E t \in Task, a \in Approval, i \in Investigation : Approve(t, a, i))
    <3>1. Alerts' = Alerts /\ Asked' = Asked /\ Agreed' = Agreed
      BY <2>4, AlertsFrame, AskedFrame, AgreedFrame
    <3>2. CASE jobs' = jobs
      BY <3>1, <3>2, SentFrame
    <3>3. CASE jobs' # jobs
      BY <3>1, <3>3, EnqueueSends DEF Contract!Send, Alerts, Asked, Agreed, Sent
    <3>. QED  BY <3>2, <3>3
  <2>. QED  BY <2>1, <2>2, <2>3, <2>4
<1>2. ASSUME UNCHANGED vars
      PROVE  Alerts' = Alerts /\ Asked' = Asked /\ Agreed' = Agreed /\ Sent' = Sent
  BY <1>2 DEF vars, service, tables, queue, bounds, Alerts, AlertOf, AlertSeverity,
              Asked, Agreed, AskedIn, Sent
<1>. QED
  BY <1>1, <1>2 DEF Contract!contractVars, Alerts, Asked, Agreed, Sent

\* The agent service does what HilContract promises of an action, through any
\* number of requests, retries, faults and crashes.
THEOREM AgentImplementsContract == Spec => ImplementsContract
BY Invariance, InitContract, ContractStep, PTL
DEF Spec, ImplementsContract, Contract!Spec
=============================================================================
