----------------------------- MODULE AgentContract -----------------------------
(* The agent's graph seen as the contract it implements.                   *)
EXTENDS AgentGraphInv

\* The row of an investigation stands for its alert, the rows of hil_approvals
\* for what was asked and decided, the queue without its approvals for what was
\* sent.  A later rejection does not take back that a human had agreed.
AskedIn(rows) == {[inv |-> hil[a].inv, action |-> hil[a].action] : a \in rows}

AlertOf(i) == IF inv[i].status = "none" THEN "none" ELSE AlertSeverity(i)

Contract == INSTANCE HilContract
    WITH alert  <- [i \in Investigation |-> AlertOf(i)],
         asked  <- AskedIn({a \in Approval : hil[a].status # "none"}),
         agreed <- AskedIn(granted),
         sent   <- [n \in 1 .. Len(jobs) |->
                       [inv |-> jobs[n].inv, action |-> jobs[n].action]]

\* Whatever requests, retries, faults and crashes the graph goes through, it does
\* what the contract allows: opens each investigation once, asks for the action
\* of its alert, and sends it once, after a human agreed to exactly that.
ImplementsContract == Contract!Spec
=============================================================================
