------------------------------ MODULE HilContract ------------------------------
(***************************************************************************)
(* What the agent promises of an action, without graph, checkpoints,       *)
(* tables or queue: an alert opens an investigation, a human is asked for  *)
(* the one action its severity calls for, and the action is sent to the    *)
(* worker after a human has agreed to it, and once.                        *)
(***************************************************************************)
EXTENDS Naturals, Sequences

CONSTANT Investigation

VARIABLES
    alert,    \* the severity each investigation was opened with
    asked,    \* what humans were asked to approve
    agreed,   \* what a human has approved
    sent      \* what was sent to the worker, in order

contractVars == <<alert, asked, agreed, sent>>

ActionFor == [medium |-> "replay_test", high |-> "retrain"]

Request(i, severity) == [inv |-> i, action |-> ActionFor[severity]]

Init ==
    /\ alert = [i \in Investigation |-> "none"]
    /\ asked = {}
    /\ agreed = {}
    /\ sent = << >>

Open(i, severity) ==
    /\ alert[i] = "none"
    /\ alert' = [alert EXCEPT ![i] = severity]
    /\ UNCHANGED <<asked, agreed, sent>>

\* Asked again after a failure, the human is asked for the same action.
Ask(i) ==
    /\ alert[i] \in DOMAIN ActionFor
    /\ asked' = asked \cup {Request(i, alert[i])}
    /\ UNCHANGED <<alert, agreed, sent>>

Agree(q) ==
    /\ q \in asked
    /\ agreed' = agreed \cup {q}
    /\ UNCHANGED <<alert, asked, sent>>

Send(q) ==
    /\ q \in agreed
    /\ \A n \in 1 .. Len(sent) : sent[n].inv # q.inv
    /\ sent' = Append(sent, q)
    /\ UNCHANGED <<alert, asked, agreed>>

Next ==
    \/ \E i \in Investigation :
          Ask(i) \/ \E severity \in {"low", "medium", "high"} : Open(i, severity)
    \/ \E q \in asked : Agree(q) \/ Send(q)

Spec == Init /\ [][Next]_contractVars
=============================================================================
