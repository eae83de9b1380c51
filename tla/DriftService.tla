----------------------------- MODULE DriftService -----------------------------
(***************************************************************************)
(* The drift endpoints of the model service: the report cache and the lock *)
(* around its computation, the alert that a change of severity sends to    *)
(* the agent, the row that remembers the last alert, and the reset.        *)
(*                                                                         *)
(* A request is one GET /drift/report with the background task it leaves   *)
(* behind.  Handlers interleave at their awaits, so each database query    *)
(* and each webhook attempt is a step of its own.  The cache, the lock and *)
(* the requests live in the process and are lost in a crash.  A report is  *)
(* its severity: nothing here looks at the rest of it.                     *)
(***************************************************************************)
EXTENDS Naturals

CONSTANTS
    Request,      \* report requests in flight at the same time
    None,         \* no cached report, no row, no holder of the lock
    Attempts,     \* tries of one webhook: tenacity's stop_after_attempt
    MaxFaults,    \* bound: failing queries and webhook attempts
    MaxCrashes    \* bound: crashes of the service process

Severity == {"low", "medium", "high"}

ASSUME NoneIsFresh == None \notin Request \cup Severity
ASSUME AttemptsIsPos == Attempts \in Nat \ {0}
ASSUME BoundsAreNat == MaxFaults \in Nat /\ MaxCrashes \in Nat

VARIABLES
    window,      \* severity of the predictions table's last rows, or "empty"
    cache,       \* _drift_cache
    lock,        \* holder of _drift_lock
    req,         \* the requests in flight
    alert,       \* drift_alert_state.last_severity
    last,        \* severity of the last drift event the agent accepted
    heard,       \* history: the severities the agent has ever been told
    clearing,    \* a reset has committed and not yet cleared the cache
    faults,
    crashes

process == <<cache, lock, req, clearing>>
agent   == <<last, heard>>
bounds  == <<faults, crashes>>
vars    == <<window, alert, process, agent, bounds>>

Pc == {"idle", "lock", "fetch", "compute", "notify", "post", "store"}

\* known: the agent has accepted the event of this request.
RequestState == [pc       : Pc,
                 force    : BOOLEAN,
                 report   : Severity \cup {None},
                 attempts : 0 .. Attempts,
                 known    : BOOLEAN]

IdleRequest == [pc |-> "idle", force |-> FALSE, report |-> None,
                attempts |-> 0, known |-> FALSE]

TypeOK ==
    /\ window \in Severity \cup {"empty"}
    /\ cache \in Severity \cup {None}
    /\ lock \in Request \cup {None}
    /\ req \in [Request -> RequestState]
    /\ alert \in Severity \cup {None}
    /\ last \in Severity \cup {None}
    /\ heard \subseteq Severity
    /\ clearing \in BOOLEAN
    /\ faults \in 0 .. MaxFaults
    /\ crashes \in 0 .. MaxCrashes

Init ==
    /\ window = "empty"
    /\ cache = None
    /\ lock = None
    /\ req = [t \in Request |-> IdleRequest]
    /\ alert = None
    /\ last = None
    /\ heard = {}
    /\ clearing = FALSE
    /\ faults = 0
    /\ crashes = 0

-----------------------------------------------------------------------------
(* POST /predict.  Rows are only added; the last of them have any severity. *)

Predict(s) ==
    /\ window' = s
    /\ UNCHANGED <<alert, process, agent, bounds>>

-----------------------------------------------------------------------------
(* GET /drift/report.                                                      *)

Fault   == faults < MaxFaults /\ faults' = faults + 1
NoFault == faults' = faults

Goto(t, pc) == req' = [req EXCEPT ![t] = [req[t] EXCEPT !.pc = pc]]
Finish(t)   == req' = [req EXCEPT ![t] = IdleRequest]

\* A request that finds a cached report and does not force a new one returns
\* it and changes nothing.
MustCompute(force) == force \/ cache = None

Get(t, force) ==
    /\ req[t].pc = "idle"
    /\ MustCompute(force)
    /\ req' = [req EXCEPT ![t] = [IdleRequest EXCEPT !.pc = "lock",
                                                     !.force = force]]
    /\ UNCHANGED <<window, cache, lock, alert, clearing, agent, bounds>>

\* Mutant: the cache is not looked at again once the lock is held.
NotCheckedAgain(force) == TRUE
StillMustCompute(force) == MustCompute(force)

\* Mutant: there is no lock to wait for.
LockIgnored == TRUE
LockIsFree == lock = None

Acquire(t) ==
    /\ req[t].pc = "lock"
    /\ LockIsFree
    /\ IF StillMustCompute(req[t].force) THEN lock' = t /\ Goto(t, "fetch")
       ELSE lock' = lock /\ Finish(t)
    /\ UNCHANGED <<window, cache, alert, clearing, agent, bounds>>

SeverityOf(w) == IF w = "empty" THEN "low" ELSE w

\* The rolling window as the query sees it, which later predictions and a reset
\* do not change any more.  A failing query releases the lock.
Fetch(t) ==
    /\ req[t].pc = "fetch"
    /\ \/ /\ NoFault
          /\ req' = [req EXCEPT ![t] = [req[t] EXCEPT !.pc = "compute",
                                                  !.report = SeverityOf(window)]]
          /\ lock' = lock
       \/ /\ Fault
          /\ Finish(t)
          /\ lock' = None
    /\ UNCHANGED <<window, cache, alert, clearing, crashes, agent>>

\* The report is computed and cached, the lock released and the answer sent
\* without an await in between; the alert is left to a background task, which
\* is given the report and not the force of the request.
Compute(t) ==
    /\ req[t].pc = "compute"
    /\ cache' = req[t].report
    /\ lock' = None
    /\ req' = [req EXCEPT ![t] = [req[t] EXCEPT !.pc = "notify", !.force = FALSE]]
    /\ UNCHANGED <<window, alert, clearing, agent, bounds>>

-----------------------------------------------------------------------------
(* _maybe_emit_severity_webhook.                                           *)

\* Mutant: only the first severity is ever sent.
AnyRow(severity) == alert # None
AlreadySent(severity) == alert = severity

LookUp(t) ==
    /\ req[t].pc = "notify"
    /\ \/ /\ NoFault
          /\ IF AlreadySent(req[t].report) THEN Finish(t) ELSE Goto(t, "post")
       \/ Fault /\ Finish(t)
    /\ UNCHANGED <<window, cache, lock, alert, clearing, crashes, agent>>

\* Mutant: the handler of the last exception does not return.
StoreAnyway(t) == Goto(t, "store")
GiveUp(t) == Finish(t)

\* A timeout or a network error is retried.
Retry(t, known) ==
    IF req[t].attempts + 1 < Attempts
    THEN req' = [req EXCEPT ![t] = [req[t] EXCEPT !.attempts = req[t].attempts + 1,
                                              !.known = known]]
    ELSE GiveUp(t)

\* The agent accepts the event; it knows a repeated one by its id.
Accept(t) ==
    /\ last' = IF req[t].known THEN last ELSE req[t].report
    /\ heard' = heard \cup {req[t].report}

\* One attempt: accepted and answered; accepted with the answer lost; lost; or
\* answered with an error status, which is not retried.
Post(t) ==
    /\ req[t].pc = "post"
    /\ \/ /\ NoFault
          /\ Accept(t)
          /\ req' = [req EXCEPT ![t] = [req[t] EXCEPT !.pc = "store",
                                                  !.known = TRUE]]
       \/ Fault /\ Accept(t) /\ Retry(t, TRUE)
       \/ Fault /\ UNCHANGED agent /\ Retry(t, req[t].known)
       \/ Fault /\ UNCHANGED agent /\ GiveUp(t)
    /\ UNCHANGED <<window, cache, lock, alert, clearing, crashes>>

Store(t) ==
    /\ req[t].pc = "store"
    /\ \/ NoFault /\ alert' = req[t].report
       \/ Fault /\ alert' = alert
    /\ Finish(t)
    /\ UNCHANGED <<window, cache, lock, clearing, crashes, agent>>

-----------------------------------------------------------------------------
(* POST /drift/reset, the TTL and the process.                             *)

\* The tables are emptied in one transaction, the cache after its commit.
Reset ==
    /\ ~clearing
    /\ window' = "empty"
    /\ alert' = None
    /\ clearing' = TRUE
    /\ UNCHANGED <<cache, lock, req, agent, bounds>>

ClearCache ==
    /\ clearing
    /\ cache' = None
    /\ clearing' = FALSE
    /\ UNCHANGED <<window, alert, lock, req, agent, bounds>>

Expire ==
    /\ cache # None
    /\ cache' = None
    /\ UNCHANGED <<window, alert, lock, req, clearing, agent, bounds>>

Crash ==
    /\ crashes < MaxCrashes
    /\ crashes' = crashes + 1
    /\ cache' = None
    /\ lock' = None
    /\ req' = [t \in Request |-> IdleRequest]
    /\ clearing' = FALSE
    /\ UNCHANGED <<window, alert, agent, faults>>

-----------------------------------------------------------------------------
Progress(t) == \/ Acquire(t) \/ Fetch(t) \/ Compute(t)
               \/ LookUp(t) \/ Post(t) \/ Store(t)

Next ==
    \/ \E s \in Severity : Predict(s)
    \/ \E t \in Request, force \in BOOLEAN : Get(t, force)
    \/ \E t \in Request : Progress(t)
    \/ Reset
    \/ ClearCache
    \/ Expire
    \/ Crash

Spec == Init /\ [][Next]_vars

\* Requests in flight and a reset go on, cached reports expire, and somebody
\* (the dashboard, the agent's triage) keeps asking for the report.
FairSpec ==
    /\ Spec
    /\ \A t \in Request : WF_vars(Progress(t))
    /\ WF_vars(ClearCache)
    /\ WF_vars(Expire)
    /\ WF_vars(\E t \in Request : Get(t, FALSE))

-----------------------------------------------------------------------------
(* Safety.                                                                 *)

\* The lock is held by exactly the request between its Acquire and the end of
\* its computation, also across failures, resets and crashes.
LockHeld ==
    \A t \in Request : req[t].pc \in {"fetch", "compute"} <=> lock = t

\* What a request carries on to the agent and to the row is a report.
Reported ==
    \A t \in Request :
        req[t].pc \in {"compute", "notify", "post", "store"} =>
            req[t].report # None

\* drift_alert_state never holds a severity the agent was not told: a webhook
\* that failed, was lost or is still being retried leaves no row behind, and
\* neither does a crash (DECISIONS.md: failed webhooks are not marked
\* delivered).
StoredWasHeard ==
    /\ alert # None => alert \in heard
    /\ \A t \in Request : req[t].pc = "store" => req[t].report \in heard

\* Nothing is cached while a request that does not force computes: only the
\* holder of the lock fills the cache.
ComputesUncached ==
    \A t \in Request :
        (req[t].pc \in {"fetch", "compute"} /\ ~req[t].force) => cache = None

\* The inductive invariant.
IInv == TypeOK /\ LockHeld /\ Reported /\ StoredWasHeard /\ ComputesUncached

\* A request that does not force computes a report only if none is cached, also
\* when it waited for the lock while another request computed one.
SingleFlight ==
    [][\A t \in Request :
          (req[t].pc = "compute" /\ req'[t].pc = "notify" /\ ~req[t].force)
              => cache = None]_vars

-----------------------------------------------------------------------------
(* Liveness, under FairSpec.                                               *)

\* A severity that lasts is the one the row ends up with, whatever failed or
\* overlapped before.  While the window stays empty the row is low or, after
\* yet another reset, missing, also when an older report was under way.
AlertFollowsWindow ==
    /\ \A s \in Severity : <>[](window = s) => <>[](alert = s)
    /\ <>[](window = "empty") => <>[](alert \in {None, "low"})

\* A severity that lasts is the last one the agent was told of (drift.py: emit
\* webhook on severity change).
AgentLearns ==
    \A s \in Severity : <>[](window = s) => <>[](last = s)
=============================================================================
