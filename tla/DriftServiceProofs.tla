--------------------------- MODULE DriftServiceProofs ---------------------------
(***************************************************************************)
(* The safety of DriftService for any number of requests, webhook          *)
(* attempts, faults and crashes: one inductive invariant, and from it the  *)
(* lock, the row and the single flight of the computation.                 *)
(***************************************************************************)
EXTENDS DriftService, TLAPS

\* A request that is not in flight.
LEMMA IdleType ==
    /\ IdleRequest \in RequestState
    /\ IdleRequest.pc = "idle"
    BY AttemptsIsPos DEF IdleRequest, RequestState, Pc

\* A request whose new severity is read from the window.
LEMMA ReadType ==
    ASSUME NEW r \in RequestState, NEW s \in Severity
    PROVE  [r EXCEPT !.pc = "compute", !.report = s] \in RequestState
    BY DEF RequestState, Pc

\* A request whose report is left to a background task.
LEMMA NotifiedType ==
    ASSUME NEW r \in RequestState
    PROVE  [r EXCEPT !.pc = "notify", !.force = FALSE] \in RequestState
    BY DEF RequestState, Pc

\* A request whose event the agent has accepted.
LEMMA AcceptedType ==
    ASSUME NEW r \in RequestState
    PROVE  [r EXCEPT !.pc = "store", !.known = TRUE] \in RequestState
    BY DEF RequestState, Pc

\* A step of a request that only moves it to another of the listed places.
LEMMA GotoType ==
    ASSUME TypeOK, NEW t \in Request, NEW pc \in Pc, Goto(t, pc)
    PROVE  /\ req' \in [Request -> RequestState]
           /\ \A u \in Request :
                 u # t => req'[u] = req[u]
           /\ req'[t].pc = pc
           /\ req'[t].report = req[t].report
           /\ req'[t].force = req[t].force
    BY DEF TypeOK, Goto, RequestState

LEMMA FinishType ==
    ASSUME TypeOK, NEW t \in Request, Finish(t)
    PROVE  /\ req' \in [Request -> RequestState]
           /\ \A u \in Request : u # t => req'[u] = req[u]
           /\ req'[t].pc = "idle"
    BY AttemptsIsPos DEF TypeOK, Finish, RequestState, IdleRequest, Pc

\* A failed attempt ends the request or leaves it where it is.
LEMMA RetryType ==
    ASSUME TypeOK, NEW t \in Request, NEW known \in BOOLEAN,
           req[t].pc = "post", Retry(t, known)
    PROVE  /\ req' \in [Request -> RequestState]
           /\ \A u \in Request : u # t => req'[u] = req[u]
           /\ \/ req'[t].pc = "idle"
              \/ /\ req'[t].pc = "post"
                 /\ req'[t].report = req[t].report
<1>1. CASE req[t].attempts + 1 < Attempts
  <2>1. req[t].attempts \in 0 .. Attempts /\ req[t].attempts + 1 \in 0 .. Attempts
    BY <1>1, AttemptsIsPos DEF TypeOK, RequestState
  <2>2. req' = [req EXCEPT ![t] = [req[t] EXCEPT
                    !.attempts = req[t].attempts + 1, !.known = known]]
    BY <1>1 DEF Retry
  <2>. QED
    BY <2>1, <2>2 DEF TypeOK, RequestState
<1>2. CASE ~(req[t].attempts + 1 < Attempts)
  BY <1>2, FinishType DEF Retry, GiveUp
<1>. QED
  BY <1>1, <1>2

\* The invariant holds at the start of the service.
LEMMA InitIInv == Init => IInv
<1>. SUFFICES ASSUME Init PROVE IInv
  OBVIOUS
<1>1. \A t \in Request : req[t] = IdleRequest /\ req[t].pc = "idle"
  BY IdleType DEF Init
<1>2. TypeOK
  <2>1. req \in [Request -> RequestState]
    BY IdleType DEF Init
  <2>2. clearing \in BOOLEAN
    BY DEF Init
  <2>3. faults \in 0 .. MaxFaults /\ crashes \in 0 .. MaxCrashes
    BY BoundsAreNat DEF Init
  <2>4. heard \subseteq Severity
    BY DEF Init
  <2>. QED
    BY <2>1, <2>2, <2>3, <2>4 DEF Init, TypeOK
<1>3. lock = None /\ alert = None
  BY DEF Init
<1>. QED
  BY <1>1, <1>2, <1>3, NoneIsFresh
  DEF IInv, LockHeld, Reported, StoredWasHeard, ComputesUncached

\* Every step of the service keeps it.
LEMMA IInvStep == IInv /\ [Next]_vars => IInv'
<1>. SUFFICES ASSUME IInv, [Next]_vars PROVE IInv'
  OBVIOUS
<1>. USE NoneIsFresh, AttemptsIsPos, BoundsAreNat
     DEF IInv, LockHeld, Reported, StoredWasHeard, ComputesUncached
<1>a. TypeOK
  OBVIOUS
<1>b. ASSUME Fault PROVE faults' \in 0 .. MaxFaults
  BY <1>a, <1>b DEF Fault, TypeOK
<1>c. ASSUME NoFault PROVE faults' \in 0 .. MaxFaults
  BY <1>a, <1>c DEF NoFault, TypeOK
<1>1. ASSUME NEW s \in Severity, Predict(s) PROVE IInv'
  BY <1>a, <1>1 DEF Predict, TypeOK, process, agent, bounds
<1>2. ASSUME NEW t \in Request, NEW force \in BOOLEAN, Get(t, force) PROVE IInv'
  <2>1. [IdleRequest EXCEPT !.pc = "lock", !.force = force] \in RequestState
    BY IdleType DEF RequestState, Pc
  <2>2. /\ req' \in [Request -> RequestState]
        /\ \A u \in Request : u # t => req'[u] = req[u]
        /\ req'[t].pc = "lock"
    BY <1>a, <1>2, <2>1 DEF Get, TypeOK, IdleRequest
  <2>. QED
    BY <1>a, <1>2, <2>2 DEF Get, TypeOK, agent, bounds
<1>3. ASSUME NEW t \in Request, Acquire(t) PROVE IInv'
  <2>1. CASE StillMustCompute(req[t].force)
    <3>1. lock' = t /\ Goto(t, "fetch")
      BY <1>3, <2>1 DEF Acquire
    <3>. QED
      BY <1>a, <1>3, <2>1, <3>1, GotoType
      DEF Acquire, LockIsFree, StillMustCompute, MustCompute, TypeOK, agent,
          bounds, Pc
  <2>2. CASE ~StillMustCompute(req[t].force)
    <3>1. lock' = lock /\ Finish(t)
      BY <1>3, <2>2 DEF Acquire
    <3>. QED
      BY <1>a, <1>3, <3>1, FinishType
      DEF Acquire, LockIsFree, TypeOK, agent, bounds
  <2>. QED
    BY <2>1, <2>2
<1>4. ASSUME NEW t \in Request, Fetch(t) PROVE IInv'
  <2>1. lock = t
    BY <1>a, <1>4 DEF Fetch
  <2>2. CASE NoFault /\ lock' = lock
             /\ req' = [req EXCEPT ![t] = [req[t] EXCEPT !.pc = "compute",
                                             !.report = SeverityOf(window)]]
    <3>1. SeverityOf(window) \in Severity
      BY <1>a DEF TypeOK, SeverityOf, Severity
    <3>2. req' \in [Request -> RequestState]
      BY <1>a, <2>2, <3>1, ReadType DEF TypeOK
    <3>3. /\ \A u \in Request : u # t => req'[u] = req[u]
          /\ req'[t].pc = "compute" /\ req'[t].report # None
          /\ req'[t].force = req[t].force
      BY <1>a, <2>2, <3>1 DEF TypeOK, RequestState
    <3>. QED
      BY <1>a, <1>c, <1>4, <2>1, <2>2, <3>2, <3>3 DEF Fetch, TypeOK, agent
  <2>3. CASE Fault /\ Finish(t) /\ lock' = None
    BY <1>a, <1>b, <1>4, <2>1, <2>3, FinishType DEF Fetch, TypeOK, agent
  <2>. QED
    BY <1>4, <2>2, <2>3 DEF Fetch
<1>5. ASSUME NEW t \in Request, Compute(t) PROVE IInv'
  <2>1. lock = t /\ req[t].report \in Severity
    BY <1>a, <1>5 DEF Compute, TypeOK, RequestState
  <2>2. req' \in [Request -> RequestState]
    BY <1>a, <1>5, NotifiedType DEF Compute, TypeOK
  <2>3. /\ \A u \in Request : u # t => req'[u] = req[u]
        /\ req'[t].pc = "notify" /\ req'[t].report = req[t].report
    BY <1>a, <1>5 DEF Compute, TypeOK, RequestState
  <2>. QED
    BY <1>a, <1>5, <2>1, <2>2, <2>3 DEF Compute, TypeOK, agent, bounds
<1>6. ASSUME NEW t \in Request, LookUp(t) PROVE IInv'
  <2>1. CASE NoFault /\ Finish(t)
    BY <1>a, <1>c, <1>6, <2>1, FinishType DEF LookUp, TypeOK, agent
  <2>2. CASE NoFault /\ Goto(t, "post")
    BY <1>a, <1>c, <1>6, <2>2, GotoType DEF LookUp, TypeOK, agent, Pc
  <2>3. CASE Fault /\ Finish(t)
    BY <1>a, <1>b, <1>6, <2>3, FinishType DEF LookUp, TypeOK, agent
  <2>. QED
    BY <1>6, <2>1, <2>2, <2>3 DEF LookUp
<1>7. ASSUME NEW t \in Request, Post(t) PROVE IInv'
  <2>1. req[t].report \in Severity
    BY <1>a, <1>7 DEF Post, TypeOK, RequestState
  <2>2. ASSUME Accept(t)
        PROVE  /\ last' \in Severity \cup {None}
               /\ heard' \subseteq Severity
               /\ heard \subseteq heard' /\ req[t].report \in heard'
    BY <1>a, <2>1, <2>2 DEF Accept, TypeOK
  <2>3. CASE NoFault /\ Accept(t)
             /\ req' = [req EXCEPT ![t] = [req[t] EXCEPT !.pc = "store",
                                                     !.known = TRUE]]
    <3>1. req' \in [Request -> RequestState]
      BY <1>a, <2>3, AcceptedType DEF TypeOK
    <3>2. /\ \A u \in Request : u # t => req'[u] = req[u]
          /\ req'[t].pc = "store" /\ req'[t].report = req[t].report
      BY <1>a, <2>3 DEF TypeOK, RequestState
    <3>. QED
      BY <1>a, <1>c, <1>7, <2>1, <2>2, <2>3, <3>1, <3>2 DEF Post, TypeOK
  <2>4. CASE Fault /\ Accept(t) /\ Retry(t, TRUE)
    <3>1. /\ req' \in [Request -> RequestState]
          /\ \A u \in Request : u # t => req'[u] = req[u]
          /\ \/ req'[t].pc = "idle"
             \/ req'[t].pc = "post" /\ req'[t].report = req[t].report
      BY <1>a, <1>7, <2>4, RetryType DEF Post
    <3>. QED
      BY <1>a, <1>b, <1>7, <2>1, <2>2, <2>4, <3>1 DEF Post, TypeOK
  <2>5. CASE Fault /\ UNCHANGED agent /\ Retry(t, req[t].known)
    <3>1. req[t].known \in BOOLEAN /\ req[t].pc = "post"
      BY <1>a, <1>7 DEF TypeOK, RequestState, Post
    <3>2. /\ req' \in [Request -> RequestState]
          /\ \A u \in Request : u # t => req'[u] = req[u]
          /\ \/ req'[t].pc = "idle"
             \/ req'[t].pc = "post" /\ req'[t].report = req[t].report
      BY <1>a, <2>5, <3>1, RetryType
    <3>. QED
      BY <1>a, <1>b, <1>7, <2>1, <2>5, <3>1, <3>2 DEF Post, TypeOK, agent
  <2>6. CASE Fault /\ UNCHANGED agent /\ GiveUp(t)
    BY <1>a, <1>b, <1>7, <2>6, FinishType DEF Post, GiveUp, TypeOK, agent
  <2>. QED
    BY <1>7, <2>3, <2>4, <2>5, <2>6 DEF Post
<1>8. ASSUME NEW t \in Request, Store(t) PROVE IInv'
  <2>1. req[t].report \in Severity /\ req[t].report \in heard
    BY <1>a, <1>8 DEF Store, TypeOK, RequestState
  <2>2. alert' \in {alert, req[t].report} /\ faults' \in 0 .. MaxFaults
    BY <1>b, <1>c, <1>8 DEF Store
  <2>. QED
    BY <1>a, <1>8, <2>1, <2>2, FinishType DEF Store, TypeOK, agent
<1>9. CASE Reset
  BY <1>a, <1>9 DEF Reset, TypeOK, agent, bounds
<1>10. CASE ClearCache \/ Expire
  BY <1>a, <1>10 DEF ClearCache, Expire, TypeOK, agent, bounds
<1>11. CASE Crash
  <2>1. \A t \in Request : req'[t] = IdleRequest /\ req'[t].pc = "idle"
    BY <1>11, IdleType DEF Crash
  <2>2. req' \in [Request -> RequestState]
    BY <1>11, IdleType DEF Crash
  <2>3. crashes' \in 0 .. MaxCrashes
    BY <1>a, <1>11 DEF Crash, TypeOK
  <2>. QED
    BY <1>a, <1>11, <2>1, <2>2, <2>3 DEF Crash, TypeOK, agent
<1>12. CASE UNCHANGED vars
  BY <1>a, <1>12 DEF vars, process, agent, bounds, TypeOK
<1>. QED
  BY <1>1, <1>2, <1>3, <1>4, <1>5, <1>6, <1>7, <1>8, <1>9, <1>10, <1>11, <1>12
  DEF Next, Progress

-----------------------------------------------------------------------------
\* The inductive invariant holds in every reachable state of the drift
\* endpoints, whatever requests overlap, fail and are lost in a crash.
THEOREM DriftInvariance == Spec => []IInv
<1>1. Init => IInv
  BY InitIInv
<1>2. IInv /\ [Next]_vars => IInv'
  BY IInvStep
<1>. QED
  BY <1>1, <1>2, PTL DEF Spec

\* The state of the drift endpoints keeps its types.
THEOREM DriftTypeCorrect == Spec => []TypeOK
<1>1. IInv => TypeOK
  BY DEF IInv
<1>. QED
  BY <1>1, DriftInvariance, PTL

\* drift_alert_state never holds a severity the agent was not told, whatever
\* webhook attempts fail and whenever the service crashes.
THEOREM RowsFollowTheAgent == Spec => []StoredWasHeard
<1>1. IInv => StoredWasHeard
  BY DEF IInv
<1>. QED
  BY <1>1, DriftInvariance, PTL

\* A request that does not force computes only when nothing is cached, however
\* many waited for the lock with it.
THEOREM ComputedOnce == Spec => SingleFlight
<1>. DEFINE Once == \A t \in Request :
                       (req[t].pc = "compute" /\ req'[t].pc = "notify"
                        /\ ~req[t].force) => cache = None
<1>1. IInv => Once
  BY DEF IInv, ComputesUncached
<1>2. IInv /\ [Next]_vars => [Once]_vars
  BY <1>1
<1>. QED
  BY <1>2, DriftInvariance, PTL DEF Spec, SingleFlight
=============================================================================
