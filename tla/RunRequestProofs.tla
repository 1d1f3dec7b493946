-------------------------- MODULE RunRequestProofs --------------------------
(***************************************************************************)
(* Proofs about RunRequest, for any number of requests and threads.        *)
(*                                                                         *)
(* OneCycleAtATime is not inductive: the finally block releases on the     *)
(* strength of lock_acquired alone, so the invariant has to say at which   *)
(* places that flag is set (Flow) and that whoever would release holds the *)
(* lock (Held).  LeakIsRecycled needs in addition that the request behind  *)
(* a leak keeps the memory of its deadline until it asks for the recycle.  *)
(***************************************************************************)
EXTENDS RunRequest, TLAPS

\* Before the assignment the flag is down, in the cycle it is up.
Flow(r) ==
  /\ pc[r] \in {"plugins", "acquire", "assign"} => ~flag[r]
  /\ pc[r] = "core" => flag[r]

Held(r) == Holds(r) => lock

\* Each kind of request keeps to its own places.
Route(r) ==
  /\ kind[r] = "run" => pc[r] \notin {"dispatch", "arm", "disarm", "grace"}
  /\ kind[r] = "dry" => pc[r] # "dispatch"
  /\ armed = r \/ expired[r] => kind[r] # "run"
  /\ needed[r] => kind[r] = "dispatch"
  /\ expired[r] => pc[r] \in {"finally", "persist", "grace", "dispatch", "done"}
  /\ expired[r] /\ pc[r] = "dispatch" => needed[r]

\* How many reports are still to be persisted.
Owed(r) ==
  /\ saved[r] <= built[r] /\ built[r] <= 1
  /\ pc[r] \in {"queued", "arm", "build"} => built[r] = 0
  /\ pc[r] = "dispatch" => saved[r] = built[r]
  /\ pc[r] \in {"plugins", "acquire", "assign", "core", "finally", "persist"}
       => built[r] = 1 /\ saved[r] = 0
  /\ pc[r] \in {"disarm", "grace"} => saved[r] = 0
  /\ pc[r] = "done" /\ answer[r] # "killed" => saved[r] = built[r]

IInv ==
  /\ TypeOK
  /\ \A r \in Request : Flow(r) /\ Held(r) /\ Route(r) /\ Owed(r)
  /\ OneCycleAtATime

USE DEF Goto, Say

LEMMA InitIInv == Init => IInv
<1> SUFFICES ASSUME Init PROVE IInv
  OBVIOUS
<1> USE RunAssumption DEF Init
<1>1. TypeOK
  BY DEF TypeOK, Kind, Place, Answer
<1>2. ASSUME NEW r \in Request PROVE Flow(r) /\ ~Holds(r)
  BY DEF Flow, Holds
<1>3. ASSUME NEW r \in Request PROVE Route(r)
  BY DEF Route
<1>4. ASSUME NEW r \in Request PROVE Owed(r)
  BY DEF Owed
<1> QED
  BY <1>1, <1>2, <1>3, <1>4 DEF IInv, Held, OneCycleAtATime

LEMMA StepIInv == IInv /\ [Next]_vars => IInv'
<1> SUFFICES ASSUME IInv, [Next]_vars PROVE IInv'
  OBVIOUS
<1> USE RunAssumption DEF requestVars, workerVars
<1>0. TypeOK /\ OneCycleAtATime
      /\ \A r \in Request : Flow(r) /\ Held(r) /\ Route(r) /\ Owed(r)
  BY DEF IInv
<1>1. ASSUME NEW r \in Request, NEW t \in Thread, Accept(r, t) PROVE IInv'
  <2>0. /\ pc[r] = "queued" /\ pc' = [pc EXCEPT ![r] = pc'[r]]
        /\ kind[r] = "run" => pc'[r] = "build"
        /\ kind[r] = "dry" => pc'[r] = "arm"
        /\ pc'[r] \in {"build", "arm", "dispatch"}
        /\ UNCHANGED <<kind, flag, expired, needed, built, saved, answer, workerVars>>
    BY <1>0, <1>1 DEF Accept, TypeOK, Kind
  <2>1. TypeOK'
    BY <1>0, <1>1 DEF Accept, TypeOK, Kind, Place, Answer
  <2>2. ASSUME NEW s \in Request PROVE Flow(s)' /\ Held(s)'
    BY <1>0, <2>0 DEF TypeOK, Flow, Held, Holds
  <2>3. ASSUME NEW s \in Request PROVE Route(s)'
    BY <1>0, <2>0 DEF TypeOK, Route
  <2>4. ASSUME NEW s \in Request PROVE Owed(s)'
    BY <1>0, <2>0 DEF TypeOK, Owed
  <2>5. OneCycleAtATime'
    BY <1>0, <2>0 DEF TypeOK, Holds, OneCycleAtATime
  <2> QED
    BY <2>1, <2>2, <2>3, <2>4, <2>5 DEF IInv
<1>2. ASSUME NEW r \in Request, LocalWindow(r) PROVE IInv'
  <2>1. TypeOK'
    BY <1>0, <1>2 DEF LocalWindow, TypeOK, Kind, Place, Answer
  <2>2. ASSUME NEW s \in Request PROVE Flow(s)' /\ Held(s)'
    BY <1>0, <1>2 DEF LocalWindow, TypeOK, Flow, Held, Holds, OneCycleAtATime
  <2>3. ASSUME NEW s \in Request PROVE Route(s)'
    BY <1>0, <1>2 DEF LocalWindow, TypeOK, Route, Kind
  <2>4. ASSUME NEW s \in Request PROVE Owed(s)'
    BY <1>0, <1>2 DEF LocalWindow, TypeOK, Owed, Kind, Route
  <2>5. OneCycleAtATime'
    BY <1>0, <1>2 DEF LocalWindow, TypeOK, Flow, Held, Holds, OneCycleAtATime
  <2> QED
    BY <2>1, <2>2, <2>3, <2>4, <2>5 DEF IInv
<1>3. ASSUME NEW r \in Request, Arm(r) PROVE IInv'
  <2>1. TypeOK'
    BY <1>0, <1>3 DEF Arm, TypeOK, Kind, Place, Answer
  <2>2. ASSUME NEW s \in Request PROVE Flow(s)' /\ Held(s)'
    BY <1>0, <1>3 DEF Arm, TypeOK, Flow, Held, Holds, OneCycleAtATime
  <2>3. ASSUME NEW s \in Request PROVE Route(s)'
    BY <1>0, <1>3 DEF Arm, TypeOK, Route, Kind
  <2>4. ASSUME NEW s \in Request PROVE Owed(s)'
    BY <1>0, <1>3 DEF Arm, TypeOK, Owed, Kind, Route
  <2>5. OneCycleAtATime'
    BY <1>0, <1>3 DEF Arm, TypeOK, Flow, Held, Holds, OneCycleAtATime
  <2> QED
    BY <2>1, <2>2, <2>3, <2>4, <2>5 DEF IInv
<1>4. ASSUME NEW r \in Request, Build(r) PROVE IInv'
  <2>1. TypeOK'
    BY <1>0, <1>4 DEF Build, TypeOK, Kind, Place, Answer
  <2>2. ASSUME NEW s \in Request PROVE Flow(s)' /\ Held(s)'
    BY <1>0, <1>4 DEF Build, TypeOK, Flow, Held, Holds, OneCycleAtATime
  <2>3. ASSUME NEW s \in Request PROVE Route(s)'
    BY <1>0, <1>4 DEF Build, TypeOK, Route, Kind
  <2>4. ASSUME NEW s \in Request PROVE Owed(s)'
    BY <1>0, <1>4 DEF Build, TypeOK, Owed, Kind, Route
  <2>5. OneCycleAtATime'
    BY <1>0, <1>4 DEF Build, TypeOK, Flow, Held, Holds, OneCycleAtATime
  <2> QED
    BY <2>1, <2>2, <2>3, <2>4, <2>5 DEF IInv
<1>5. ASSUME NEW r \in Request, LoadPlugins(r) PROVE IInv'
  <2>1. TypeOK'
    BY <1>0, <1>5 DEF LoadPlugins, TypeOK, Kind, Place, Answer
  <2>2. ASSUME NEW s \in Request PROVE Flow(s)' /\ Held(s)'
    BY <1>0, <1>5 DEF LoadPlugins, TypeOK, Flow, Held, Holds, OneCycleAtATime
  <2>3. ASSUME NEW s \in Request PROVE Route(s)'
    BY <1>0, <1>5 DEF LoadPlugins, TypeOK, Route, Kind
  <2>4. ASSUME NEW s \in Request PROVE Owed(s)'
    BY <1>0, <1>5 DEF LoadPlugins, TypeOK, Owed, Kind, Route
  <2>5. OneCycleAtATime'
    BY <1>0, <1>5 DEF LoadPlugins, TypeOK, Flow, Held, Holds, OneCycleAtATime
  <2> QED
    BY <2>1, <2>2, <2>3, <2>4, <2>5 DEF IInv
<1>6. ASSUME NEW r \in Request, Acquire(r) PROVE IInv'
  <2>1. TypeOK'
    BY <1>0, <1>6 DEF Acquire, TypeOK, Kind, Place, Answer
  <2>2. ASSUME NEW s \in Request PROVE Flow(s)' /\ Held(s)'
    BY <1>0, <1>6 DEF Acquire, TypeOK, Flow, Held, Holds, OneCycleAtATime
  <2>3. ASSUME NEW s \in Request PROVE Route(s)'
    BY <1>0, <1>6 DEF Acquire, TypeOK, Route, Kind
  <2>4. ASSUME NEW s \in Request PROVE Owed(s)'
    BY <1>0, <1>6 DEF Acquire, TypeOK, Owed, Kind, Route
  <2>5. OneCycleAtATime'
    BY <1>0, <1>6 DEF Acquire, TypeOK, Flow, Held, Holds, OneCycleAtATime
  <2> QED
    BY <2>1, <2>2, <2>3, <2>4, <2>5 DEF IInv
<1>7. ASSUME NEW r \in Request, Assign(r) PROVE IInv'
  <2>1. TypeOK'
    BY <1>0, <1>7 DEF Assign, TypeOK, Kind, Place, Answer
  <2>2. ASSUME NEW s \in Request PROVE Flow(s)' /\ Held(s)'
    BY <1>0, <1>7 DEF Assign, TypeOK, Flow, Held, Holds, OneCycleAtATime
  <2>3. ASSUME NEW s \in Request PROVE Route(s)'
    BY <1>0, <1>7 DEF Assign, TypeOK, Route, Kind
  <2>4. ASSUME NEW s \in Request PROVE Owed(s)'
    BY <1>0, <1>7 DEF Assign, TypeOK, Owed, Kind, Route
  <2>5. OneCycleAtATime'
    BY <1>0, <1>7 DEF Assign, TypeOK, Flow, Held, Holds, OneCycleAtATime
  <2> QED
    BY <2>1, <2>2, <2>3, <2>4, <2>5 DEF IInv
<1>8. ASSUME NEW r \in Request, Core(r) PROVE IInv'
  <2>1. TypeOK'
    BY <1>0, <1>8 DEF Core, TypeOK, Kind, Place, Answer
  <2>2. ASSUME NEW s \in Request PROVE Flow(s)' /\ Held(s)'
    BY <1>0, <1>8 DEF Core, TypeOK, Flow, Held, Holds, OneCycleAtATime
  <2>3. ASSUME NEW s \in Request PROVE Route(s)'
    BY <1>0, <1>8 DEF Core, TypeOK, Route, Kind
  <2>4. ASSUME NEW s \in Request PROVE Owed(s)'
    BY <1>0, <1>8 DEF Core, TypeOK, Owed, Kind, Route
  <2>5. OneCycleAtATime'
    BY <1>0, <1>8 DEF Core, TypeOK, Flow, Held, Holds, OneCycleAtATime
  <2> QED
    BY <2>1, <2>2, <2>3, <2>4, <2>5 DEF IInv
<1>9. ASSUME NEW r \in Request, Release(r) PROVE IInv'
  <2>1. TypeOK'
    BY <1>0, <1>9 DEF Release, TypeOK, Kind, Place, Answer
  <2>2. ASSUME NEW s \in Request PROVE Flow(s)' /\ Held(s)'
    BY <1>0, <1>9 DEF Release, TypeOK, Flow, Held, Holds, OneCycleAtATime
  <2>3. ASSUME NEW s \in Request PROVE Route(s)'
    BY <1>0, <1>9 DEF Release, TypeOK, Route, Kind
  <2>4. ASSUME NEW s \in Request PROVE Owed(s)'
    BY <1>0, <1>9 DEF Release, TypeOK, Owed, Kind, Route
  <2>5. OneCycleAtATime'
    BY <1>0, <1>9 DEF Release, TypeOK, Flow, Held, Holds, OneCycleAtATime
  <2> QED
    BY <2>1, <2>2, <2>3, <2>4, <2>5 DEF IInv
<1>10. ASSUME NEW r \in Request, Persist(r) PROVE IInv'
  <2>1. TypeOK'
    BY <1>0, <1>10 DEF Persist, TypeOK, Kind, Place, Answer
  <2>2. ASSUME NEW s \in Request PROVE Flow(s)' /\ Held(s)'
    BY <1>0, <1>10 DEF Persist, TypeOK, Flow, Held, Holds, OneCycleAtATime
  <2>3. ASSUME NEW s \in Request PROVE Route(s)'
    BY <1>0, <1>10 DEF Persist, TypeOK, Route, Kind
  <2>4. ASSUME NEW s \in Request PROVE Owed(s)'
    BY <1>0, <1>10 DEF Persist, TypeOK, Owed, Kind, Route
  <2>5. OneCycleAtATime'
    BY <1>0, <1>10 DEF Persist, TypeOK, Flow, Held, Holds, OneCycleAtATime
  <2> QED
    BY <2>1, <2>2, <2>3, <2>4, <2>5 DEF IInv
<1>11. ASSUME NEW r \in Request, Disarm(r) PROVE IInv'
  <2>1. TypeOK'
    BY <1>0, <1>11 DEF Disarm, TypeOK, Kind, Place, Answer
  <2>2. ASSUME NEW s \in Request PROVE Flow(s)' /\ Held(s)'
    BY <1>0, <1>11 DEF Disarm, TypeOK, Flow, Held, Holds, OneCycleAtATime
  <2>3. ASSUME NEW s \in Request PROVE Route(s)'
    BY <1>0, <1>11 DEF Disarm, TypeOK, Route, Kind
  <2>4. ASSUME NEW s \in Request PROVE Owed(s)'
    BY <1>0, <1>11 DEF Disarm, TypeOK, Owed, Kind, Route
  <2>5. OneCycleAtATime'
    BY <1>0, <1>11 DEF Disarm, TypeOK, Flow, Held, Holds, OneCycleAtATime
  <2> QED
    BY <2>1, <2>2, <2>3, <2>4, <2>5 DEF IInv
<1>12. ASSUME NEW r \in Request, Grace(r) PROVE IInv'
  <2>1. TypeOK'
    BY <1>0, <1>12 DEF Grace, TypeOK, Kind, Place, Answer
  <2>2. ASSUME NEW s \in Request PROVE Flow(s)' /\ Held(s)'
    BY <1>0, <1>12 DEF Grace, TypeOK, Flow, Held, Holds, OneCycleAtATime
  <2>3. ASSUME NEW s \in Request PROVE Route(s)'
    BY <1>0, <1>12 DEF Grace, TypeOK, Route, Kind
  <2>4. ASSUME NEW s \in Request PROVE Owed(s)'
    BY <1>0, <1>12 DEF Grace, TypeOK, Owed, Kind, Route
  <2>5. OneCycleAtATime'
    BY <1>0, <1>12 DEF Grace, TypeOK, Flow, Held, Holds, OneCycleAtATime
  <2> QED
    BY <2>1, <2>2, <2>3, <2>4, <2>5 DEF IInv
<1>13. ASSUME NEW r \in Request, Join(r) PROVE IInv'
  <2>1. TypeOK'
    BY <1>0, <1>13 DEF Join, TypeOK, Kind, Place, Answer
  <2>2. ASSUME NEW s \in Request PROVE Flow(s)' /\ Held(s)'
    BY <1>0, <1>13 DEF Join, TypeOK, Flow, Held, Holds, OneCycleAtATime
  <2>3. ASSUME NEW s \in Request PROVE Route(s)'
    BY <1>0, <1>13 DEF Join, TypeOK, Route, Kind
  <2>4. ASSUME NEW s \in Request PROVE Owed(s)'
    BY <1>0, <1>13 DEF Join, TypeOK, Owed, Kind, Route
  <2>5. OneCycleAtATime'
    BY <1>0, <1>13 DEF Join, TypeOK, Flow, Held, Holds, OneCycleAtATime
  <2> QED
    BY <2>1, <2>2, <2>3, <2>4, <2>5 DEF IInv
<1>14. ASSUME NEW r \in Request, Deadline(r) PROVE IInv'
  <2>1. TypeOK'
    BY <1>0, <1>14 DEF Deadline, TypeOK, Kind, Place, Answer
  <2>2. ASSUME NEW s \in Request PROVE Flow(s)' /\ Held(s)'
    BY <1>0, <1>14 DEF Deadline, TypeOK, Flow, Held, Holds, OneCycleAtATime
  <2>3. ASSUME NEW s \in Request PROVE Route(s)'
    BY <1>0, <1>14 DEF Deadline, TypeOK, Route, Kind
  <2>4. ASSUME NEW s \in Request PROVE Owed(s)'
    BY <1>0, <1>14 DEF Deadline, TypeOK, Owed, Kind, Route
  <2>5. OneCycleAtATime'
    BY <1>0, <1>14 DEF Deadline, TypeOK, Flow, Held, Holds, OneCycleAtATime
  <2> QED
    BY <2>1, <2>2, <2>3, <2>4, <2>5 DEF IInv
<1>15. CASE \E r \in Request : Serve(r) \/ Deadline(r) \/ \E t \in Thread : Accept(r, t)
  <2>1. PICK r \in Request : Serve(r) \/ Deadline(r) \/ \E t \in Thread : Accept(r, t)
    BY <1>15
  <2>2. CASE Serve(r)
    BY <2>2, <1>2, <1>3, <1>4, <1>5, <1>6, <1>7, <1>8, <1>9, <1>10, <1>11,
       <1>12, <1>13, Zenon DEF Serve
  <2> QED
    BY <2>1, <2>2, <1>1, <1>14
<1>16. CASE Terminate \/ ReplaceWorker \/ KillWorker \/ Idle \/ UNCHANGED vars
  <2> USE <1>16 DEF Terminate, ReplaceWorker, KillWorker, Idle, vars, InFlight
  <2>1. TypeOK'
    <3>1. CASE KillWorker
      <4>1. pc' \in [Request -> Place] /\ answer' \in [Request -> Answer]
        BY <3>1, <1>0 DEF TypeOK, Place, Answer
      <4> QED
        BY <3>1, <4>1, <1>0 DEF TypeOK
    <3> QED
      BY <3>1, <1>0 DEF TypeOK
  <2>2. ASSUME NEW s \in Request PROVE Flow(s)' /\ Held(s)'
    BY <1>0 DEF TypeOK, Flow, Held, Holds
  <2>3. ASSUME NEW s \in Request PROVE Route(s)'
    BY <1>0 DEF TypeOK, Route
  <2>4. ASSUME NEW s \in Request PROVE Owed(s)'
    BY <1>0 DEF TypeOK, Owed
  <2>5. OneCycleAtATime'
    BY <1>0 DEF TypeOK, Holds, OneCycleAtATime
  <2> QED
    BY <2>1, <2>2, <2>3, <2>4, <2>5 DEF IInv
<1> QED
  BY <1>15, <1>16 DEF Next

LEMMA Inductive == Spec => []IInv
BY InitIInv, StepIInv, PTL DEF Spec

\* Every variable of the worker keeps its type.
THEOREM TypeCorrect == Spec => []TypeOK
BY Inductive, PTL DEF IInv

\* Mutual exclusion: whatever deadlines, refused requests and replaced workers
\* do, two strategy cycles never run at the same time in one process.
THEOREM MutualExclusion == Spec => []OneCycleAtATime
BY Inductive, PTL DEF IInv

\* Every report a request has registered is persisted once.
THEOREM PersistedOnce == Spec => []ReportsPersistedOnce
<1>1. IInv => ReportsPersistedOnce
  BY DEF IInv, Owed, ReportsPersistedOnce
<1> QED
  BY Inductive, <1>1, PTL

-----------------------------------------------------------------------------
(* The leak and its recycle. *)

\* A request that will ask for a recycle, or have its dispatch ask for it.
Owes(r) == InFlight(r) /\ ((expired[r] /\ pc[r] # "dispatch") \/ needed[r])

Covered == Leaked => recycle # "no" \/ \E r \in Request : Owes(r)

LEMMA InitCovered == Init => Covered
BY DEF Init, Covered, Leaked

LEMMA StepCovered ==
  ~RemoteRaises /\ IInv /\ IInv' /\ Covered /\ [Next]_vars => Covered'
<1> SUFFICES ASSUME ~RemoteRaises, IInv, IInv', Covered, [Next]_vars PROVE Covered'
  OBVIOUS
<1> USE RunAssumption DEF requestVars, workerVars, Leaked, Covered, Owes, InFlight
<1>0. TypeOK /\ \A r \in Request : Flow(r) /\ Held(r) /\ Route(r)
  BY DEF IInv
<1>1. ASSUME NEW r \in Request, NEW t \in Thread, Accept(r, t) PROVE Covered'
  BY <1>0, <1>1 DEF Accept, TypeOK, Route, Holds, Flow, Kind
<1>2. ASSUME NEW r \in Request, LocalWindow(r) PROVE Covered'
  BY <1>0, <1>2 DEF LocalWindow, TypeOK, Route, Holds, Flow, Kind
<1>3. ASSUME NEW r \in Request, Arm(r) PROVE Covered'
  BY <1>0, <1>3 DEF Arm, TypeOK, Route, Holds, Flow, Kind
<1>4. ASSUME NEW r \in Request, Build(r) PROVE Covered'
  BY <1>0, <1>4 DEF Build, TypeOK, Route, Holds, Flow, Kind
<1>5. ASSUME NEW r \in Request, LoadPlugins(r) PROVE Covered'
  BY <1>0, <1>5 DEF LoadPlugins, TypeOK, Route, Holds, Flow, Kind
<1>6. ASSUME NEW r \in Request, Acquire(r) PROVE Covered'
  BY <1>0, <1>6 DEF Acquire, TypeOK, Route, Holds, Flow, Kind
<1>7. ASSUME NEW r \in Request, Assign(r) PROVE Covered'
  BY <1>0, <1>7 DEF Assign, TypeOK, Route, Holds, Flow, Kind
<1>8. ASSUME NEW r \in Request, Core(r) PROVE Covered'
  BY <1>0, <1>8 DEF Core, TypeOK, Route, Holds, Flow, Kind
<1>9. ASSUME NEW r \in Request, Release(r) PROVE Covered'
  BY <1>0, <1>9 DEF Release, TypeOK, Route, Holds, Flow, Kind
<1>10. ASSUME NEW r \in Request, Persist(r) PROVE Covered'
  BY <1>0, <1>10 DEF Persist, TypeOK, Route, Holds, Flow, Kind
<1>11. ASSUME NEW r \in Request, Disarm(r) PROVE Covered'
  BY <1>0, <1>11 DEF Disarm, TypeOK, Route, Holds, Flow, Kind
<1>12. ASSUME NEW r \in Request, Grace(r) PROVE Covered'
  BY <1>0, <1>12 DEF Grace, TypeOK, Route, Holds, Flow, Kind
<1>13. ASSUME NEW r \in Request, Join(r) PROVE Covered'
  BY <1>0, <1>13 DEF Join, TypeOK, Route, Holds, Flow, Kind
<1>14. ASSUME NEW r \in Request, Deadline(r) PROVE Covered'
  BY <1>0, <1>14 DEF Deadline, TypeOK, Route, Holds, Flow, Kind
<1>15. CASE \E r \in Request : Serve(r) \/ Deadline(r) \/ \E t \in Thread : Accept(r, t)
  <2>1. PICK r \in Request : Serve(r) \/ Deadline(r) \/ \E t \in Thread : Accept(r, t)
    BY <1>15
  <2>2. CASE Serve(r)
    BY <2>2, <1>2, <1>3, <1>4, <1>5, <1>6, <1>7, <1>8, <1>9, <1>10, <1>11,
       <1>12, <1>13, Zenon DEF Serve
  <2> QED
    BY <2>1, <2>2, <1>1, <1>14
<1>16. CASE Terminate \/ ReplaceWorker \/ KillWorker \/ Idle \/ UNCHANGED vars
  BY <1>0, <1>16 DEF Terminate, ReplaceWorker, KillWorker, Idle, vars, Holds, TypeOK
<1> QED
  BY <1>15, <1>16 DEF Next

\* A lock that outlived its cycle is on its way to be reset, in every worker
\* whose remote dispatches do not raise.
THEOREM LeaksAreRecycled == ~RemoteRaises => (Spec => []LeakIsRecycled)
<1>1. Covered => LeakIsRecycled
  BY DEF Covered, LeakIsRecycled, Owes
<1>2. ASSUME ~RemoteRaises PROVE Spec => []LeakIsRecycled
  <2>1. IInv /\ IInv' /\ Covered /\ [Next]_vars => Covered'
    BY <1>2, StepCovered
  <2> QED
    BY Inductive, InitCovered, <2>1, <1>1, PTL DEF Spec
<1> QED
  BY <1>2

-----------------------------------------------------------------------------
(* What an interruption leaves behind. *)

\* A request that remembers a deadline ends through Grace, which schedules the recycle,
\* or through Join, which does unless the remote half raises; the live requests that
\* end elsewhere remember none (Route).
LEMMA StepRecycled ==
  ~RemoteRaises /\ IInv /\ [Next]_vars
    => \A r \in Request : LeavesInterrupted(r) => recycle' # "no"
<1> SUFFICES ASSUME ~RemoteRaises, IInv, [Next]_vars,
                    NEW s \in Request, LeavesInterrupted(s)
             PROVE recycle' # "no"
  OBVIOUS
<1> USE RunAssumption DEF requestVars, workerVars, LeavesInterrupted, InFlight
<1>0. TypeOK /\ Route(s)
  BY DEF IInv
<1>1. ASSUME NEW r \in Request, NEW t \in Thread, Accept(r, t) PROVE recycle' # "no"
  BY <1>0, <1>1 DEF Accept, TypeOK, Route, Kind
<1>2. ASSUME NEW r \in Request, LocalWindow(r) PROVE recycle' # "no"
  BY <1>0, <1>2 DEF LocalWindow, TypeOK, Route, Kind
<1>3. ASSUME NEW r \in Request, Arm(r) PROVE recycle' # "no"
  BY <1>0, <1>3 DEF Arm, TypeOK, Route, Kind
<1>4. ASSUME NEW r \in Request, Build(r) PROVE recycle' # "no"
  BY <1>0, <1>4 DEF Build, TypeOK, Route, Kind
<1>5. ASSUME NEW r \in Request, LoadPlugins(r) PROVE recycle' # "no"
  BY <1>0, <1>5 DEF LoadPlugins, TypeOK, Route, Kind
<1>6. ASSUME NEW r \in Request, Acquire(r) PROVE recycle' # "no"
  BY <1>0, <1>6 DEF Acquire, TypeOK, Route, Kind
<1>7. ASSUME NEW r \in Request, Assign(r) PROVE recycle' # "no"
  BY <1>0, <1>7 DEF Assign, TypeOK, Route, Kind
<1>8. ASSUME NEW r \in Request, Core(r) PROVE recycle' # "no"
  BY <1>0, <1>8 DEF Core, TypeOK, Route, Kind
<1>9. ASSUME NEW r \in Request, Release(r) PROVE recycle' # "no"
  BY <1>0, <1>9 DEF Release, TypeOK, Route, Kind
<1>10. ASSUME NEW r \in Request, Persist(r) PROVE recycle' # "no"
  BY <1>0, <1>10 DEF Persist, TypeOK, Route, Kind
<1>11. ASSUME NEW r \in Request, Disarm(r) PROVE recycle' # "no"
  BY <1>0, <1>11 DEF Disarm, TypeOK, Route, Kind
<1>12. ASSUME NEW r \in Request, Grace(r) PROVE recycle' # "no"
  BY <1>0, <1>12 DEF Grace, TypeOK, Route, Kind
<1>13. ASSUME NEW r \in Request, Join(r) PROVE recycle' # "no"
  BY <1>0, <1>13 DEF Join, TypeOK, Route, Kind
<1>14. ASSUME NEW r \in Request, Deadline(r) PROVE recycle' # "no"
  BY <1>0, <1>14 DEF Deadline, TypeOK
<1>15. CASE \E r \in Request : Serve(r) \/ Deadline(r) \/ \E t \in Thread : Accept(r, t)
  <2>1. PICK r \in Request : Serve(r) \/ Deadline(r) \/ \E t \in Thread : Accept(r, t)
    BY <1>15
  <2>2. CASE Serve(r)
    BY <2>2, <1>2, <1>3, <1>4, <1>5, <1>6, <1>7, <1>8, <1>9, <1>10, <1>11,
       <1>12, <1>13, Zenon DEF Serve
  <2> QED
    BY <2>1, <2>2, <1>1, <1>14
<1>16. CASE Terminate \/ ReplaceWorker \/ KillWorker \/ Idle \/ UNCHANGED vars
  BY <1>0, <1>16 DEF Terminate, ReplaceWorker, KillWorker, Idle, vars, TypeOK
<1> QED
  BY <1>15, <1>16 DEF Next

\* An interrupted worker does not go on serving once the request that was interrupted
\* has ended, in every worker whose remote dispatches do not raise.
THEOREM InterruptedAlwaysRecycled == ~RemoteRaises => (Spec => InterruptedWorkerIsRecycled)
<1>1. ASSUME ~RemoteRaises PROVE Spec => InterruptedWorkerIsRecycled
  <2>1. IInv /\ [Next]_vars
          => [\A r \in Request : LeavesInterrupted(r) => recycle' # "no"]_vars
    BY <1>1, StepRecycled
  <2> QED
    BY Inductive, <2>1, PTL DEF Spec, InterruptedWorkerIsRecycled
<1> QED
  BY <1>1
=============================================================================
