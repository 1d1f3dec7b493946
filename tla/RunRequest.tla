----------------------------- MODULE RunRequest -----------------------------
(***************************************************************************)
(* One worker process of the service: the requests it serves, the run lock *)
(* they share, the deadline of a dry run and the recycling of the worker   *)
(* (main.py, application/runtime_deadline.py, application/http_routes.py,  *)
(* application/monitor_dispatcher.py).                                     *)
(*                                                                         *)
(* The deadline is a signal: it raises in the main thread between any two  *)
(* bytecodes, also between the acquisition of the run lock and the         *)
(* assignment that remembers it, and inside the finally block that         *)
(* releases it.  An interrupted worker is replaced by a SIGTERM from a     *)
(* daemon thread, some time after the response.                            *)
(*                                                                         *)
(* The strategy cycle itself is ExecutionClaim's; here it is one step.     *)
(***************************************************************************)
EXTENDS Naturals

CONSTANTS
  Request,       \* the requests the schedulers send
  Thread,        \* threads that serve requests: one under gunicorn.conf.py
  MainThread,    \* the thread signals are delivered to
  NoThread,      \* a request nobody serves
  NoRequest,     \* no alarm is armed
  MaxLocal,      \* bound: local windows due in one monitor dispatch
  RemoteRaises   \* can the remote half of a monitor dispatch raise?

ASSUME RunAssumption ==
  /\ NoThread \notin Thread
  /\ NoRequest \notin Request
  /\ MaxLocal \in Nat
  /\ RemoteRaises \in BOOLEAN

Kind == {"run", "dry", "dispatch"}

\* The places of a request.  "assign" is between the acquisition of the lock
\* and the assignment of lock_acquired, "finally" before the release and
\* "persist" after it, "grace" the report of a dry run.
Place == {"queued", "dispatch", "arm", "build", "plugins", "acquire", "assign",
          "core", "finally", "persist", "disarm", "grace", "done"}

Answer == {"none", "disabled", "already_running", "ok", "closed", "error", "killed"}

VARIABLES
  kind,      \* what each request asks for
  pc,        \* where each request is
  thread,    \* who serves it
  flag,      \* its local lock_acquired
  expired,   \* the deadline of its dry run fired
  needed,    \* a dispatch: a local dry run asked for a recycle
  windows,   \* a dispatch: local windows still due
  built,     \* reports its present window has registered
  saved,     \* reports it has tried to persist
  answer,    \* its last answer
  lock,      \* STRATEGY_RUN_LOCK
  armed,     \* the request whose alarm is armed
  recycle    \* the replacement of the worker

requestVars == <<pc, thread, flag, expired, needed, windows, built, saved, answer>>
workerVars == <<lock, armed, recycle>>
vars == <<kind, requestVars, workerVars>>

InFlight(r) == pc[r] \notin {"queued", "done"}

TypeOK ==
  /\ kind \in [Request -> Kind]
  /\ pc \in [Request -> Place]
  /\ thread \in [Request -> Thread \cup {NoThread}]
  /\ flag \in [Request -> BOOLEAN]
  /\ expired \in [Request -> BOOLEAN]
  /\ needed \in [Request -> BOOLEAN]
  /\ windows \in [Request -> 0 .. MaxLocal]
  /\ built \in [Request -> Nat]
  /\ saved \in [Request -> Nat]
  /\ answer \in [Request -> Answer]
  /\ lock \in BOOLEAN
  /\ armed \in Request \cup {NoRequest}
  /\ recycle \in {"no", "scheduled", "terminating"}

Init ==
  /\ kind \in [Request -> Kind]
  /\ pc = [r \in Request |-> "queued"]
  /\ thread = [r \in Request |-> NoThread]
  /\ flag = [r \in Request |-> FALSE]
  /\ expired = [r \in Request |-> FALSE]
  /\ needed = [r \in Request |-> FALSE]
  /\ windows \in [Request -> 0 .. MaxLocal]
  /\ built = [r \in Request |-> 0]
  /\ saved = [r \in Request |-> 0]
  /\ answer = [r \in Request |-> "none"]
  /\ lock = FALSE
  /\ armed = NoRequest
  /\ recycle = "no"

-----------------------------------------------------------------------------

Goto(r, place) == pc' = [pc EXCEPT ![r] = place]
Say(r, a) == answer' = [answer EXCEPT ![r] = a]

\* A free thread takes the request, unless the worker has been told to stop.
Accept(r, t) ==
  /\ pc[r] = "queued"
  /\ recycle # "terminating"
  /\ \A s \in Request : InFlight(s) => thread[s] # t
  /\ thread' = [thread EXCEPT ![r] = t]
  /\ Goto(r, CASE kind[r] = "run" -> "build"
               [] kind[r] = "dry" -> "arm"
               [] kind[r] = "dispatch" -> "dispatch")
  /\ UNCHANGED <<kind, flag, expired, needed, windows, built, saved, answer, workerVars>>

\* Mutant of LocalWindow: the loop runs one window more than is due.
LocalWindowOneMore(r) ==
  /\ pc[r] = "dispatch"
  /\ windows' = [windows EXCEPT ![r] = @ - 1]
  /\ expired' = [expired EXCEPT ![r] = FALSE]
  /\ built' = [built EXCEPT ![r] = 0]
  /\ saved' = [saved EXCEPT ![r] = 0]
  /\ Goto(r, "dispatch") \/ Goto(r, "arm")
  /\ UNCHANGED <<kind, thread, flag, needed, answer, workerVars>>

\* A monitor dispatch runs its own due windows in-process, one after the other:
\* a probe, which takes no lock, or the dry run of a precheck with a report
\* list of its own.
LocalWindow(r) ==
  /\ pc[r] = "dispatch"
  /\ windows[r] > 0
  /\ windows' = [windows EXCEPT ![r] = @ - 1]
  /\ expired' = [expired EXCEPT ![r] = FALSE]
  /\ built' = [built EXCEPT ![r] = 0]
  /\ saved' = [saved EXCEPT ![r] = 0]
  /\ Goto(r, "dispatch") \/ Goto(r, "arm")
  /\ UNCHANGED <<kind, thread, flag, needed, answer, workerVars>>

\* enforce_runtime_deadline: only the main thread can arm the alarm, and an
\* alarm that is already armed is left alone.
Arm(r) ==
  /\ pc[r] = "arm"
  /\ armed' = IF thread[r] = MainThread /\ armed = NoRequest THEN r ELSE armed
  /\ Goto(r, "build")
  /\ UNCHANGED <<kind, thread, flag, expired, needed, windows, built, saved,
                 answer, lock, recycle>>

\* A live request finds the runtime target disabled, or the report is built and
\* registered.  Building it may raise: the route's fallback answers.
Build(r) ==
  /\ pc[r] = "build"
  /\ flag' = [flag EXCEPT ![r] = FALSE]
  /\ \/ /\ kind[r] = "run"
        /\ Say(r, "disabled")
        /\ Goto(r, "done")
        /\ UNCHANGED built
     \/ /\ Say(r, "error")
        /\ Goto(r, IF kind[r] = "run" THEN "done" ELSE "disarm")
        /\ UNCHANGED built
     \/ /\ built' = [built EXCEPT ![r] = @ + 1]
        /\ Goto(r, "plugins")
        /\ UNCHANGED answer
  /\ UNCHANGED <<kind, thread, expired, needed, windows, saved, workerVars>>

LoadPlugins(r) ==
  /\ pc[r] = "plugins"
  /\ \/ Goto(r, "acquire") /\ UNCHANGED answer
     \/ Goto(r, "finally") /\ Say(r, "error")
  /\ UNCHANGED <<kind, thread, flag, expired, needed, windows, built, saved, workerVars>>

\* Mutant of Acquire: a request waits for the lock.
AcquireBlocking(r) ==
  /\ pc[r] = "acquire"
  /\ ~lock
  /\ lock' = TRUE
  /\ Goto(r, "assign")
  /\ UNCHANGED <<kind, thread, flag, expired, needed, windows, built, saved,
                 answer, armed, recycle>>

\* STRATEGY_RUN_LOCK.acquire(blocking=False)
Acquire(r) ==
  /\ pc[r] = "acquire"
  /\ IF lock
     THEN /\ Say(r, "already_running")
          /\ Goto(r, "finally")
          /\ UNCHANGED lock
     ELSE /\ lock' = TRUE
          /\ Goto(r, "assign")
          /\ UNCHANGED answer
  /\ UNCHANGED <<kind, thread, flag, expired, needed, windows, built, saved, armed, recycle>>

\* lock_acquired = <the result>
Assign(r) ==
  /\ pc[r] = "assign"
  /\ flag' = [flag EXCEPT ![r] = TRUE]
  /\ Goto(r, "core")
  /\ UNCHANGED <<kind, thread, expired, needed, windows, built, saved, answer, workerVars>>

\* Market closed, the strategy cycle, or an exception of either.
Core(r) ==
  /\ pc[r] = "core"
  /\ \E a \in {"ok", "closed", "error"} : Say(r, a)
  /\ Goto(r, "finally")
  /\ UNCHANGED <<kind, thread, flag, expired, needed, windows, built, saved, workerVars>>

\* Mutant of Release: the lock is released whether or not it was acquired.
ReleaseAlways(r) ==
  /\ pc[r] = "finally"
  /\ lock' = FALSE
  /\ Goto(r, "persist")
  /\ UNCHANGED <<kind, thread, flag, expired, needed, windows, built, saved,
                 answer, armed, recycle>>

Release(r) ==
  /\ pc[r] = "finally"
  /\ lock' = IF flag[r] THEN FALSE ELSE lock
  /\ Goto(r, "persist")
  /\ UNCHANGED <<kind, thread, flag, expired, needed, windows, built, saved,
                 answer, armed, recycle>>

\* Mutant of Persist: the report of an interrupted dry run is persisted here
\* and again within the grace period.
PersistTwice(r) ==
  /\ pc[r] = "persist"
  /\ saved' = [saved EXCEPT ![r] = @ + 1]
  /\ Goto(r, CASE kind[r] = "run" -> "done"
               [] kind[r] # "run" /\ expired[r] -> "grace"
               [] OTHER -> "disarm")
  /\ UNCHANGED <<kind, thread, flag, expired, needed, windows, built, answer, workerVars>>

\* A live request persists its report here; a failure is swallowed.  A dry run
\* leaves it to the grace period, and the deadline goes on to its handler.
Persist(r) ==
  /\ pc[r] = "persist"
  /\ saved' = IF kind[r] = "run" THEN [saved EXCEPT ![r] = @ + 1] ELSE saved
  /\ Goto(r, CASE kind[r] = "run" -> "done"
               [] kind[r] # "run" /\ expired[r] -> "grace"
               [] OTHER -> "disarm")
  /\ UNCHANGED <<kind, thread, flag, expired, needed, windows, built, answer, workerVars>>

\* The dry run leaves enforce_runtime_deadline.
Disarm(r) ==
  /\ pc[r] = "disarm"
  /\ armed' = IF armed = r THEN NoRequest ELSE armed
  /\ Goto(r, "grace")
  /\ UNCHANGED <<kind, thread, flag, expired, needed, windows, built, saved,
                 answer, lock, recycle>>

\* Mutant of Grace: a timed-out dry run does not ask for a recycle.
GraceWithoutRecycle(r) ==
  /\ pc[r] = "grace"
  /\ saved' = [saved EXCEPT ![r] = @ + built[r]]
  /\ Goto(r, IF kind[r] = "dry" THEN "done" ELSE "dispatch")
  /\ UNCHANGED <<kind, thread, flag, expired, needed, windows, built, answer, workerVars>>

\* The registered report is persisted under a deadline of its own, which is
\* swallowed like every failure.  A timed-out dry run schedules the recycle; in
\* a monitor dispatch it only notes that one is needed.
Grace(r) ==
  /\ pc[r] = "grace"
  /\ saved' = [saved EXCEPT ![r] = @ + built[r]]
  /\ IF kind[r] = "dry"
     THEN /\ Goto(r, "done")
          /\ recycle' = IF expired[r] /\ recycle = "no" THEN "scheduled" ELSE recycle
          /\ UNCHANGED needed
     ELSE /\ Goto(r, "dispatch")
          /\ needed' = [needed EXCEPT ![r] = @ \/ expired[r]]
          /\ UNCHANGED recycle
  /\ UNCHANGED <<kind, thread, flag, expired, windows, built, answer, lock, armed>>

\* The dispatch waits for its remote half and schedules the recycle its local
\* half asked for.  If the remote half raises, the route's fallback answers.
Join(r) ==
  /\ pc[r] = "dispatch"
  /\ windows[r] = 0
  /\ Goto(r, "done")
  /\ \/ /\ recycle' = IF needed[r] /\ recycle = "no" THEN "scheduled" ELSE recycle
        /\ Say(r, "ok")
     \/ /\ RemoteRaises
        /\ UNCHANGED recycle
        /\ Say(r, "error")
  /\ UNCHANGED <<kind, thread, flag, expired, needed, windows, built, saved, lock, armed>>

\* SIGALRM: RuntimeDeadlineExceeded passes every "except Exception".  Raised
\* inside the try statement it still runs the finally block; raised in the
\* finally block it skips the rest of it.
Deadline(r) ==
  /\ armed = r
  /\ pc[r] \in {"build", "plugins", "acquire", "assign", "core", "finally",
                "persist", "disarm"}
  /\ armed' = NoRequest
  /\ expired' = [expired EXCEPT ![r] = TRUE]
  /\ Say(r, "error")
  /\ Goto(r, IF pc[r] \in {"plugins", "acquire", "assign", "core"}
             THEN "finally" ELSE "grace")
  /\ UNCHANGED <<kind, thread, flag, needed, windows, built, saved, lock, recycle>>

-----------------------------------------------------------------------------
(* The worker process. *)

\* The daemon thread sends SIGTERM; gunicorn's worker finishes what it serves.
Terminate ==
  /\ recycle = "scheduled"
  /\ recycle' = "terminating"
  /\ UNCHANGED <<kind, requestVars, lock, armed>>

\* A new process starts with a free lock.
ReplaceWorker ==
  /\ recycle = "terminating"
  /\ \A r \in Request : ~InFlight(r)
  /\ recycle' = "no"
  /\ lock' = FALSE
  /\ armed' = NoRequest
  /\ UNCHANGED <<kind, requestVars>>

\* gunicorn's timeout, or the platform, kills a busy worker.
KillWorker ==
  /\ \E r \in Request : InFlight(r)
  /\ pc' = [r \in Request |-> IF InFlight(r) THEN "done" ELSE pc[r]]
  /\ answer' = [r \in Request |-> IF InFlight(r) THEN "killed" ELSE answer[r]]
  /\ lock' = FALSE
  /\ armed' = NoRequest
  /\ recycle' = "no"
  /\ UNCHANGED <<kind, thread, flag, expired, needed, windows, built, saved>>

Idle ==
  /\ \A r \in Request : pc[r] = "done"
  /\ recycle = "no"
  /\ UNCHANGED vars

Serve(r) ==
  \/ LocalWindow(r) \/ Arm(r) \/ Build(r) \/ LoadPlugins(r) \/ Acquire(r)
  \/ Assign(r) \/ Core(r) \/ Release(r) \/ Persist(r) \/ Disarm(r) \/ Grace(r)
  \/ Join(r)

Next ==
  \/ \E r \in Request : Serve(r) \/ Deadline(r) \/ \E t \in Thread : Accept(r, t)
  \/ Terminate \/ ReplaceWorker \/ KillWorker \/ Idle

Spec == Init /\ [][Next]_vars

\* A request that is served goes on (its calls are bounded by timeouts), the
\* daemon thread wakes up, and the process manager replaces a worker that
\* stopped.  Nothing is assumed of the schedulers, of the deadline or of kills.
Fairness ==
  /\ \A r \in Request : WF_vars(Serve(r))
  /\ WF_vars(Terminate)
  /\ WF_vars(ReplaceWorker)

FairSpec == Spec /\ Fairness

-----------------------------------------------------------------------------
(* Properties. *)

\* A request that is, or may still be, the owner of the run lock.
Holds(r) == pc[r] \in {"assign", "core"} \/ (pc[r] = "finally" /\ flag[r])

\* Two strategy cycles never run at the same time in one process, however
\* deadlines, refused requests and replaced workers interleave.
OneCycleAtATime ==
  \A r, s \in Request : Holds(r) /\ Holds(s) => r = s

\* The lock is held and no request will release it.
Leaked == lock /\ \A r \in Request : ~Holds(r)

\* A lock that outlived its cycle is on its way to be reset: the worker is being
\* recycled, or the request that will ask for it is still being served.
LeakIsRecycled ==
  Leaked => \/ recycle # "no"
            \/ \E r \in Request : InFlight(r) /\ (expired[r] \/ needed[r])

\* "An interrupted worker cannot resume with partial session state": a request that a
\* deadline interrupted, or one of whose windows it interrupted, does not end in a worker
\* that goes on serving (_run_precheck_with_deadline, dispatch_due_monitor_targets and
\* the routes that schedule the recycle).
LeavesInterrupted(r) ==
  InFlight(r) /\ (expired[r] \/ needed[r]) /\ pc'[r] = "done" /\ answer'[r] # "killed"

InterruptedWorkerIsRecycled ==
  [][\A r \in Request : LeavesInterrupted(r) => recycle' # "no"]_vars

\* Every report a request registers is persisted once: not twice when the
\* deadline fires late, and not never when it fires early.
ReportsPersistedOnce ==
  \A r \in Request :
    /\ saved[r] <= built[r]
    /\ pc[r] \in {"done", "dispatch"} /\ answer[r] # "killed" => saved[r] = built[r]

\* A leaked lock is eventually reset.
LeakHeals == Leaked ~> ~Leaked

\* Every request the worker takes is answered.
EveryRequestEnds == \A r \in Request : InFlight(r) ~> pc[r] = "done"
=============================================================================
