--------------------------- MODULE ExecutionClaim ---------------------------
(***************************************************************************)
(* At-most-once execution of a strategy cycle.                             *)
(*                                                                         *)
(* A cycle is one POST /run (or /dry-run) that got past the market-hours   *)
(* checks: run_strategy_core (application/rebalance_service.py) calling    *)
(* execute_rebalance (application/execution_service.py).  Cycles run on    *)
(* containers; two revisions of one service, or two services on one        *)
(* broker account, are two containers.  They share nothing but the broker  *)
(* and the durable execution-state store, which holds one marker per       *)
(* execution key and one owner per broker account, both create-only.  The  *)
(* execution lock file lives in the container's temporary directory.       *)
(*                                                                         *)
(* Prices and quantities are left out: which symbols a cycle wants to      *)
(* trade, and which intents its order loop then skips, are chosen freely.  *)
(* Operators called mutants are not part of the specification: each is a   *)
(* definition with a plausible bug, kept to show that a property sees it.  *)
(***************************************************************************)
EXTENDS Naturals

CONSTANTS
  Cycle,        \* the cycles the schedulers and their retries start
  Instance,     \* containers
  Profile,      \* strategy profiles
  Scope,        \* account scopes (account groups) of the marker keys
  PaperScope,   \* the scope every dry run uses
  Account,      \* physical broker accounts
  NoAccount,    \* an account configuration that is not one physical account
  NoOwner,      \* the owner of an account nobody has claimed
  TradeDate,    \* trade dates a signal can carry
  Snapshot,     \* feature-snapshot dates a signal can carry
  Symbol,       \* what a cycle can trade
  Deployment    \* the configuration each container runs with

ASSUME DeploymentAssumption ==
  /\ Deployment \in [Instance -> [profile : Profile,
                                  scope   : Scope,
                                  account : Account \cup {NoAccount},
                                  dedup   : BOOLEAN]]
  /\ NoAccount \notin Account
  /\ NoOwner \notin Profile

Request == [inst : Instance, date : TradeDate, snap : Snapshot, dry : BOOLEAN]

Key == [mode : {"live", "paper"}, profile : Profile,
        scope : Scope \cup {PaperScope}, date : TradeDate]

LockKey == [dry : BOOLEAN, date : TradeDate, snap : Snapshot]

\* The places of a cycle between two effects another actor can see.
Place == {"waiting", "dedup", "guards", "lock", "writing", "orders",
          "owner", "marker", "send", "record", "report", "done"}

Result == {"none", "already_running", "already_recorded", "guarded", "locked",
           "no_op", "blocked", "executed", "error", "killed"}

VARIABLES
  req,       \* the request each cycle answers, fixed when it arrives
  pc,        \* where each cycle is
  todo,      \* symbols the order loop has not reached
  tried,     \* acquire_execution_claim has been entered by the cycle
  acquired,  \* ... and returned True
  seen,      \* what the cycle knows of its own intents
  result,    \* what the cycle answered
  lockFile,  \* per container: the execution lock files
  marker,    \* durable store: the marker of each key
  owner,     \* durable store: the owner of each account
  reported,  \* durable store: keys with a report of an execution
  order      \* broker: the order of a cycle for a symbol

cycleVars == <<pc, todo, tried, acquired, seen, result>>
storeVars == <<marker, owner, reported>>
vars == <<req, cycleVars, lockFile, storeVars, order>>

-----------------------------------------------------------------------------

Config(c) == Deployment[req[c].inst]

\* Mutant of KeyOf: a dry run shares the key of the live cycle.
KeyOfAnyMode(c) ==
  [mode |-> "live", profile |-> Config(c).profile, scope |-> Config(c).scope,
   date |-> req[c].date]

KeyOf(c) ==
  [mode    |-> IF req[c].dry THEN "paper" ELSE "live",
   profile |-> Config(c).profile,
   scope   |-> IF req[c].dry THEN PaperScope ELSE Config(c).scope,
   date    |-> req[c].date]

LockOf(c) == [dry |-> req[c].dry, date |-> req[c].date, snap |-> req[c].snap]

Running(c) == pc[c] \notin {"waiting", "done"}

\* The run lock is released before the report is persisted.
HoldsRunLock(c) == Running(c) /\ pc[c] # "report"

\* The orders an account's open-order view may show: placed by a live cycle
\* of that account and not yet terminal.
Working(a) ==
  {v \in Cycle \X Symbol :
      /\ Config(v[1]).account = a
      /\ order[v[1]][v[2]] = "working"}

FilledOn(a, d) ==
  {v \in Cycle \X Symbol :
      /\ Config(v[1]).account = a
      /\ req[v[1]].date = d
      /\ order[v[1]][v[2]] = "filled"}

TypeOK ==
  /\ req \in [Cycle -> Request]
  /\ pc \in [Cycle -> Place]
  /\ todo \in [Cycle -> SUBSET Symbol]
  /\ tried \in [Cycle -> BOOLEAN]
  /\ acquired \in [Cycle -> BOOLEAN]
  /\ seen \in [Cycle -> SUBSET {"accepted", "failed", "previewed"}]
  /\ result \in [Cycle -> Result]
  /\ lockFile \in [Instance -> [LockKey -> {"absent", "empty", "written"}]]
  /\ marker \in [Key -> {"absent", "claimed", "recorded"}]
  /\ owner \in [Account -> Profile \cup {NoOwner}]
  /\ reported \in SUBSET Key
  /\ order \in [Cycle -> [Symbol -> {"none", "working", "filled", "cancelled"}]]

Init ==
  /\ req \in [Cycle -> Request]
  /\ pc = [c \in Cycle |-> "waiting"]
  /\ todo = [c \in Cycle |-> {}]
  /\ tried = [c \in Cycle |-> FALSE]
  /\ acquired = [c \in Cycle |-> FALSE]
  /\ seen = [c \in Cycle |-> {}]
  /\ result = [c \in Cycle |-> "none"]
  /\ lockFile = [i \in Instance |-> [l \in LockKey |-> "absent"]]
  /\ marker = [k \in Key |-> "absent"]
  /\ owner = [a \in Account |-> NoOwner]
  /\ reported = {}
  /\ order = [c \in Cycle |-> [x \in Symbol |-> "none"]]

-----------------------------------------------------------------------------
(* Control steps shared by the actions below. *)

Goto(c, place) == pc' = [pc EXCEPT ![c] = place]

\* The cycle ends and answers r: every path runs through the finally block
\* that disconnects from the gateway and releases the run lock.
Finish(c, r) ==
  /\ Goto(c, "done")
  /\ result' = [result EXCEPT ![c] = r]

-----------------------------------------------------------------------------
(* The cycle. *)

\* The request takes the container's run lock without waiting; a request that
\* finds another cycle running answers "Already Running".
Start(c) ==
  /\ pc[c] = "waiting"
  /\ IF \E d \in Cycle : HoldsRunLock(d) /\ req[d].inst = req[c].inst
     THEN Finish(c, "already_running")
     ELSE Goto(c, "dedup") /\ UNCHANGED result
  /\ UNCHANGED <<req, todo, tried, acquired, seen, lockFile, storeVars, order>>

\* Connecting, the portfolio snapshot or the signal fails, or there is no
\* target: nothing has been read from the store yet.
StopBeforeDedup(c) ==
  /\ pc[c] = "dedup"
  /\ \E r \in {"error", "no_op"} : Finish(c, r)
  /\ UNCHANGED <<req, todo, tried, acquired, seen, lockFile, storeVars, order>>

\* Has this key been executed?  Each of the two reads may fail, and a failed
\* read counts as "no".
CheckMarker(c) ==
  /\ pc[c] = "dedup"
  /\ \E readable, reportReadable \in BOOLEAN :
       LET recorded == /\ Config(c).dedup
                       /\ \/ readable /\ marker[KeyOf(c)] # "absent"
                          \/ reportReadable /\ KeyOf(c) \in reported
       IN IF recorded THEN Finish(c, "already_recorded")
                      ELSE Goto(c, "guards") /\ UNCHANGED result
  /\ UNCHANGED <<req, todo, tried, acquired, seen, lockFile, storeVars, order>>

\* The checks between planning and the execution lock.  The session's view of
\* open orders and fills is a local cache filled after connecting, so it may
\* miss some; an order it does show stops the cycle.
CheckBroker(c) ==
  /\ pc[c] = "guards"
  /\ \E scope \in SUBSET Symbol,
        openView \in SUBSET Working(Config(c).account),
        fillView \in SUBSET FilledOn(Config(c).account, req[c].date) :
       \/ \* account, admission or mode checks refuse the cycle
          /\ \E r \in {"blocked", "error"} : Finish(c, r)
          /\ UNCHANGED todo
       \/ /\ \E v \in openView : v[2] \in scope
          /\ Finish(c, "guarded")
          /\ UNCHANGED todo
       \/ \* no order to place: no_op, or blocked on a missing price
          /\ \A v \in openView : v[2] \notin scope
          /\ \E r \in {"no_op", "blocked"} : Finish(c, r)
          /\ UNCHANGED todo
       \/ /\ \A v \in openView : v[2] \notin scope
          /\ \E v \in fillView : v[2] \in scope
          /\ Finish(c, "guarded")
          /\ UNCHANGED todo
       \/ /\ scope # {}
          /\ \A v \in openView \cup fillView : v[2] \notin scope
          /\ todo' = [todo EXCEPT ![c] = scope]
          /\ Goto(c, "lock")
          /\ UNCHANGED result
  /\ UNCHANGED <<req, tried, acquired, seen, lockFile, storeVars, order>>

\* open(path, "x") creates the lock file; its JSON is written afterwards.  A
\* file that exists blocks the cycle, and one that is still empty makes the
\* reader of its JSON raise.
CreateLock(c) ==
  LET held == lockFile[req[c].inst][LockOf(c)] IN
  /\ pc[c] = "lock"
  /\ \/ /\ held = "absent"
        /\ lockFile' = [lockFile EXCEPT ![req[c].inst][LockOf(c)] = "empty"]
        /\ Goto(c, "writing")
        /\ UNCHANGED result
     \/ /\ held = "written"
        /\ Finish(c, "locked")
        /\ UNCHANGED lockFile
     \/ /\ held = "empty"
        /\ Finish(c, "error")
        /\ UNCHANGED lockFile
  /\ UNCHANGED <<req, todo, tried, acquired, seen, storeVars, order>>

WriteLock(c) ==
  /\ pc[c] = "writing"
  /\ lockFile' = [lockFile EXCEPT ![req[c].inst][LockOf(c)] = "written"]
  /\ Goto(c, "orders")
  /\ UNCHANGED <<req, todo, tried, acquired, seen, result, storeVars, order>>

\* An intent the order loop drops: quantity zero, below the minimum notional,
\* no buying power, buys blocked.
SkipIntent(c, x) ==
  /\ pc[c] = "orders"
  /\ x \in todo[c]
  /\ todo' = [todo EXCEPT ![c] = @ \ {x}]
  /\ UNCHANGED <<req, pc, tried, acquired, seen, result, lockFile, storeVars, order>>

\* A dry run records the order it would have sent.
PreviewIntent(c, x) ==
  /\ pc[c] = "orders"
  /\ req[c].dry
  /\ x \in todo[c]
  /\ todo' = [todo EXCEPT ![c] = @ \ {x}]
  /\ seen' = [seen EXCEPT ![c] = @ \cup {"previewed"}]
  /\ UNCHANGED <<req, pc, tried, acquired, result, lockFile, storeVars, order>>

\* Mutant of BeginClaim: the claim goes to the marker without the owner fence.
BeginClaimUnfenced(c) ==
  /\ pc[c] = "orders"
  /\ ~req[c].dry
  /\ todo[c] # {}
  /\ ~tried[c]
  /\ tried' = [tried EXCEPT ![c] = TRUE]
  /\ IF Config(c).dedup /\ Config(c).account # NoAccount
     THEN Goto(c, "marker") /\ UNCHANGED result
     ELSE Finish(c, "error")
  /\ UNCHANGED <<req, todo, acquired, seen, lockFile, storeVars, order>>

\* Mutant of BeginClaim: dedup switched off does not refuse the submission.
BeginClaimWithoutDedup(c) ==
  /\ pc[c] = "orders"
  /\ ~req[c].dry
  /\ todo[c] # {}
  /\ ~tried[c]
  /\ tried' = [tried EXCEPT ![c] = TRUE]
  /\ IF Config(c).account # NoAccount
     THEN Goto(c, "owner") /\ UNCHANGED result
     ELSE Finish(c, "error")
  /\ UNCHANGED <<req, todo, acquired, seen, lockFile, storeVars, order>>

\* The first intent a live cycle submits enters acquire_execution_claim.  With
\* dedup off there is nothing to claim, and an account configuration that is
\* not one physical account cannot be fenced: both refuse the submission.
BeginClaim(c) ==
  /\ pc[c] = "orders"
  /\ ~req[c].dry
  /\ todo[c] # {}
  /\ ~tried[c]
  /\ tried' = [tried EXCEPT ![c] = TRUE]
  /\ IF Config(c).dedup /\ Config(c).account # NoAccount
     THEN Goto(c, "owner") /\ UNCHANGED result
     ELSE Finish(c, "error")
  /\ UNCHANGED <<req, todo, acquired, seen, lockFile, storeVars, order>>

\* Mutant of ClaimOwner: the owner is overwritten instead of created.
ClaimOwnerLastWins(c) ==
  /\ pc[c] = "owner"
  /\ owner' = [owner EXCEPT ![Config(c).account] = Config(c).profile]
  /\ Goto(c, "marker")
  /\ UNCHANGED <<req, todo, tried, acquired, seen, result, lockFile, marker,
                 reported, order>>

\* Mutant of ClaimOwner: the account scope is recorded as the owner.
ClaimOwnerByScope(c) ==
  /\ pc[c] = "owner"
  /\ owner' = [owner EXCEPT ![Config(c).account] = Config(c).scope]
  /\ Goto(c, "marker")
  /\ UNCHANGED <<req, todo, tried, acquired, seen, result, lockFile, marker,
                 reported, order>>

\* claim_account_owner: create-only, and the owner may claim again.  The call
\* may raise, before or after the store took the claim.
ClaimOwner(c) ==
  LET a == Config(c).account
      free == owner[a] \in {NoOwner, Config(c).profile}
      take == owner' = [owner EXCEPT ![a] = Config(c).profile]
  IN
  /\ pc[c] = "owner"
  /\ \/ free /\ take /\ Goto(c, "marker") /\ UNCHANGED result
     \/ ~free /\ UNCHANGED owner /\ Finish(c, "error")
     \/ /\ UNCHANGED owner \/ (free /\ take)
        /\ Finish(c, "error")
  /\ UNCHANGED <<req, todo, tried, acquired, seen, lockFile, marker, reported, order>>

\* Mutant of ClaimMarker: the marker is written whether or not it exists.
ClaimMarkerLastWins(c) ==
  /\ pc[c] = "marker"
  /\ marker' = [marker EXCEPT ![KeyOf(c)] = "claimed"]
  /\ acquired' = [acquired EXCEPT ![c] = TRUE]
  /\ Goto(c, "send")
  /\ UNCHANGED <<req, todo, tried, seen, result, lockFile, owner, reported, order>>

\* Mutant of ClaimMarker: the claim is taken ahead of the checks on the intent.
ClaimMarkerAhead(c) ==
  /\ pc[c] = "marker"
  /\ marker[KeyOf(c)] = "absent"
  /\ marker' = [marker EXCEPT ![KeyOf(c)] = "claimed"]
  /\ acquired' = [acquired EXCEPT ![c] = TRUE]
  /\ Goto(c, "orders")
  /\ UNCHANGED <<req, todo, tried, seen, result, lockFile, owner, reported, order>>

\* Mutant of ClaimMarker: a claim that is not granted is tried again.
ClaimMarkerRetried(c) ==
  LET free == marker[KeyOf(c)] = "absent" IN
  /\ pc[c] = "marker"
  /\ marker' = [marker EXCEPT ![KeyOf(c)] = IF free THEN "claimed" ELSE @]
  /\ acquired' = [acquired EXCEPT ![c] = free]
  /\ Goto(c, IF free THEN "send" ELSE "owner")
  /\ UNCHANGED <<req, todo, tried, seen, result, lockFile, owner, reported, order>>

\* claim_marker: create-only.  A lost claim, or a call that raises before or
\* after the store took the claim, refuses the submission.
ClaimMarker(c) ==
  LET free == marker[KeyOf(c)] = "absent"
      take == marker' = [marker EXCEPT ![KeyOf(c)] = "claimed"]
  IN
  /\ pc[c] = "marker"
  /\ \/ /\ free
        /\ take
        /\ acquired' = [acquired EXCEPT ![c] = TRUE]
        /\ Goto(c, "send")
        /\ UNCHANGED result
     \/ /\ UNCHANGED marker \/ (free /\ take)
        /\ Finish(c, "error")
        /\ UNCHANGED acquired
  /\ UNCHANGED <<req, todo, tried, seen, lockFile, owner, reported, order>>

\* The outcomes of one submission: reported filled, partially filled or
\* pending; rejected or cancelled, by the broker or by the new-risk gate; or the
\* call raises, whether or not the broker took the order.
Accepted(c, x) ==
  /\ \E s \in {"working", "filled"} : order' = [order EXCEPT ![c][x] = s]
  /\ seen' = [seen EXCEPT ![c] = @ \cup {"accepted"}]
  /\ Goto(c, "orders")
  /\ UNCHANGED result

Refused(c, x) ==
  /\ \E s \in {"none", "cancelled"} : order' = [order EXCEPT ![c][x] = s]
  /\ seen' = [seen EXCEPT ![c] = @ \cup {"failed"}]
  /\ Goto(c, "orders")
  /\ UNCHANGED result

Raised(c, x) ==
  /\ \E s \in {"none", "working"} : order' = [order EXCEPT ![c][x] = s]
  /\ Finish(c, "error")
  /\ UNCHANGED seen

\* Mutant of Submit: an intent goes out without asking for the claim.
SubmitUnclaimed(c, x) ==
  /\ pc[c] \in {"send", "orders"}
  /\ ~req[c].dry
  /\ x \in todo[c]
  /\ todo' = [todo EXCEPT ![c] = @ \ {x}]
  /\ Accepted(c, x) \/ Refused(c, x) \/ Raised(c, x)
  /\ UNCHANGED <<req, tried, acquired, lockFile, storeVars>>

\* One submission to the broker.  The intent that entered the claim is sent as
\* soon as the claim is granted; every later intent finds it granted.
Submit(c, x) ==
  /\ \/ pc[c] = "send"
     \/ pc[c] = "orders" /\ acquired[c]
  /\ x \in todo[c]
  /\ todo' = [todo EXCEPT ![c] = @ \ {x}]
  /\ Accepted(c, x) \/ Refused(c, x) \/ Raised(c, x)
  /\ UNCHANGED <<req, tried, acquired, lockFile, storeVars>>

EndOrders(c) ==
  /\ pc[c] = "orders"
  /\ todo[c] = {}
  /\ Goto(c, "record")
  /\ UNCHANGED <<req, todo, tried, acquired, seen, result, lockFile, storeVars, order>>

\* Mutant of RecordMarker: a failed submission decides the answer before the
\* accepted ones are looked at.
RecordMarkerFailedFirst(c) ==
  LET active == seen[c] \cap {"accepted", "previewed"} # {}
      answer == IF "failed" \in seen[c] THEN "blocked"
                ELSE IF active THEN "executed" ELSE "no_op"
  IN
  /\ pc[c] = "record"
  /\ UNCHANGED marker
  /\ result' = [result EXCEPT ![c] = answer]
  /\ Goto(c, "report")
  /\ UNCHANGED <<req, todo, tried, acquired, seen, lockFile, owner, reported, order>>

\* record_marker runs for a cycle with an accepted or previewed order; an
\* exception of the write is printed and swallowed.  The reconciliation record
\* and the notification that follow may raise: the cycle answers "error".
RecordMarker(c) ==
  LET active == seen[c] \cap {"accepted", "previewed"} # {}
      answer == IF active THEN "executed"
                ELSE IF "failed" \in seen[c] THEN "blocked" ELSE "no_op"
  IN
  /\ pc[c] = "record"
  /\ \/ /\ active
        /\ Config(c).dedup
        /\ marker' = [marker EXCEPT ![KeyOf(c)] = "recorded"]
     \/ UNCHANGED marker
  /\ \E r \in {answer, "error"} : result' = [result EXCEPT ![c] = r]
  /\ Goto(c, "report")
  /\ UNCHANGED <<req, todo, tried, acquired, seen, lockFile, owner, reported, order>>

\* The execution report is persisted last; a failure is printed and swallowed.
PersistReport(c) ==
  /\ pc[c] = "report"
  /\ \/ /\ result[c] = "executed"
        /\ reported' = reported \cup {KeyOf(c)}
     \/ UNCHANGED reported
  /\ Goto(c, "done")
  /\ UNCHANGED <<req, todo, tried, acquired, seen, result, lockFile, marker, owner, order>>

-----------------------------------------------------------------------------
(* What the program does not control. *)

\* The worker process is killed (gunicorn's timeout, a recycle after a missed
\* deadline, memory); the container and its temporary directory stay.
KillWorker(c) ==
  /\ Running(c)
  /\ Finish(c, "killed")
  /\ UNCHANGED <<req, todo, tried, acquired, seen, lockFile, storeVars, order>>

\* Cloud Run replaces an idle or a busy container: its lock files are gone.
ReplaceInstance(i) ==
  /\ \E l \in LockKey : lockFile[i][l] # "absent"
  /\ lockFile' = [lockFile EXCEPT ![i] = [l \in LockKey |-> "absent"]]
  /\ pc' = [c \in Cycle |-> IF Running(c) /\ req[c].inst = i THEN "done" ELSE pc[c]]
  /\ result' = [c \in Cycle |-> IF Running(c) /\ req[c].inst = i THEN "killed"
                                                                 ELSE result[c]]
  /\ UNCHANGED <<req, todo, tried, acquired, seen, storeVars, order>>

\* The broker ends a working order.
SettleOrder(c, x) ==
  /\ order[c][x] = "working"
  /\ \E s \in {"filled", "cancelled"} : order' = [order EXCEPT ![c][x] = s]
  /\ UNCHANGED <<req, cycleVars, lockFile, storeVars>>

Quiescent ==
  /\ \A c \in Cycle : pc[c] = "done"
  /\ UNCHANGED vars

-----------------------------------------------------------------------------

CycleStep(c) ==
  \/ Start(c) \/ StopBeforeDedup(c) \/ CheckMarker(c) \/ CheckBroker(c)
  \/ CreateLock(c) \/ WriteLock(c)
  \/ \E x \in Symbol : SkipIntent(c, x) \/ PreviewIntent(c, x) \/ Submit(c, x)
  \/ BeginClaim(c) \/ ClaimOwner(c) \/ ClaimMarker(c)
  \/ EndOrders(c) \/ RecordMarker(c) \/ PersistReport(c)

Environment ==
  \/ \E c \in Cycle : KillWorker(c)
  \/ \E i \in Instance : ReplaceInstance(i)
  \/ \E c \in Cycle, x \in Symbol : SettleOrder(c, x)

Next ==
  \/ \E c \in Cycle : CycleStep(c)
  \/ Environment
  \/ Quiescent

Spec == Init /\ [][Next]_vars

\* A cycle that has started takes its next step: its calls to the gateway and
\* the store are bounded by timeouts.  Nothing is assumed of the scheduler, the
\* broker, Cloud Run or the outcome of a call.
Fairness == \A c \in Cycle : WF_vars(Running(c) /\ CycleStep(c))

FairSpec == Spec /\ Fairness

-----------------------------------------------------------------------------
(* Properties. *)

Placed(c) == \E x \in Symbol : order[c][x] # "none"

\* At most one cycle ever places orders for an execution key, however many
\* containers, retries, failed store calls and restarts are involved: the
\* create-only claim in acquire_execution_claim is what makes a retried
\* POST /run safe.
OneSubmitterPerKey ==
  \A c, d \in Cycle :
    Placed(c) /\ Placed(d) /\ KeyOf(c) = KeyOf(d) => c = d

\* All orders on one broker account come from the profile that owns it: the
\* owner fence keeps two strategies deployed on one account from trading
\* against each other.
OneProfilePerAccount ==
  \A c, d \in Cycle :
    Placed(c) /\ Placed(d) /\ Config(c).account = Config(d).account
      => Config(c).profile = Config(d).profile

\* Whenever an order goes out, the claim and the account's owner are already
\* in the durable store, so that a container that dies with the order in
\* flight leaves a marker every later cycle can read.
ClaimPrecedesSubmission ==
  [][\A c \in Cycle, x \in Symbol :
       order[c][x] = "none" /\ order'[c][x] # "none"
         => /\ marker[KeyOf(c)] # "absent"
            /\ owner[Config(c).account] = Config(c).profile]_vars

\* A live marker in the store was written by a live cycle that wanted to submit
\* an order: neither a dry run nor a cycle with nothing to trade uses up the
\* day's live execution.
LiveMarkersComeFromSubmitters ==
  \A k \in Key :
    k.mode = "live" /\ marker[k] # "absent"
      => \E c \in Cycle : tried[c] /\ ~req[c].dry /\ KeyOf(c) = k

\* A container whose configuration cannot be fenced (dedup switched off, no
\* physical account) never places an order, whatever the other containers do.
FailClosed ==
  \A c \in Cycle :
    Placed(c) => Config(c).dedup /\ Config(c).account \in Account

\* The answer is true of what the cycle left behind: one that did nothing has claimed
\* nothing ("No-op cycles never claim"), and one that is blocked has no order working
\* or filled at the broker.
AnswersAreTrue ==
  \A c \in Cycle :
    /\ result[c] \in {"already_running", "already_recorded", "guarded", "locked", "no_op"}
         => ~tried[c] /\ ~Placed(c)
    /\ result[c] = "blocked" => \A x \in Symbol : order[c][x] \in {"none", "cancelled"}

\* A cycle that has started answers or dies; no interleaving of locks, claims
\* and failed calls leaves it waiting.
EveryCycleEnds == \A c \in Cycle : Running(c) ~> pc[c] = "done"
=============================================================================
