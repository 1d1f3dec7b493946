--------------------------- MODULE GatewaySession ---------------------------
(***************************************************************************)
(* The sessions the service opens at the IB Gateway: connect_ib and its    *)
(* validations (application/runtime_broker_adapters.py), the host cache    *)
(* IB_HOST (main.py), and the handlers that use a session and give it back *)
(* (application/rebalance_service.py, application/http_routes.py).         *)
(*                                                                         *)
(* The Gateway knows a session by its client id and refuses a second one   *)
(* with the same id.  It may restart, move to another address, be switched *)
(* to Read-Only, and it notices a dead peer late.  A worker is one process *)
(* of a service; two revisions of a service have the same base client id.  *)
(***************************************************************************)
EXTENDS Naturals

CONSTANTS
  Worker,        \* the worker processes that use the Gateway
  BaseId,        \* ib_client_id of each worker
  Offset,        \* client_id_retry_offset
  MaxAttempts,   \* connect_attempts
  Address,       \* addresses the Gateway's machine can have
  Name,          \* its instance name, dialled when the address is not found
  Unset,         \* IB_HOST before the first request, or no session
  Nobody,        \* a client id that is free
  Gone,          \* a client id held for a peer that is dead
  Purpose,       \* what the requests of this deployment are for
  Misfit,        \* workers whose accounts the Gateway user does not see
  MaxFaults      \* bound: faults of the environment

ASSUME SessionAssumption ==
  /\ BaseId \in [Worker -> Nat]
  /\ Offset \in Nat \ {0}
  /\ MaxAttempts \in Nat \ {0}
  /\ Name \notin Address /\ Unset \notin Address \cup {Name} \cup Nat
  /\ Nobody \notin Worker /\ Gone \notin Worker /\ Nobody # Gone
  /\ Purpose \subseteq {"live", "paper", "dry", "probe"}
  /\ Misfit \subseteq Worker
  /\ MaxFaults \in Nat

ClientId == {BaseId[w] + k * Offset : w \in Worker, k \in 0 .. MaxAttempts - 1}

VARIABLES
  where, up, discovery, mode,  \* the Gateway: address, running, found, Read-Only
  holder,    \* the Gateway: who holds each client id
  faults,    \* faults so far
  host,      \* IB_HOST of each worker
  pc,        \* what each worker does
  purpose,   \* ... and for what
  dial,      \* the host the present connect_ib uses
  attempt,
  mine,      \* the client id of its session
  proven,    \* write access was probed on this session
  doomed,    \* a deadline fired: the recycling of the worker
  outcome    \* how its last connect_ib ended

gatewayVars == <<where, up, discovery, mode>>
requestVars == <<pc, purpose, dial, attempt, mine, proven, outcome>>
vars == <<gatewayVars, holder, faults, host, requestVars, doomed>>

TypeOK ==
  /\ where \in Address /\ up \in BOOLEAN /\ discovery \in BOOLEAN
  /\ mode \in {"writable", "read_only"}
  /\ holder \in [ClientId -> Worker \cup {Nobody, Gone}]
  /\ faults \in 0 .. MaxFaults
  /\ host \in [Worker -> Address \cup {Name, Unset}]
  /\ pc \in [Worker -> {"idle", "dial", "retry", "accounts", "permission", "held"}]
  /\ purpose \in [Worker -> {"live", "paper", "dry", "probe"}]
  /\ dial \in [Worker -> Address \cup {Name, Unset}]
  /\ attempt \in [Worker -> 0 .. MaxAttempts]
  /\ mine \in [Worker -> ClientId \cup {Unset}]
  /\ proven \in [Worker -> BOOLEAN]
  /\ doomed \in [Worker -> {"no", "scheduled", "terminating"}]
  /\ outcome \in [Worker -> {"none", "connected", "unavailable", "denied", "unconfigured"}]

Init ==
  /\ where \in Address
  /\ up \in BOOLEAN
  /\ discovery \in BOOLEAN
  /\ mode \in {"writable", "read_only"}
  /\ holder = [i \in ClientId |-> Nobody]
  /\ faults = 0
  /\ host = [w \in Worker |-> Unset]
  /\ pc = [w \in Worker |-> "idle"]
  /\ purpose = [w \in Worker |-> "probe"]
  /\ dial = [w \in Worker |-> Unset]
  /\ attempt = [w \in Worker |-> 0]
  /\ mine = [w \in Worker |-> Unset]
  /\ proven = [w \in Worker |-> FALSE]
  /\ doomed = [w \in Worker |-> "no"]
  /\ outcome = [w \in Worker |-> "none"]

-----------------------------------------------------------------------------

Goto(w, place) == pc' = [pc EXCEPT ![w] = place]

\* resolve_gce_instance_ip: the present address, or the name.
Found == IF discovery THEN where ELSE Name

\* Mutant of Refreshed: a failed look-up replaces the address that worked.
RefreshedBlindly(w) == Found

\* refresh_ib_host: a look-up that failed does not replace what is cached.
Refreshed(w) == IF Found = Name /\ host[w] # Unset THEN host[w] ELSE Found

\* A request arrives; get_ib_host keeps what it found first.
Start(w) ==
  /\ pc[w] = "idle" /\ doomed[w] # "terminating"
  /\ \E p \in Purpose : purpose' = [purpose EXCEPT ![w] = p]
  /\ host' = [host EXCEPT ![w] = IF @ = Unset THEN Found ELSE @]
  /\ dial' = [dial EXCEPT ![w] = host'[w]]
  /\ attempt' = [attempt EXCEPT ![w] = 1]
  /\ outcome' = [outcome EXCEPT ![w] = "none"]
  /\ Goto(w, "dial")
  /\ UNCHANGED <<gatewayVars, holder, faults, mine, proven, doomed>>

\* Mutant of IdOf: every attempt uses the same client id.
IdOfBase(w) == BaseId[w]

IdOf(w) == BaseId[w] + (attempt[w] - 1) * Offset

Reachable(w) == up /\ dial[w] = where

Connect(w) ==
  /\ pc[w] = "dial"
  /\ Reachable(w) /\ holder[IdOf(w)] = Nobody
  /\ holder' = [holder EXCEPT ![IdOf(w)] = w]
  /\ mine' = [mine EXCEPT ![w] = IdOf(w)]
  /\ proven' = [proven EXCEPT ![w] = FALSE]
  /\ Goto(w, "accounts")
  /\ UNCHANGED <<gatewayVars, faults, host, purpose, dial, attempt, outcome, doomed>>

ConnectFails(w) ==
  /\ pc[w] = "dial"
  /\ ~Reachable(w) \/ holder[IdOf(w)] # Nobody
  /\ Goto(w, "retry")
  /\ UNCHANGED <<gatewayVars, holder, faults, host, purpose, dial, attempt, mine, proven,
                 outcome, doomed>>

\* The handshake times out at our end only: the Gateway keeps the id for a while.
ConnectTimesOut(w) ==
  /\ pc[w] = "dial"
  /\ Reachable(w) /\ holder[IdOf(w)] = Nobody
  /\ faults < MaxFaults
  /\ faults' = faults + 1
  /\ holder' = [holder EXCEPT ![IdOf(w)] = Gone]
  /\ Goto(w, "retry")
  /\ UNCHANGED <<gatewayVars, host, purpose, dial, attempt, mine, proven, outcome, doomed>>

\* ib.disconnect(); a session the Gateway has dropped is not there any more.
Disconnected(w) ==
  IF mine[w] # Unset /\ holder[mine[w]] = w THEN [holder EXCEPT ![mine[w]] = Nobody] ELSE holder

Disconnect(w) ==
  /\ holder' = Disconnected(w)
  /\ mine' = [mine EXCEPT ![w] = Unset]

\* Mutant of GiveUp: an attempt that fails its validation keeps its session.
GiveUpConnected(w) ==
  /\ mine' = [mine EXCEPT ![w] = Unset]
  /\ UNCHANGED holder

\* The handler around the validations: except Exception: disconnect, raise.
GiveUp(w) == Disconnect(w)

Finish(w, o) ==
  /\ outcome' = [outcome EXCEPT ![w] = o]
  /\ Goto(w, "idle")

\* The managed accounts are a list the session already has.
ValidateAccounts(w) ==
  /\ pc[w] = "accounts"
  /\ IF w \in Misfit
       THEN GiveUp(w) /\ Finish(w, "unconfigured")
       ELSE Goto(w, "permission") /\ UNCHANGED <<holder, mine, outcome>>
  /\ UNCHANGED <<gatewayVars, faults, host, purpose, dial, attempt, proven, doomed>>

\* Mutant of Probed: only the first attempt is probed.
ProbedOnce(w) == purpose[w] = "live" /\ attempt[w] = 1

\* The what-if order is sent by live cycles only.
Probed(w) == purpose[w] = "live"

Alive(w) == up /\ holder[mine[w]] = w

SkipPermission(w) ==
  /\ pc[w] = "permission" /\ ~Probed(w)
  /\ outcome' = [outcome EXCEPT ![w] = "connected"]
  /\ Goto(w, "held")
  /\ UNCHANGED <<gatewayVars, holder, faults, host, purpose, dial, attempt, mine, proven, doomed>>

ProbePermission(w) ==
  /\ pc[w] = "permission" /\ Probed(w) /\ Alive(w)
  /\ IF mode = "writable"
       THEN /\ proven' = [proven EXCEPT ![w] = TRUE]
            /\ outcome' = [outcome EXCEPT ![w] = "connected"]
            /\ Goto(w, "held")
            /\ UNCHANGED <<holder, mine>>
       ELSE GiveUp(w) /\ Finish(w, "denied") /\ UNCHANGED proven
  /\ UNCHANGED <<gatewayVars, faults, host, purpose, dial, attempt, doomed>>

\* The probe loses its connection or times out: an attempt like any other.
ProbeInterrupted(w) ==
  /\ pc[w] = "permission" /\ Probed(w)
  /\ IF Alive(w) THEN faults < MaxFaults /\ faults' = faults + 1 ELSE UNCHANGED faults
  /\ GiveUp(w)
  /\ Goto(w, "retry")
  /\ UNCHANGED <<gatewayVars, host, purpose, dial, attempt, proven, outcome, doomed>>

\* Mutant of MayRetry: one attempt too many.
MayRetryOnceMore(w) == attempt[w] <= MaxAttempts

MayRetry(w) == attempt[w] < MaxAttempts

Retry(w) ==
  /\ pc[w] = "retry" /\ MayRetry(w)
  /\ host' = [host EXCEPT ![w] = Refreshed(w)]
  /\ dial' = [dial EXCEPT ![w] = host'[w]]
  /\ attempt' = [attempt EXCEPT ![w] = @ + 1]
  /\ Goto(w, "dial")
  /\ UNCHANGED <<gatewayVars, holder, faults, purpose, mine, proven, outcome, doomed>>

Exhaust(w) ==
  /\ pc[w] = "retry"
  /\ attempt[w] = MaxAttempts
  /\ Finish(w, "unavailable")
  /\ UNCHANGED <<gatewayVars, holder, faults, host, purpose, dial, attempt, mine, proven, doomed>>

\* The cycle or the probe is over, well or not; its finally block disconnects.
Release(w) ==
  /\ pc[w] = "held"
  /\ Disconnect(w)
  /\ Goto(w, "idle")
  /\ UNCHANGED <<gatewayVars, faults, host, purpose, dial, attempt, proven, outcome, doomed>>

\* Mutant of Recycled: the interrupted worker goes on.
RecycledNever(w) == UNCHANGED doomed

Recycled(w) == doomed' = [doomed EXCEPT ![w] = IF @ = "no" THEN "scheduled" ELSE @]

\* The deadline of a dry run is not an Exception: the handler around the
\* validations lets it pass, the finally block of the cycle disconnects
\* unless the signal comes just before the assignment or inside the block.
Deadline(w) ==
  /\ pc[w] # "idle" /\ purpose[w] = "dry"
  /\ faults < MaxFaults
  /\ faults' = faults + 1
  /\ holder' \in IF pc[w] = "held" THEN {holder, Disconnected(w)} ELSE {holder}
  /\ mine' = [mine EXCEPT ![w] = Unset]
  /\ Recycled(w)
  /\ Goto(w, "idle")
  /\ UNCHANGED <<gatewayVars, host, purpose, dial, attempt, proven, outcome>>

\* The SIGTERM a deadline asked for arrives: no new request is taken.
Terminate(w) ==
  /\ doomed[w] = "scheduled"
  /\ doomed' = [doomed EXCEPT ![w] = "terminating"]
  /\ UNCHANGED <<gatewayVars, holder, faults, host, requestVars>>

\* The process ends, its host cache with it; the Gateway notices later.
EndProcess(w) ==
  /\ holder' = [i \in ClientId |-> IF holder[i] = w THEN Gone ELSE holder[i]]
  /\ host' = [host EXCEPT ![w] = Unset]
  /\ mine' = [mine EXCEPT ![w] = Unset]
  /\ doomed' = [doomed EXCEPT ![w] = "no"]
  /\ Goto(w, "idle")
  /\ UNCHANGED <<gatewayVars, purpose, dial, attempt, proven, outcome>>

\* A request in flight has been served first.
Replace(w) ==
  /\ doomed[w] = "terminating" /\ pc[w] = "idle"
  /\ EndProcess(w)
  /\ UNCHANGED faults

Crash(w) ==
  /\ faults < MaxFaults
  /\ faults' = faults + 1
  /\ EndProcess(w)

-----------------------------------------------------------------------------
\* The Gateway.

NoticeDead(i) ==
  /\ holder[i] = Gone
  /\ holder' = [holder EXCEPT ![i] = Nobody]
  /\ UNCHANGED <<gatewayVars, faults, host, requestVars, doomed>>

\* Down, or moved to another address: every session is dropped.
Fault ==
  /\ faults < MaxFaults
  /\ faults' = faults + 1
  /\ \/ /\ up' = FALSE
        /\ holder' = [i \in ClientId |-> Nobody]
        /\ UNCHANGED <<where, discovery, mode>>
     \/ /\ where' \in Address \ {where}
        /\ holder' = [i \in ClientId |-> Nobody]
        /\ UNCHANGED <<up, discovery, mode>>
     \/ /\ discovery' = FALSE
        /\ UNCHANGED <<where, up, mode, holder>>
     \/ /\ mode' \in {"writable", "read_only"} \ {mode}
        /\ UNCHANGED <<where, up, discovery, holder>>
  /\ UNCHANGED <<host, requestVars, doomed>>

Recover ==
  /\ ~up \/ ~discovery
  /\ up' = TRUE /\ discovery' = TRUE
  /\ UNCHANGED <<where, mode, holder, faults, host, requestVars, doomed>>

-----------------------------------------------------------------------------

Step(w) ==
  \/ Connect(w) \/ ConnectFails(w)
  \/ ValidateAccounts(w)
  \/ SkipPermission(w) \/ ProbePermission(w) \/ ProbeInterrupted(w)
  \/ Retry(w) \/ Exhaust(w)
  \/ Release(w)

Next ==
  \/ \E w \in Worker : Start(w) \/ Step(w)
  \/ \E w \in Worker : ConnectTimesOut(w) \/ Deadline(w) \/ Terminate(w) \/ Replace(w) \/ Crash(w)
  \/ \E i \in ClientId : NoticeDead(i)
  \/ Fault \/ Recover

Spec == Init /\ [][Next]_vars

\* Workers go on with what they have begun, a doomed worker is replaced, the
\* Gateway's machine and the discovery come back, dead peers are noticed.
Fairness ==
  /\ \A w \in Worker : WF_vars(Step(w)) /\ WF_vars(Terminate(w)) /\ WF_vars(Replace(w))
  /\ \A i \in ClientId : WF_vars(NoticeDead(i))
  /\ WF_vars(Recover)

FairSpec == Spec /\ Fairness

-----------------------------------------------------------------------------

\* A worker has one session at most that its process will not close again:
\* ids it holds besides the one it works with were leaked by a deadline, and
\* then it is to be recycled.  (The except and finally blocks of connect_ib
\* and its callers.)
NoForgottenSession ==
  \A w \in Worker : \A i \in ClientId : holder[i] = w => mine[w] = i \/ doomed[w] # "no"

\* A live cycle that reaches the broker has had write access and accounts
\* checked on the very session it uses, whichever attempt opened it.
HeldIsProven ==
  \A w \in Worker : pc[w] = "held" => w \notin Misfit /\ (purpose[w] = "live" => proven[w])

\* While a process lives, an address it has found is never traded for the
\* bare instance name (refresh_ib_host: "retaining last-known-good state").
LastKnownGoodKept ==
  [][\A w \in Worker : host[w] \in Address => host'[w] \in Address \cup {Unset}]_vars

\* Every session a deadline, a crash or a timeout left behind is freed.
LeaksAreFreed ==
  \A i \in ClientId : \A w \in Worker :
    (holder[i] = w /\ mine[w] # i) ~> (holder[i] # w \/ mine[w] = i)

\* Once the environment has settled, the attempts of one connect_ib are
\* enough to get past a stale address and past the sessions of the others.
RetriesSuffice ==
  <>[](up /\ discovery) =>
    <>[][\A w \in Worker : outcome'[w] = "unavailable" => outcome[w] = "unavailable"]_vars
=============================================================================
