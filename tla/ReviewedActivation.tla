------------------------- MODULE ReviewedActivation -------------------------
(***************************************************************************)
(* What the recovery promises, with its requests, files, scripts,          *)
(* inventory and deployments left out: a service begins to trade on a      *)
(* baseline and an expected state of its account only if its account was   *)
(* found clean in that state, a person then endorsed it, and the account   *)
(* was found in that state again, later and soon enough.                   *)
(***************************************************************************)
EXTENDS Integers

CONSTANTS Service, MaxAge

VARIABLES
  now,
  readings,       \* what accounts were found to hold, and when
  endorsements,   \* what a person agreed to, and when
  trading         \* for each service nothing, or what it trades on

Idle == {}
On(e) == {[baseline |-> e.baseline, seen |-> e.seen]}

Init ==
  /\ now = 0 /\ readings = {} /\ endorsements = {}
  /\ trading = [s \in Service |-> Idle]

Wait == now' = now + 1 /\ UNCHANGED <<readings, endorsements, trading>>

\* Some account is read; readings are never withdrawn.
Observe ==
  /\ readings \subseteq readings'
  /\ \A r \in readings' \ readings : r.at = now
  /\ UNCHANGED <<now, endorsements, trading>>

\* A person endorses what a clean reading showed, for the service it was read for.
Endorse(r) ==
  /\ r.clean
  /\ endorsements' = endorsements \cup
       {[service |-> r.service, baseline |-> r.baseline, seen |-> r.seen, at |-> now]}
  /\ UNCHANGED <<now, readings, trading>>

\* The account of the endorsement was read again after it.
Confirmed(e) ==
  \E r \in readings :
    /\ r.service = e.service /\ r.baseline = e.baseline /\ r.seen = e.seen
    /\ r.at > e.at /\ r.at - e.at <= MaxAge

Offered(s) ==
  {trading[s], Idle} \cup
    {On(e) : e \in {f \in endorsements : f.service = s /\ Confirmed(f)}}

\* Services are started anew, each idle or on something endorsed and confirmed for it.
Restart ==
  /\ trading' \in [Service -> UNION {Offered(s) : s \in Service}]
  /\ \A s \in Service : trading'[s] \in Offered(s)
  /\ UNCHANGED <<now, readings, endorsements>>

Next == Wait \/ Observe \/ Restart \/ \E r \in readings : Endorse(r)

vars == <<now, readings, endorsements, trading>>

Spec == Init /\ [][Next]_vars
=============================================================================
