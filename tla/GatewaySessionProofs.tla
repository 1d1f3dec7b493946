------------------------ MODULE GatewaySessionProofs ------------------------
(***************************************************************************)
(* Proofs about GatewaySession, for any number of workers, client ids,     *)
(* attempts and faults.                                                    *)
(*                                                                         *)
(* NoForgottenSession is not inductive: a connection that is made while    *)
(* the worker still has another session would forget that one.  Own says   *)
(* at which places a worker has a session at all, and what has been        *)
(* checked on it there.                                                    *)
(***************************************************************************)
EXTENDS GatewaySession, TLAPS

Own(w) ==
  /\ pc[w] \in {"idle", "dial", "retry"} => mine[w] = Unset
  /\ pc[w] \in {"accounts", "permission", "held"} => mine[w] \in ClientId
  /\ pc[w] # "idle" => attempt[w] # 0
  /\ pc[w] \in {"permission", "held"} => w \notin Misfit
  /\ pc[w] = "held" /\ purpose[w] = "live" => proven[w]

Accounted(w) ==
  \A i \in ClientId : holder[i] = w => mine[w] = i \/ doomed[w] # "no"

IInv == TypeOK /\ \A w \in Worker : Own(w) /\ Accounted(w)

\* Every client id an attempt uses is one of the enumerated ones.
LEMMA IdsAreKnown ==
  ASSUME NEW w \in Worker, NEW k \in 1 .. MaxAttempts
  PROVE  BaseId[w] + (k - 1) * Offset \in ClientId
<1>1. k - 1 \in 0 .. MaxAttempts - 1
  BY SessionAssumption
<1> QED
  BY <1>1 DEF ClientId

LEMMA NothingUnset == Unset \notin ClientId
<1>1. \A w \in Worker, k \in 0 .. MaxAttempts - 1 : BaseId[w] + k * Offset \in Nat
  <2> TAKE w \in Worker, k \in 0 .. MaxAttempts - 1
  <2>1. BaseId[w] \in Nat /\ Offset \in Nat /\ k \in Nat
    BY SessionAssumption
  <2>2. k * Offset \in Nat
    BY <2>1
  <2> QED
    BY <2>1, <2>2
<1> QED
  BY <1>1, SessionAssumption DEF ClientId

LEMMA InitIInv == Init => IInv
<1> SUFFICES ASSUME Init PROVE IInv
  OBVIOUS
<1>1. TypeOK
  BY SessionAssumption DEF Init, TypeOK
<1>2. ASSUME NEW w \in Worker PROVE Own(w) /\ Accounted(w)
  BY SessionAssumption DEF Init, Own, Accounted
<1> QED
  BY <1>1, <1>2 DEF IInv

LEMMA StepIInv == IInv /\ [Next]_vars => IInv'
<1> SUFFICES ASSUME IInv, [Next]_vars PROVE IInv'
  OBVIOUS
<1> USE SessionAssumption, NothingUnset DEF gatewayVars, requestVars, Goto, Finish
<1>0. TypeOK /\ \A v \in Worker : Own(v) /\ Accounted(v)
  BY DEF IInv
<1>1. ASSUME NEW w \in Worker, Start(w) PROVE IInv'
  <2>1. TypeOK'
    BY <1>0, <1>1 DEF Start, TypeOK, Found
  <2>2. ASSUME NEW v \in Worker PROVE Own(v)'
    BY <1>0, <1>1 DEF Start, TypeOK, Own
  <2>3. ASSUME NEW v \in Worker PROVE Accounted(v)'
    BY <1>0, <1>1 DEF Start, Accounted
  <2> QED BY <2>1, <2>2, <2>3 DEF IInv
<1>2. ASSUME NEW w \in Worker, Connect(w) PROVE IInv'
  <2>0. IdOf(w) \in ClientId
    <3>1. attempt[w] \in 1 .. MaxAttempts
      BY <1>0, <1>2 DEF Connect, TypeOK, Own
    <3> QED BY <3>1, IdsAreKnown DEF IdOf
  <2>1. TypeOK'
    BY <1>0, <1>2, <2>0 DEF Connect, TypeOK
  <2>2. ASSUME NEW v \in Worker PROVE Own(v)'
    BY <1>0, <1>2, <2>0 DEF Connect, TypeOK, Own
  <2>3. ASSUME NEW v \in Worker PROVE Accounted(v)'
    BY <1>0, <1>2, <2>0 DEF Connect, TypeOK, Own, Accounted
  <2> QED BY <2>1, <2>2, <2>3 DEF IInv
<1>3. ASSUME NEW w \in Worker, ConnectFails(w) PROVE IInv'
  <2>1. TypeOK'
    BY <1>0, <1>3 DEF ConnectFails, TypeOK
  <2>2. ASSUME NEW v \in Worker PROVE Own(v)'
    BY <1>0, <1>3 DEF ConnectFails, TypeOK, Own
  <2>3. ASSUME NEW v \in Worker PROVE Accounted(v)'
    BY <1>0, <1>3 DEF ConnectFails, Accounted
  <2> QED BY <2>1, <2>2, <2>3 DEF IInv
<1>4. ASSUME NEW w \in Worker, ConnectTimesOut(w) PROVE IInv'
  <2>0. IdOf(w) \in ClientId
    <3>1. attempt[w] \in 1 .. MaxAttempts
      BY <1>0, <1>4 DEF ConnectTimesOut, TypeOK, Own
    <3> QED BY <3>1, IdsAreKnown DEF IdOf
  <2>1. TypeOK'
    BY <1>0, <1>4, <2>0 DEF ConnectTimesOut, TypeOK
  <2>2. ASSUME NEW v \in Worker PROVE Own(v)'
    BY <1>0, <1>4 DEF ConnectTimesOut, TypeOK, Own
  <2>3. ASSUME NEW v \in Worker PROVE Accounted(v)'
    BY <1>0, <1>4, <2>0 DEF ConnectTimesOut, TypeOK, Accounted
  <2> QED BY <2>1, <2>2, <2>3 DEF IInv
<1>5. ASSUME NEW w \in Worker, GiveUp(w)
      PROVE  /\ holder' \in [ClientId -> Worker \cup {Nobody, Gone}]
             /\ mine' = [mine EXCEPT ![w] = Unset]
             /\ \A i \in ClientId : holder'[i] = holder[i] \/ holder'[i] = Nobody
             /\ mine[w] \in ClientId => holder'[mine[w]] # w
  <2>1. CASE mine[w] # Unset /\ holder[mine[w]] = w
    BY <1>0, <1>5, <2>1 DEF GiveUp, Disconnect, Disconnected, TypeOK
  <2>2. CASE ~(mine[w] # Unset /\ holder[mine[w]] = w)
    BY <1>0, <1>5, <2>2 DEF GiveUp, Disconnect, Disconnected, TypeOK
  <2> QED BY <2>1, <2>2
<1>6. ASSUME NEW w \in Worker, GiveUp(w), UNCHANGED doomed PROVE \A v \in Worker : Accounted(v)'
  <2> SUFFICES ASSUME NEW v \in Worker, NEW i \in ClientId, holder'[i] = v
               PROVE  mine'[v] = i \/ doomed'[v] # "no"
    BY DEF Accounted
  <2>1. holder[i] = v /\ (mine[v] = i \/ doomed[v] # "no")
    BY <1>0, <1>5, <1>6 DEF Accounted
  <2>2. CASE v = w
    BY <1>0, <1>5, <1>6, <2>1, <2>2 DEF TypeOK
  <2>3. CASE v # w
    BY <1>0, <1>5, <1>6, <2>1, <2>3 DEF TypeOK
  <2> QED BY <2>2, <2>3
<1>7. ASSUME NEW w \in Worker, ValidateAccounts(w) PROVE IInv'
  <2>1. CASE w \in Misfit
    <3>1. GiveUp(w) /\ UNCHANGED doomed
      BY <1>7, <2>1 DEF ValidateAccounts
    <3>2. TypeOK'
      BY <1>0, <1>5, <1>7, <2>1, <3>1 DEF ValidateAccounts, TypeOK
    <3>3. ASSUME NEW v \in Worker PROVE Own(v)'
      BY <1>0, <1>5, <1>7, <2>1, <3>1 DEF ValidateAccounts, TypeOK, Own
    <3> QED BY <1>6, <3>1, <3>2, <3>3 DEF IInv
  <2>2. CASE w \notin Misfit
    <3>1. TypeOK'
      BY <1>0, <1>7, <2>2 DEF ValidateAccounts, TypeOK
    <3>2. ASSUME NEW v \in Worker PROVE Own(v)'
      BY <1>0, <1>7, <2>2 DEF ValidateAccounts, TypeOK, Own
    <3>3. ASSUME NEW v \in Worker PROVE Accounted(v)'
      BY <1>0, <1>7, <2>2 DEF ValidateAccounts, Accounted
    <3> QED BY <3>1, <3>2, <3>3 DEF IInv
  <2> QED BY <2>1, <2>2
<1>8. ASSUME NEW w \in Worker, SkipPermission(w) PROVE IInv'
  <2>1. TypeOK'
    BY <1>0, <1>8 DEF SkipPermission, TypeOK
  <2>2. ASSUME NEW v \in Worker PROVE Own(v)'
    BY <1>0, <1>8 DEF SkipPermission, Probed, TypeOK, Own
  <2>3. ASSUME NEW v \in Worker PROVE Accounted(v)'
    BY <1>0, <1>8 DEF SkipPermission, Accounted
  <2> QED BY <2>1, <2>2, <2>3 DEF IInv
<1>9. ASSUME NEW w \in Worker, ProbePermission(w) PROVE IInv'
  <2>1. CASE mode = "writable"
    <3>1. TypeOK'
      BY <1>0, <1>9, <2>1 DEF ProbePermission, TypeOK
    <3>2. ASSUME NEW v \in Worker PROVE Own(v)'
      BY <1>0, <1>9, <2>1 DEF ProbePermission, TypeOK, Own
    <3>3. ASSUME NEW v \in Worker PROVE Accounted(v)'
      BY <1>0, <1>9, <2>1 DEF ProbePermission, Accounted
    <3> QED BY <3>1, <3>2, <3>3 DEF IInv
  <2>2. CASE mode # "writable"
    <3>1. GiveUp(w) /\ UNCHANGED doomed
      BY <1>9, <2>2 DEF ProbePermission
    <3>2. TypeOK'
      BY <1>0, <1>5, <1>9, <2>2, <3>1 DEF ProbePermission, TypeOK
    <3>3. ASSUME NEW v \in Worker PROVE Own(v)'
      BY <1>0, <1>5, <1>9, <2>2, <3>1 DEF ProbePermission, TypeOK, Own
    <3> QED BY <1>6, <3>1, <3>2, <3>3 DEF IInv
  <2> QED BY <2>1, <2>2
<1>10. ASSUME NEW w \in Worker, ProbeInterrupted(w) PROVE IInv'
  <2>1. GiveUp(w) /\ UNCHANGED doomed
    BY <1>10 DEF ProbeInterrupted
  <2>2. TypeOK'
    BY <1>0, <1>5, <1>10, <2>1 DEF ProbeInterrupted, TypeOK
  <2>3. ASSUME NEW v \in Worker PROVE Own(v)'
    BY <1>0, <1>5, <1>10, <2>1 DEF ProbeInterrupted, TypeOK, Own
  <2> QED BY <1>6, <2>1, <2>2, <2>3 DEF IInv
<1>11. ASSUME NEW w \in Worker, Retry(w) PROVE IInv'
  <2>1. TypeOK'
    BY <1>0, <1>11 DEF Retry, MayRetry, Refreshed, Found, TypeOK
  <2>2. ASSUME NEW v \in Worker PROVE Own(v)'
    BY <1>0, <1>11 DEF Retry, TypeOK, Own
  <2>3. ASSUME NEW v \in Worker PROVE Accounted(v)'
    BY <1>0, <1>11 DEF Retry, Accounted
  <2> QED BY <2>1, <2>2, <2>3 DEF IInv
<1>12. ASSUME NEW w \in Worker, Exhaust(w) PROVE IInv'
  <2>1. TypeOK'
    BY <1>0, <1>12 DEF Exhaust, TypeOK
  <2>2. ASSUME NEW v \in Worker PROVE Own(v)'
    BY <1>0, <1>12 DEF Exhaust, TypeOK, Own
  <2>3. ASSUME NEW v \in Worker PROVE Accounted(v)'
    BY <1>0, <1>12 DEF Exhaust, Accounted
  <2> QED BY <2>1, <2>2, <2>3 DEF IInv
<1>13. ASSUME NEW w \in Worker, Release(w) PROVE IInv'
  <2>1. GiveUp(w) /\ UNCHANGED doomed
    BY <1>13 DEF Release, GiveUp
  <2>2. TypeOK'
    BY <1>0, <1>5, <1>13, <2>1 DEF Release, TypeOK
  <2>3. ASSUME NEW v \in Worker PROVE Own(v)'
    BY <1>0, <1>5, <1>13, <2>1 DEF Release, TypeOK, Own
  <2> QED BY <1>6, <2>1, <2>2, <2>3 DEF IInv
<1>14. ASSUME NEW w \in Worker, Deadline(w) PROVE IInv'
  <2>0. /\ holder' \in [ClientId -> Worker \cup {Nobody, Gone}]
        /\ \A i \in ClientId : holder'[i] = holder[i] \/ holder'[i] = Nobody
    BY <1>0, <1>14 DEF Deadline, Disconnected, TypeOK
  <2>1. TypeOK'
    BY <1>0, <1>14, <2>0 DEF Deadline, Recycled, TypeOK
  <2>2. ASSUME NEW v \in Worker PROVE Own(v)'
    BY <1>0, <1>14 DEF Deadline, TypeOK, Own
  <2>3. ASSUME NEW v \in Worker PROVE Accounted(v)'
    BY <1>0, <1>14, <2>0 DEF Deadline, Recycled, TypeOK, Accounted
  <2> QED BY <2>1, <2>2, <2>3 DEF IInv
<1>15. ASSUME NEW w \in Worker, Terminate(w) PROVE IInv'
  <2>1. TypeOK'
    BY <1>0, <1>15 DEF Terminate, TypeOK
  <2>2. ASSUME NEW v \in Worker PROVE Own(v)'
    BY <1>0, <1>15 DEF Terminate, Own
  <2>3. ASSUME NEW v \in Worker PROVE Accounted(v)'
    BY <1>0, <1>15 DEF Terminate, TypeOK, Accounted
  <2> QED BY <2>1, <2>2, <2>3 DEF IInv
<1>16. ASSUME NEW w \in Worker, EndProcess(w), faults' \in 0 .. MaxFaults PROVE IInv'
  <2>1. TypeOK'
    BY <1>0, <1>16 DEF EndProcess, TypeOK
  <2>2. ASSUME NEW v \in Worker PROVE Own(v)'
    BY <1>0, <1>16 DEF EndProcess, TypeOK, Own
  <2>3. ASSUME NEW v \in Worker PROVE Accounted(v)'
    BY <1>0, <1>16 DEF EndProcess, TypeOK, Accounted
  <2> QED BY <2>1, <2>2, <2>3 DEF IInv
<1>17. ASSUME NEW w \in Worker, Replace(w) \/ Crash(w) PROVE IInv'
  <2>1. EndProcess(w) /\ faults' \in 0 .. MaxFaults
    BY <1>0, <1>17 DEF Replace, Crash, TypeOK
  <2> QED BY <1>16, <2>1
<1>18. CASE (\E i \in ClientId : NoticeDead(i)) \/ Fault \/ Recover
  <2>0. /\ holder' \in [ClientId -> Worker \cup {Nobody, Gone}]
        /\ \A i \in ClientId : holder'[i] = holder[i] \/ holder'[i] = Nobody
        /\ UNCHANGED <<host, requestVars, doomed>>
    BY <1>0, <1>18 DEF NoticeDead, Fault, Recover, TypeOK
  <2>1. /\ where' \in Address /\ up' \in BOOLEAN /\ discovery' \in BOOLEAN
        /\ mode' \in {"writable", "read_only"}
        /\ faults' \in 0 .. MaxFaults
    <3>1. CASE \E i \in ClientId : NoticeDead(i)
      BY <1>0, <3>1 DEF NoticeDead, TypeOK
    <3>2. CASE Fault
      <4>1. faults' \in 0 .. MaxFaults
        BY <1>0, <3>2 DEF Fault, TypeOK
      <4>2. /\ where' \in Address /\ up' \in BOOLEAN /\ discovery' \in BOOLEAN
            /\ mode' \in {"writable", "read_only"}
        BY <1>0, <3>2, Zenon DEF Fault, TypeOK
      <4> QED BY <4>1, <4>2
    <3>3. CASE Recover
      BY <1>0, <3>3 DEF Recover, TypeOK
    <3> QED BY <1>18, <3>1, <3>2, <3>3
  <2>2. TypeOK'
    BY <1>0, <2>0, <2>1 DEF TypeOK
  <2>3. ASSUME NEW v \in Worker PROVE Own(v)'
    BY <1>0, <2>0 DEF Own
  <2>4. ASSUME NEW v \in Worker PROVE Accounted(v)'
    BY <1>0, <2>0 DEF Accounted
  <2> QED BY <2>2, <2>3, <2>4 DEF IInv
<1>19. CASE UNCHANGED vars
  <2>1. TypeOK'
    BY <1>0, <1>19 DEF vars, TypeOK
  <2>2. ASSUME NEW v \in Worker PROVE Own(v)' /\ Accounted(v)'
    BY <1>0, <1>19 DEF vars, Own, Accounted
  <2> QED BY <2>1, <2>2 DEF IInv
<1> QED
  BY <1>1, <1>2, <1>3, <1>4, <1>7, <1>8, <1>9, <1>10, <1>11, <1>12, <1>13, <1>14, <1>15,
     <1>17, <1>18, <1>19 DEF Next, Step

\* Every variable keeps its type: the attempts stay within connect_attempts
\* and every session has a client id of its worker's or another's series.
THEOREM TypeCorrect == Spec => []TypeOK
<1>1. IInv => TypeOK
  BY DEF IInv
<1> QED
  BY <1>1, InitIInv, StepIInv, PTL DEF Spec

\* A worker that is not being recycled holds one session at most, the one it
\* works with (the except and finally blocks around a session).
THEOREM SessionsAreClosed == Spec => []NoForgottenSession
<1>1. IInv => NoForgottenSession
  BY DEF IInv, Accounted, NoForgottenSession
<1> QED
  BY <1>1, InitIInv, StepIInv, PTL DEF Spec

\* What uses a session has validated that very session (connect_ib).
THEOREM SessionsAreProven == Spec => []HeldIsProven
<1>1. IInv => HeldIsProven
  BY DEF IInv, Own, HeldIsProven
<1> QED
  BY <1>1, InitIInv, StepIInv, PTL DEF Spec

\* An address that was found outlives failed look-ups (refresh_ib_host).
THEOREM AddressesAreKept == Spec => LastKnownGoodKept
<1> DEFINE Kept == \A w \in Worker : host[w] \in Address => host'[w] \in Address \cup {Unset}
<1>1. IInv /\ [Next]_vars => [Kept]_vars
  <2> SUFFICES ASSUME IInv, Next, NEW w \in Worker, host[w] \in Address
               PROVE  host'[w] \in Address \cup {Unset}
    OBVIOUS
  <2> USE SessionAssumption DEF gatewayVars, requestVars
  <2>0. TypeOK
    BY DEF IInv
  <2>1. CASE \E v \in Worker : Start(v)
    BY <2>0, <2>1 DEF Start, Found, TypeOK
  <2>2. CASE \E v \in Worker : Retry(v)
    BY <2>0, <2>2 DEF Retry, Refreshed, Found, TypeOK
  <2>3. CASE \E v \in Worker : Replace(v) \/ Crash(v)
    BY <2>0, <2>3 DEF Replace, Crash, EndProcess, TypeOK
  <2>4. CASE ~\E v \in Worker : Start(v) \/ Retry(v) \/ Replace(v) \/ Crash(v)
    <3>1. UNCHANGED host
      BY <2>4 DEF Next, Step, Connect, ConnectFails, ConnectTimesOut, ValidateAccounts,
                  SkipPermission, ProbePermission, ProbeInterrupted, Exhaust, Release,
                  Deadline, Terminate, NoticeDead, Fault, Recover
    <3> QED BY <3>1
  <2> QED BY <2>1, <2>2, <2>3, <2>4
<1> QED
  BY <1>1, InitIInv, StepIInv, PTL DEF Spec, LastKnownGoodKept
=============================================================================
