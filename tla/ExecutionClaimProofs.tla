------------------------- MODULE ExecutionClaimProofs -------------------------
(***************************************************************************)
(* Proofs about ExecutionClaim, for every set of cycles, containers,       *)
(* profiles, accounts, dates and symbols and every deployment; the last    *)
(* part shows that it implements OneShotExecution.                         *)
(***************************************************************************)
EXTENDS ExecutionClaimRefinement, TLAPS

-----------------------------------------------------------------------------
(* The inductive invariant.  Everything rests on Granted: while a cycle's  *)
(* claim is granted its marker and its owner stay in the store, because    *)
(* both are create-only; so a second cycle cannot be granted the same key, *)
(* and only a granted cycle submits.                                       *)

Granted(c) ==
  /\ tried[c]
  /\ ~req[c].dry
  /\ Config(c).dedup
  /\ Config(c).account \in Account
  /\ marker[KeyOf(c)] # "absent"
  /\ owner[Config(c).account] = Config(c).profile

\* What a cycle at each place has been through.
Progress(c) ==
  /\ pc[c] \in {"waiting", "dedup", "guards", "lock", "writing"} => ~tried[c]
  /\ pc[c] \in {"owner", "marker"} =>
       /\ tried[c] /\ ~acquired[c] /\ ~req[c].dry
       /\ Config(c).dedup /\ Config(c).account \in Account
  /\ pc[c] = "marker" => owner[Config(c).account] = Config(c).profile
  /\ pc[c] = "send" => acquired[c]
  /\ pc[c] \in {"orders", "record"} /\ tried[c] => acquired[c] /\ seen[c] # {}
  /\ result[c] # "none" => pc[c] \in {"report", "done"}

\* What a cycle knows of its intents is true.
Knowledge(c) ==
  /\ "accepted" \in seen[c] => acquired[c]
  /\ "previewed" \in seen[c] => req[c].dry
  /\ \A x \in Symbol :
       order[c][x] \in {"working", "filled"} /\ pc[c] # "done"
         => "accepted" \in seen[c]

\* What a cycle has answered is true.
Answer(c) ==
  /\ result[c] \in {"already_running", "already_recorded", "guarded", "locked",
                    "no_op"} => ~tried[c]
  /\ result[c] = "blocked" =>
       \A x \in Symbol : order[c][x] \in {"none", "cancelled"}

CycleInv(c) ==
  /\ acquired[c] => Granted(c)
  /\ \A x \in Symbol : order[c][x] # "none" => acquired[c]
  /\ Progress(c)
  /\ Knowledge(c)
  /\ Answer(c)

OneGrantPerKey ==
  \A c, d \in Cycle :
    acquired[c] /\ acquired[d] /\ KeyOf(c) = KeyOf(d) => c = d

IInv ==
  /\ TypeOK
  /\ OneGrantPerKey
  /\ LiveMarkersComeFromSubmitters
  /\ \A c \in Cycle : CycleInv(c)

-----------------------------------------------------------------------------

\* The configuration and the key of a cycle have their types.
LEMMA KeyType ==
  ASSUME TypeOK, NEW c \in Cycle
  PROVE  /\ req[c] \in Request
         /\ Config(c) \in [profile : Profile, scope : Scope,
                           account : Account \cup {NoAccount}, dedup : BOOLEAN]
         /\ KeyOf(c) \in Key
         /\ LockOf(c) \in LockKey
<1>1. req[c] \in Request
  BY DEF TypeOK
<1>2. Config(c) \in [profile : Profile, scope : Scope,
                     account : Account \cup {NoAccount}, dedup : BOOLEAN]
  BY <1>1, DeploymentAssumption DEF Config, Request
<1>3. KeyOf(c) \in Key
  BY <1>1, <1>2 DEF KeyOf, Key, Request
<1>4. LockOf(c) \in LockKey
  BY <1>1 DEF LockOf, LockKey, Request
<1> QED BY <1>1, <1>2, <1>3, <1>4

\* The broker checks end the cycle, or give it symbols to trade.
LEMMA BrokerEffect ==
  ASSUME NEW c \in Cycle, CheckBroker(c)
  PROVE  /\ \/ \E r \in {"blocked", "error", "guarded", "no_op"} :
                 Finish(c, r) /\ todo' = todo
            \/ \E scope \in SUBSET Symbol :
                 /\ todo' = [todo EXCEPT ![c] = scope]
                 /\ Goto(c, "lock")
                 /\ result' = result
         /\ pc[c] = "guards"
         /\ UNCHANGED <<req, tried, acquired, seen, lockFile, storeVars, order>>
<1> DEFINE ends == \E r \in {"blocked", "error", "guarded", "no_op"} :
                     Finish(c, r) /\ todo' = todo
           goes == \E scope \in SUBSET Symbol :
                     /\ todo' = [todo EXCEPT ![c] = scope]
                     /\ Goto(c, "lock")
                     /\ result' = result
<1>1. PICK scope \in SUBSET Symbol,
           openView \in SUBSET Working(Config(c).account),
           fillView \in SUBSET FilledOn(Config(c).account, req[c].date) :
        CheckBroker(c)!2!(scope, openView, fillView)
  BY DEF CheckBroker
<1>2. ends \/ goes
  BY <1>1, Zenon
<1> QED BY <1>2 DEF CheckBroker

\* Initially everything is in place.
LEMMA InitIInv == Init => IInv
<1> SUFFICES ASSUME Init PROVE IInv
  OBVIOUS
<1>1. TypeOK
  BY DEF Init, TypeOK, Place, Result
<1>2. OneGrantPerKey /\ LiveMarkersComeFromSubmitters
  BY DEF Init, OneGrantPerKey, LiveMarkersComeFromSubmitters
<1>3. ASSUME NEW c \in Cycle PROVE CycleInv(c)
  BY DEF Init, CycleInv, Granted, Progress, Knowledge, Answer
<1> QED BY <1>1, <1>2, <1>3 DEF IInv

-----------------------------------------------------------------------------
(* Type correctness. *)

\* Every step keeps the type invariant.
LEMMA TypeStep == TypeOK /\ [Next]_vars => TypeOK'
<1> SUFFICES ASSUME TypeOK, [Next]_vars PROVE TypeOK'
  OBVIOUS
<1> USE DEF TypeOK, Place, Result, Goto, Finish, cycleVars, storeVars
<1>1. ASSUME NEW c \in Cycle, Start(c) PROVE TypeOK'
  BY <1>1 DEF Start
<1>2. ASSUME NEW c \in Cycle, StopBeforeDedup(c) PROVE TypeOK'
  BY <1>2 DEF StopBeforeDedup
<1>3. ASSUME NEW c \in Cycle, CheckMarker(c) PROVE TypeOK'
  BY <1>3 DEF CheckMarker
<1>4. ASSUME NEW c \in Cycle, CheckBroker(c) PROVE TypeOK'
  <2>1. ASSUME NEW r \in {"blocked", "error", "guarded", "no_op"},
               Finish(c, r), todo' = todo
        PROVE  TypeOK'
    BY <1>4, <2>1, BrokerEffect
  <2>2. ASSUME NEW scope \in SUBSET Symbol,
               todo' = [todo EXCEPT ![c] = scope], Goto(c, "lock"), result' = result
        PROVE  TypeOK'
    BY <1>4, <2>2, BrokerEffect
  <2> QED BY <1>4, <2>1, <2>2, BrokerEffect
<1>5. ASSUME NEW c \in Cycle, CreateLock(c) PROVE TypeOK'
  <2>1. lockFile' \in [Instance -> [LockKey -> {"absent", "empty", "written"}]]
    <3>1. CASE UNCHANGED lockFile
      BY <3>1
    <3>2. CASE lockFile' = [lockFile EXCEPT ![req[c].inst][LockOf(c)] = "empty"]
      BY <3>2, KeyType DEF Request
    <3> QED BY <1>5, <3>1, <3>2 DEF CreateLock
  <2>2. pc' \in [Cycle -> Place] /\ result' \in [Cycle -> Result]
    BY <1>5 DEF CreateLock
  <2> QED BY <1>5, <2>1, <2>2 DEF CreateLock
<1>6. ASSUME NEW c \in Cycle, WriteLock(c) PROVE TypeOK'
  BY <1>6, KeyType DEF WriteLock
<1>7. ASSUME NEW c \in Cycle, NEW x \in Symbol, SkipIntent(c, x) PROVE TypeOK'
  BY <1>7 DEF SkipIntent
<1>8. ASSUME NEW c \in Cycle, NEW x \in Symbol, PreviewIntent(c, x) PROVE TypeOK'
  BY <1>8 DEF PreviewIntent
<1>9. ASSUME NEW c \in Cycle, NEW x \in Symbol, Submit(c, x) PROVE TypeOK'
  <2>1. CASE Accepted(c, x)
    BY <1>9, <2>1 DEF Submit, Accepted
  <2>2. CASE Refused(c, x)
    BY <1>9, <2>2 DEF Submit, Refused
  <2>3. CASE Raised(c, x)
    BY <1>9, <2>3 DEF Submit, Raised
  <2> QED BY <1>9, <2>1, <2>2, <2>3 DEF Submit
<1>10. ASSUME NEW c \in Cycle, BeginClaim(c) PROVE TypeOK'
  BY <1>10 DEF BeginClaim
<1>11. ASSUME NEW c \in Cycle, ClaimOwner(c) PROVE TypeOK'
  BY <1>11, KeyType DEF ClaimOwner
<1>12. ASSUME NEW c \in Cycle, ClaimMarker(c) PROVE TypeOK'
  BY <1>12, KeyType DEF ClaimMarker
<1>13. ASSUME NEW c \in Cycle, EndOrders(c) PROVE TypeOK'
  BY <1>13 DEF EndOrders
<1>14. ASSUME NEW c \in Cycle, RecordMarker(c) PROVE TypeOK'
  BY <1>14, KeyType DEF RecordMarker
<1>15. ASSUME NEW c \in Cycle, PersistReport(c) PROVE TypeOK'
  BY <1>15, KeyType DEF PersistReport
<1>16. ASSUME NEW c \in Cycle, KillWorker(c) PROVE TypeOK'
  BY <1>16 DEF KillWorker
<1>17. ASSUME NEW i \in Instance, ReplaceInstance(i) PROVE TypeOK'
  BY <1>17 DEF ReplaceInstance
<1>18. ASSUME NEW c \in Cycle, NEW x \in Symbol, SettleOrder(c, x) PROVE TypeOK'
  BY <1>18 DEF SettleOrder
<1>19. CASE UNCHANGED vars
  BY <1>19 DEF vars
<1> QED
  BY <1>1, <1>2, <1>3, <1>4, <1>5, <1>6, <1>7, <1>8, <1>9, <1>10, <1>11, <1>12,
     <1>13, <1>14, <1>15, <1>16, <1>17, <1>18, <1>19
     DEF Next, CycleStep, Environment, Quiescent

-----------------------------------------------------------------------------
(* The store is create-only: markers and owners are never taken back.  *)

StoreGrows ==
  /\ req' = req
  /\ \A k \in Key : marker[k] # "absent" => marker'[k] # "absent"
  /\ \A a \in Account : owner[a] \in Profile => owner'[a] = owner[a]

\* Every step leaves the requests, the markers and the owners in place.
LEMMA StoreStep == TypeOK /\ [Next]_vars => StoreGrows
<1> SUFFICES ASSUME TypeOK, [Next]_vars PROVE StoreGrows
  OBVIOUS
<1>1. CASE UNCHANGED <<req, marker, owner>>
  BY <1>1 DEF StoreGrows
<1>2. ASSUME NEW c \in Cycle, ClaimOwner(c) PROVE StoreGrows
  BY <1>2, KeyType, DeploymentAssumption DEF ClaimOwner, StoreGrows, TypeOK
<1>3. ASSUME NEW c \in Cycle, ClaimMarker(c) PROVE StoreGrows
  BY <1>3, KeyType DEF ClaimMarker, StoreGrows, TypeOK
<1>4. ASSUME NEW c \in Cycle, RecordMarker(c) PROVE StoreGrows
  BY <1>4, KeyType DEF RecordMarker, StoreGrows, TypeOK
<1>5. ASSUME NEW c \in Cycle, CheckBroker(c) PROVE UNCHANGED <<req, marker, owner>>
  BY <1>5, BrokerEffect DEF storeVars
<1> QED
  BY <1>1, <1>2, <1>3, <1>4, <1>5
     DEF Next, CycleStep, Environment, Quiescent, vars, storeVars, Start,
         StopBeforeDedup, CheckMarker, CreateLock, WriteLock, SkipIntent,
         PreviewIntent, Submit, BeginClaim, EndOrders, PersistReport, KillWorker,
         ReplaceInstance, SettleOrder

\* A step that does not touch a cycle keeps what is known of it.
LEMMA Untouched ==
  ASSUME IInv, StoreGrows, NEW d \in Cycle,
         pc'[d] = pc[d], tried'[d] = tried[d], acquired'[d] = acquired[d],
         seen'[d] = seen[d], result'[d] = result[d], order'[d] = order[d]
  PROVE  CycleInv(d)'
<1>1. Config(d)' = Config(d) /\ KeyOf(d)' = KeyOf(d)
  BY DEF StoreGrows, Config, KeyOf
<1>2. KeyOf(d) \in Key /\ Config(d).profile \in Profile
  BY KeyType DEF IInv
<1>3. acquired[d] => Granted(d)'
  BY <1>1, <1>2 DEF IInv, CycleInv, Granted, StoreGrows
<1>4. Progress(d)'
  BY <1>1, <1>2 DEF IInv, CycleInv, Progress, StoreGrows
<1>5. Knowledge(d)' /\ Answer(d)'
  BY DEF IInv, CycleInv, Knowledge, Answer, StoreGrows
<1> QED BY <1>3, <1>4, <1>5 DEF IInv, CycleInv

\* A step of one cycle that writes no marker and is granted nothing need only
\* be checked for that cycle.
LEMMA OneCycleMoves ==
  ASSUME IInv, TypeOK', StoreGrows, NEW c \in Cycle,
         acquired' = acquired, marker' = marker,
         \A d \in Cycle : tried[d] => tried'[d],
         \A d \in Cycle \ {c} :
           /\ pc'[d] = pc[d] /\ tried'[d] = tried[d] /\ seen'[d] = seen[d]
           /\ result'[d] = result[d] /\ order'[d] = order[d],
         CycleInv(c)'
  PROVE  IInv'
<1>1. \A d \in Cycle : KeyOf(d)' = KeyOf(d)
  BY DEF StoreGrows, Config, KeyOf
<1>2. OneGrantPerKey'
  BY <1>1 DEF IInv, OneGrantPerKey
<1>3. LiveMarkersComeFromSubmitters'
  BY <1>1 DEF IInv, LiveMarkersComeFromSubmitters, StoreGrows
<1>4. ASSUME NEW d \in Cycle PROVE CycleInv(d)'
  <2>1. CASE d = c
    BY <2>1
  <2>2. CASE d # c
    BY <2>2, Untouched
  <2> QED BY <2>1, <2>2
<1> QED BY <1>2, <1>3, <1>4 DEF IInv

-----------------------------------------------------------------------------
(* The invariant is inductive. *)

\* Every step keeps the invariant.
LEMMA StepIInv == IInv /\ [Next]_vars => IInv'
<1> SUFFICES ASSUME IInv, [Next]_vars PROVE IInv'
  OBVIOUS
<1> TypeOK /\ TypeOK' /\ StoreGrows
  BY TypeStep, StoreStep DEF IInv
<1>0. \A c \in Cycle : Config(c)' = Config(c) /\ KeyOf(c)' = KeyOf(c)
  BY DEF StoreGrows, Config, KeyOf
<1> USE DEF Goto, Finish, cycleVars, storeVars
<1>1. ASSUME NEW c \in Cycle, Start(c) PROVE IInv'
  <2>1. CycleInv(c)'
    BY <1>0, <1>1
       DEF IInv, TypeOK, CycleInv, Granted, Progress, Knowledge, Answer, Start
  <2> QED BY <1>1, <2>1, OneCycleMoves DEF TypeOK, Start
<1>2. ASSUME NEW c \in Cycle, StopBeforeDedup(c) PROVE IInv'
  <2>1. CycleInv(c)'
    BY <1>0, <1>2
       DEF IInv, TypeOK, CycleInv, Granted, Progress, Knowledge, Answer, StopBeforeDedup
  <2> QED BY <1>2, <2>1, OneCycleMoves DEF TypeOK, StopBeforeDedup
<1>3. ASSUME NEW c \in Cycle, CheckMarker(c) PROVE IInv'
  <2>1. CycleInv(c)'
    BY <1>0, <1>3
       DEF IInv, TypeOK, CycleInv, Granted, Progress, Knowledge, Answer, CheckMarker
  <2> QED BY <1>3, <2>1, OneCycleMoves DEF TypeOK, CheckMarker
<1>4. ASSUME NEW c \in Cycle, CheckBroker(c) PROVE IInv'
  <2>1. CycleInv(c)'
    BY <1>0, <1>4, BrokerEffect
       DEF IInv, TypeOK, CycleInv, Granted, Progress, Knowledge, Answer
  <2>2. \A d \in Cycle \ {c} : pc'[d] = pc[d] /\ result'[d] = result[d]
    <3>1. ASSUME NEW r \in {"blocked", "error", "guarded", "no_op"}, Finish(c, r)
          PROVE  \A d \in Cycle \ {c} : pc'[d] = pc[d] /\ result'[d] = result[d]
      BY <3>1 DEF TypeOK
    <3>2. ASSUME Goto(c, "lock"), result' = result
          PROVE  \A d \in Cycle \ {c} : pc'[d] = pc[d] /\ result'[d] = result[d]
      BY <3>2 DEF TypeOK
    <3> QED BY <1>4, <3>1, <3>2, BrokerEffect
  <2>3. UNCHANGED <<req, tried, acquired, seen, marker, order>>
    BY <1>4, BrokerEffect
  <2> QED BY <2>1, <2>2, <2>3, OneCycleMoves
<1>5. ASSUME NEW c \in Cycle, CreateLock(c) PROVE IInv'
  <2>1. CycleInv(c)'
    BY <1>0, <1>5
       DEF IInv, TypeOK, CycleInv, Granted, Progress, Knowledge, Answer, CreateLock
  <2> QED BY <1>5, <2>1, OneCycleMoves DEF TypeOK, CreateLock
<1>6. ASSUME NEW c \in Cycle, WriteLock(c) PROVE IInv'
  <2>1. CycleInv(c)'
    BY <1>0, <1>6
       DEF IInv, TypeOK, CycleInv, Granted, Progress, Knowledge, Answer, WriteLock
  <2> QED BY <1>6, <2>1, OneCycleMoves DEF TypeOK, WriteLock
<1>7. ASSUME NEW c \in Cycle, NEW x \in Symbol, SkipIntent(c, x) PROVE IInv'
  <2>1. CycleInv(c)'
    BY <1>0, <1>7
       DEF IInv, TypeOK, CycleInv, Granted, Progress, Knowledge, Answer, SkipIntent
  <2> QED BY <1>7, <2>1, OneCycleMoves DEF TypeOK, SkipIntent
<1>8. ASSUME NEW c \in Cycle, NEW x \in Symbol, PreviewIntent(c, x) PROVE IInv'
  <2>1. CycleInv(c)'
    BY <1>0, <1>8
       DEF IInv, TypeOK, CycleInv, Granted, Progress, Knowledge, Answer, PreviewIntent
  <2> QED BY <1>8, <2>1, OneCycleMoves DEF TypeOK, PreviewIntent
<1>9. ASSUME NEW c \in Cycle, NEW x \in Symbol, Submit(c, x) PROVE IInv'
  <2>1. acquired[c] /\ tried[c] /\ result[c] = "none" /\ pc[c] # "done"
    BY <1>9 DEF IInv, TypeOK, CycleInv, Progress, Granted, Result, Submit
  <2>2. UNCHANGED <<req, tried, acquired, marker, owner>>
    BY <1>9 DEF Submit
  <2>3. Granted(c)'
    BY <1>0, <2>1, <2>2 DEF IInv, CycleInv, Granted
  <2>4. PICK s \in {"none", "working", "filled", "cancelled"} :
          order' = [order EXCEPT ![c][x] = s]
    BY <1>9 DEF Submit, Accepted, Refused, Raised
  <2>5. /\ \A d \in Cycle \ {c} : order'[d] = order[d]
        /\ \A y \in Symbol : order'[c][y] = IF y = x THEN s ELSE order[c][y]
    BY <2>4 DEF TypeOK
  <2>6. \A d \in Cycle \ {c} :
          pc'[d] = pc[d] /\ seen'[d] = seen[d] /\ result'[d] = result[d]
    <3>1. CASE Accepted(c, x)
      BY <3>1 DEF Accepted, TypeOK
    <3>2. CASE Refused(c, x)
      BY <3>2 DEF Refused, TypeOK
    <3>3. CASE Raised(c, x)
      BY <3>3 DEF Raised, TypeOK
    <3> QED BY <1>9, <3>1, <3>2, <3>3 DEF Submit
  <2>7. Progress(c)' /\ Knowledge(c)' /\ Answer(c)'
    <3> USE <1>0, <2>1, <2>2, <2>5
        DEF IInv, TypeOK, CycleInv, Progress, Knowledge, Answer
    <3>1. CASE Accepted(c, x)
      <4>1. pc'[c] = "orders" /\ seen'[c] = seen[c] \cup {"accepted"} /\ result' = result
        BY <3>1 DEF Accepted
      <4> QED BY <4>1
    <3>2. CASE Refused(c, x)
      <4>1. pc'[c] = "orders" /\ seen'[c] = seen[c] \cup {"failed"} /\ result' = result
        BY <3>2 DEF Refused
      <4>2. order'[c][x] \in {"none", "cancelled"}
        BY <3>2 DEF Refused
      <4>3. "accepted" \in seen'[c] <=> "accepted" \in seen[c]
        BY <4>1
      <4>5. "previewed" \in seen'[c] <=> "previewed" \in seen[c]
        BY <4>1
      <4>6. ASSUME NEW y \in Symbol, order'[c][y] \in {"working", "filled"}
            PROVE  "accepted" \in seen'[c]
        <5>1. y # x /\ order[c][y] \in {"working", "filled"}
          BY <4>2, <4>6
        <5> QED BY <4>3, <5>1
      <4>7. Knowledge(c)'
        BY <4>3, <4>5, <4>6
      <4>4. Progress(c)' /\ Answer(c)'
        BY <4>1
      <4> QED BY <4>4, <4>7
    <3>3. CASE Raised(c, x)
      <4>1. pc'[c] = "done" /\ seen'[c] = seen[c] /\ result'[c] = "error"
        BY <3>3 DEF Raised
      <4> QED BY <4>1
    <3> QED BY <1>9, <3>1, <3>2, <3>3 DEF Submit
  <2>8. CycleInv(c)'
    <3>1. \A y \in Symbol : order'[c][y] # "none" => acquired'[c]
      BY <2>1, <2>2
    <3>2. acquired'[c] => Granted(c)'
      BY <2>3
    <3> QED BY <2>7, <3>1, <3>2 DEF CycleInv
  <2> QED BY <2>2, <2>5, <2>6, <2>8, OneCycleMoves
<1>10. ASSUME NEW c \in Cycle, BeginClaim(c) PROVE IInv'
  <2>1. CycleInv(c)'
    <3>1. ~acquired[c] /\ result[c] = "none" /\ ~req[c].dry
      BY <1>10 DEF IInv, TypeOK, CycleInv, Granted, Progress, BeginClaim, Result
    <3>2. /\ UNCHANGED <<req, acquired, seen, owner, order>>
          /\ tried'[c] = TRUE
      BY <1>10 DEF BeginClaim, TypeOK
    <3>3. CASE Config(c).dedup /\ Config(c).account # NoAccount
      <4>1. pc'[c] = "owner" /\ result'[c] = "none"
        BY <1>10, <3>1, <3>3 DEF BeginClaim, TypeOK
      <4>2. Config(c).account \in Account
        BY <3>3, KeyType
      <4>3. Progress(c)' /\ Knowledge(c)'
        BY <1>0, <1>10, <3>1, <3>2, <3>3, <4>1, <4>2
           DEF IInv, CycleInv, Progress, Knowledge, BeginClaim
      <4> QED BY <3>1, <3>2, <4>1, <4>3 DEF IInv, CycleInv, Answer
    <3>4. CASE pc'[c] = "done" /\ result'[c] = "error"
      BY <1>0, <1>10, <3>1, <3>2, <3>4
         DEF IInv, CycleInv, Progress, Knowledge, Answer
    <3> QED BY <1>10, <3>3, <3>4 DEF BeginClaim, TypeOK
  <2> QED BY <1>10, <2>1, OneCycleMoves DEF TypeOK, BeginClaim
<1>11. ASSUME NEW c \in Cycle, ClaimOwner(c) PROVE IInv'
  <2>1. CycleInv(c)'
    BY <1>0, <1>11
       DEF IInv, TypeOK, CycleInv, Granted, Progress, Knowledge, Answer, ClaimOwner
  <2> QED BY <1>11, <2>1, OneCycleMoves DEF TypeOK, ClaimOwner
<1>12. ASSUME NEW c \in Cycle, EndOrders(c) PROVE IInv'
  <2>1. CycleInv(c)'
    BY <1>0, <1>12
       DEF IInv, TypeOK, CycleInv, Granted, Progress, Knowledge, Answer, EndOrders
  <2> QED BY <1>12, <2>1, OneCycleMoves DEF TypeOK, EndOrders
<1>13. ASSUME NEW c \in Cycle, PersistReport(c) PROVE IInv'
  <2>1. CycleInv(c)'
    BY <1>0, <1>13
       DEF IInv, TypeOK, CycleInv, Granted, Progress, Knowledge, Answer, PersistReport
  <2> QED BY <1>13, <2>1, OneCycleMoves DEF TypeOK, PersistReport
<1>14. ASSUME NEW c \in Cycle, KillWorker(c) PROVE IInv'
  <2>1. CycleInv(c)'
    BY <1>0, <1>14
       DEF IInv, TypeOK, CycleInv, Granted, Progress, Knowledge, Answer, KillWorker
  <2> QED BY <1>14, <2>1, OneCycleMoves DEF TypeOK, KillWorker
<1>15. ASSUME NEW c \in Cycle, NEW x \in Symbol, SettleOrder(c, x) PROVE IInv'
  <2>1. CycleInv(c)'
    BY <1>0, <1>15
       DEF IInv, TypeOK, CycleInv, Granted, Progress, Knowledge, Answer, SettleOrder
  <2> QED BY <1>15, <2>1, OneCycleMoves DEF TypeOK, SettleOrder
<1>16. ASSUME NEW c \in Cycle, ClaimMarker(c) PROVE IInv'
  <2>1. KeyOf(c) \in Key /\ pc[c] = "marker" /\ ~acquired[c]
    BY <1>16, KeyType DEF ClaimMarker, IInv, CycleInv, Progress
  <2>2. tried[c] /\ ~req[c].dry
    BY <2>1 DEF IInv, CycleInv, Progress
  <2>3. \/ /\ marker[KeyOf(c)] = "absent"
           /\ marker' = [marker EXCEPT ![KeyOf(c)] = "claimed"]
           /\ acquired' = [acquired EXCEPT ![c] = TRUE]
        \/ acquired' = acquired
    BY <1>16 DEF ClaimMarker
  <2>4. OneGrantPerKey'
    <3>1. ASSUME NEW d \in Cycle, acquired[d], marker[KeyOf(c)] = "absent"
          PROVE  KeyOf(d) # KeyOf(c)
      BY <3>1 DEF IInv, CycleInv, Granted
    <3> QED BY <1>0, <2>3, <3>1 DEF IInv, OneGrantPerKey, TypeOK
  <2>5. LiveMarkersComeFromSubmitters'
    <3>1. UNCHANGED <<req, tried>>
      BY <1>16 DEF ClaimMarker
    <3>2. ASSUME NEW k \in Key, marker'[k] # "absent" PROVE marker[k] # "absent" \/ k = KeyOf(c)
      BY <1>16, <2>1, <3>2 DEF ClaimMarker, TypeOK
    <3> QED BY <1>0, <2>2, <3>1, <3>2 DEF IInv, LiveMarkersComeFromSubmitters
  <2>6. CycleInv(c)'
    BY <1>0, <1>16, <2>1
       DEF IInv, TypeOK, CycleInv, Granted, Progress, Knowledge, Answer, ClaimMarker
  <2>7. ASSUME NEW d \in Cycle \ {c} PROVE CycleInv(d)'
    BY <1>16, Untouched DEF ClaimMarker, TypeOK
  <2> QED BY <2>4, <2>5, <2>6, <2>7 DEF IInv
<1>17. ASSUME NEW c \in Cycle, RecordMarker(c) PROVE IInv'
  <2>1. KeyOf(c) \in Key
    BY KeyType
  <2>2. UNCHANGED <<req, tried, acquired>>
    BY <1>17 DEF RecordMarker
  <2>3. OneGrantPerKey'
    BY <1>0, <2>2 DEF IInv, OneGrantPerKey
  <2>4. LiveMarkersComeFromSubmitters'
    <3>1. CASE UNCHANGED marker
      BY <1>0, <2>2, <3>1 DEF IInv, LiveMarkersComeFromSubmitters
    <3>2. CASE /\ seen[c] \cap {"accepted", "previewed"} # {}
               /\ marker' = [marker EXCEPT ![KeyOf(c)] = "recorded"]
      <4>1. req[c].dry \/ tried[c]
        BY <3>2 DEF IInv, CycleInv, Knowledge, Granted
      <4>2. KeyOf(c).mode = "live" => ~req[c].dry
        BY DEF KeyOf
      <4>3. ASSUME NEW k \in Key, marker'[k] # "absent" PROVE marker[k] # "absent" \/ k = KeyOf(c)
        BY <2>1, <3>2, <4>3 DEF TypeOK
      <4> QED BY <1>0, <2>2, <4>1, <4>2, <4>3 DEF IInv, LiveMarkersComeFromSubmitters
    <3> QED BY <1>17, <3>1, <3>2 DEF RecordMarker
  <2>5. CycleInv(c)'
    <3>1. acquired[c] => Granted(c)'
      BY <1>0, <1>17, <2>2, KeyType DEF IInv, CycleInv, Granted, RecordMarker, StoreGrows
    <3>2. seen[c] \subseteq {"accepted", "failed", "previewed"}
      BY DEF TypeOK
    <3> QED
      BY <1>0, <1>17, <3>1, <3>2
         DEF IInv, TypeOK, CycleInv, Progress, Knowledge, Answer, RecordMarker
  <2>6. ASSUME NEW d \in Cycle \ {c} PROVE CycleInv(d)'
    BY <1>17, Untouched DEF RecordMarker, TypeOK
  <2> QED BY <2>3, <2>4, <2>5, <2>6 DEF IInv
<1>18. ASSUME NEW i \in Instance, ReplaceInstance(i) PROVE IInv'
  <2>1. UNCHANGED <<req, tried, acquired, seen, marker, owner, order>>
    BY <1>18 DEF ReplaceInstance
  <2>2. OneGrantPerKey' /\ LiveMarkersComeFromSubmitters'
    BY <1>0, <2>1 DEF IInv, OneGrantPerKey, LiveMarkersComeFromSubmitters
  <2>3. ASSUME NEW c \in Cycle PROVE CycleInv(c)'
    BY <1>0, <1>18, <2>1
       DEF IInv, CycleInv, Granted, Progress, Knowledge, Answer, ReplaceInstance, Running
  <2> QED BY <2>2, <2>3 DEF IInv
<1>19. CASE UNCHANGED vars
  <2>1. OneGrantPerKey' /\ LiveMarkersComeFromSubmitters'
    BY <1>0, <1>19 DEF vars, IInv, OneGrantPerKey, LiveMarkersComeFromSubmitters
  <2> QED BY <1>19, <2>1, Untouched DEF vars, IInv
<1> QED
  BY <1>1, <1>2, <1>3, <1>4, <1>5, <1>6, <1>7, <1>8, <1>9, <1>10, <1>11, <1>12,
     <1>13, <1>14, <1>15, <1>16, <1>17, <1>18, <1>19
     DEF Next, CycleStep, Environment, Quiescent

\* The invariant holds in every reachable state.
LEMMA Inductive == Spec => []IInv
<1>1. Init => IInv
  BY InitIInv
<1>2. IInv /\ [Next]_vars => IInv'
  BY StepIInv
<1> QED BY <1>1, <1>2, PTL DEF Spec

-----------------------------------------------------------------------------
(* What it implies. *)

\* Every variable keeps its type.
THEOREM TypeCorrect == Spec => []TypeOK
<1>1. IInv => TypeOK
  BY DEF IInv
<1> QED BY <1>1, Inductive, PTL

\* At most one cycle ever places orders for an execution key: two that did were
\* both granted the claim of that key.
THEOREM SubmitOnce == Spec => []OneSubmitterPerKey
<1>1. IInv => OneSubmitterPerKey
  BY DEF IInv, CycleInv, OneGrantPerKey, OneSubmitterPerKey, Placed
<1> QED BY <1>1, Inductive, PTL

\* All orders on one broker account come from the profile that owns it.
THEOREM AccountFenced == Spec => []OneProfilePerAccount
<1>1. IInv => OneProfilePerAccount
  BY DEF IInv, CycleInv, Granted, OneProfilePerAccount, Placed
<1> QED BY <1>1, Inductive, PTL

\* A container whose configuration cannot be fenced places no order.
THEOREM FailsClosed == Spec => []FailClosed
<1>1. IInv => FailClosed
  BY DEF IInv, CycleInv, Granted, FailClosed, Placed
<1> QED BY <1>1, Inductive, PTL

\* A live marker was written by a live cycle that wanted to submit an order.
THEOREM LiveMarkersAccounted == Spec => []LiveMarkersComeFromSubmitters
<1>1. IInv => LiveMarkersComeFromSubmitters
  BY DEF IInv
<1> QED BY <1>1, Inductive, PTL

\* A cycle that answers that it did nothing has claimed and placed nothing, and one that
\* answers "Blocked" leaves no order working or filled.
THEOREM AnswersTrue == Spec => []AnswersAreTrue
<1>1. IInv => AnswersAreTrue
  BY DEF IInv, CycleInv, Granted, Answer, AnswersAreTrue, Placed
<1> QED BY <1>1, Inductive, PTL

\* Only Submit gives a cycle's symbol an order it did not have.
LEMMA OnlySubmitPlaces ==
  ASSUME TypeOK, [Next]_vars, NEW c \in Cycle, NEW x \in Symbol,
         order[c][x] = "none", order'[c][x] # "none"
  PROVE  \E y \in Symbol : Submit(c, y)
<1> USE DEF cycleVars, storeVars
<1>1. order' # order
  OBVIOUS
<1>2. ~UNCHANGED vars
  BY <1>1 DEF vars
<1>3. PICK d \in Cycle, y \in Symbol : Submit(d, y) \/ SettleOrder(d, y)
  BY <1>1, <1>2, BrokerEffect
     DEF Next, CycleStep, Environment, Quiescent, Start, StopBeforeDedup,
         CheckMarker, CreateLock, WriteLock, SkipIntent, PreviewIntent, BeginClaim,
         ClaimOwner, ClaimMarker, EndOrders, RecordMarker, PersistReport, KillWorker,
         ReplaceInstance
<1>4. PICK s : order' = [order EXCEPT ![d][y] = s]
  BY <1>3 DEF Submit, Accepted, Refused, Raised, SettleOrder
<1>5. d = c /\ y = x
  BY <1>4 DEF TypeOK
<1>6. ~SettleOrder(d, y)
  BY <1>5 DEF SettleOrder
<1> QED BY <1>3, <1>5, <1>6

\* Whenever an order goes out, the claim and the account's owner are already in
\* the store.
THEOREM ClaimFirst == Spec => ClaimPrecedesSubmission
<1> DEFINE claimed ==
      \A c \in Cycle, x \in Symbol :
        order[c][x] = "none" /\ order'[c][x] # "none"
          => /\ marker[KeyOf(c)] # "absent"
             /\ owner[Config(c).account] = Config(c).profile
<1>1. IInv /\ [Next]_vars => claimed
  <2> SUFFICES ASSUME IInv, [Next]_vars, NEW c \in Cycle, NEW x \in Symbol,
                      order[c][x] = "none", order'[c][x] # "none"
               PROVE  /\ marker[KeyOf(c)] # "absent"
                      /\ owner[Config(c).account] = Config(c).profile
    OBVIOUS
  <2>1. PICK y \in Symbol : Submit(c, y)
    BY OnlySubmitPlaces DEF IInv
  <2>2. acquired[c]
    BY <2>1 DEF Submit, IInv, CycleInv, Progress
  <2> QED BY <2>2 DEF IInv, CycleInv, Granted
<1> QED BY <1>1, Inductive, PTL DEF Spec, ClaimPrecedesSubmission

-----------------------------------------------------------------------------
(* The refinement of OneShotExecution.  The steps that matter are the       *)
(* granted claim (Award), the claim whose answer is lost and the record of  *)
(* a dry run (Burn) and the submission (Place); every other step is         *)
(* invisible.                                                               *)

(* A symbol the order loop has not reached has no order of the cycle.  *)

Fresh == \A c \in Cycle, x \in Symbol : x \in todo[c] => order[c][x] = "none"

\* Initially and after every step.
LEMMA FreshStep == IInv /\ Fresh /\ [Next]_vars => Fresh'
<1> SUFFICES ASSUME IInv, Fresh, [Next]_vars PROVE Fresh'
  OBVIOUS
<1> TypeOK
  BY DEF IInv
<1> USE DEF Fresh, TypeOK, cycleVars, storeVars
<1>1. ASSUME order' = order, \A c \in Cycle : todo'[c] \subseteq todo[c]
      PROVE  Fresh'
  BY <1>1
<1>2. ASSUME NEW c \in Cycle, CheckBroker(c) PROVE Fresh'
  <2>1. order' = order /\ \A x \in Symbol : order[c][x] = "none"
    BY <1>2, BrokerEffect DEF IInv, CycleInv, Granted, Progress
  <2>2. \A d \in Cycle \ {c} : todo'[d] = todo[d]
    <3>1. ASSUME NEW scope, todo' = [todo EXCEPT ![c] = scope]
          PROVE  \A d \in Cycle \ {c} : todo'[d] = todo[d]
      BY <3>1
    <3> QED BY <1>2, <3>1, BrokerEffect
  <2> QED BY <2>1, <2>2
<1>3. ASSUME NEW c \in Cycle, NEW x \in Symbol, Submit(c, x) PROVE Fresh'
  <2>1. PICK s : order' = [order EXCEPT ![c][x] = s]
    BY <1>3 DEF Submit, Accepted, Refused, Raised
  <2>2. todo' = [todo EXCEPT ![c] = @ \ {x}]
    BY <1>3 DEF Submit
  <2> QED BY <2>1, <2>2
<1>4. ASSUME NEW c \in Cycle, NEW x \in Symbol, SettleOrder(c, x) PROVE Fresh'
  <2>1. PICK s : order' = [order EXCEPT ![c][x] = s]
    BY <1>4 DEF SettleOrder
  <2>2. x \notin todo[c] /\ todo' = todo
    BY <1>4 DEF SettleOrder
  <2> QED BY <2>1, <2>2
<1>5. ASSUME NEW c \in Cycle, NEW x \in Symbol, SkipIntent(c, x) \/ PreviewIntent(c, x)
      PROVE  Fresh'
  BY <1>1, <1>5 DEF SkipIntent, PreviewIntent
<1>6. CASE UNCHANGED <<todo, order>>
  BY <1>1, <1>6
<1> QED
  BY <1>2, <1>3, <1>4, <1>5, <1>6
     DEF Next, CycleStep, Environment, Quiescent, vars, Start, StopBeforeDedup,
         CheckMarker, CreateLock, WriteLock, BeginClaim, ClaimOwner, ClaimMarker,
         EndOrders, RecordMarker, PersistReport, KillWorker, ReplaceInstance

-----------------------------------------------------------------------------
(* The refinement mapping. *)

\* Who holds a key.
LEMMA HolderOfKey ==
  ASSUME OneGrantPerKey, NEW k \in Key
  PROVE  /\ \A c \in Cycle : acquired[c] /\ KeyOf(c) = k => holderBar[k] = c
         /\ (\A c \in Cycle : ~(acquired[c] /\ KeyOf(c) = k))
              => holderBar[k] = IF marker[k] # "absent" THEN Burnt ELSE Nobody
<1>1. ASSUME NEW c \in Cycle, acquired[c], KeyOf(c) = k
      PROVE  holderBar[k] = c
  <2>1. Holders(k) = {c}
    BY <1>1 DEF Holders, OneGrantPerKey
  <2> QED BY <2>1 DEF holderBar
<1>2. ASSUME \A c \in Cycle : ~(acquired[c] /\ KeyOf(c) = k)
      PROVE  holderBar[k] = IF marker[k] # "absent" THEN Burnt ELSE Nobody
  <2>1. Holders(k) = {}
    BY <1>2 DEF Holders
  <2> QED BY <2>1 DEF holderBar
<1> QED BY <1>1, <1>2

\* A step that grants nothing and writes no marker moves no key.
LEMMA HolderKept ==
  ASSUME UNCHANGED <<req, acquired, marker>>
  PROVE  holderBar' = holderBar
<1>1. \A c : KeyOf(c)' = KeyOf(c)
  BY DEF KeyOf, Config
<1>2. ASSUME NEW k \in Key PROVE holderBar'[k] = holderBar[k]
  <2>1. Holders(k)' = Holders(k)
    BY <1>1 DEF Holders
  <2> QED BY <2>1 DEF holderBar
<1> QED BY <1>2 DEF holderBar

\* The orders of the abstract specification move only with the broker's.
LEMMA PlacedKept ==
  ASSUME order' = order
  PROVE  placedBar' = placedBar
BY DEF placedBar

\* A marker written for a key burns the key if it was free and changes nothing
\* otherwise.
LEMMA MarkerBurns ==
  ASSUME IInv, IInv', UNCHANGED <<req, acquired, order>>, NEW k \in Key, NEW m,
         m # "absent", marker' = [marker EXCEPT ![k] = m]
  PROVE  [OneShot!Next]_<<holderBar, placedBar>>
<1>1. \A c : KeyOf(c)' = KeyOf(c)
  BY DEF KeyOf, Config
<1>2. placedBar' = placedBar
  BY PlacedKept
<1>3. marker'[k] = m /\ \A j \in Key \ {k} : marker'[j] = marker[j]
  BY DEF IInv, TypeOK
<1>4. ASSUME NEW j \in Key \ {k} PROVE holderBar'[j] = holderBar[j]
  <2>1. Holders(j)' = Holders(j)
    BY <1>1 DEF Holders
  <2> QED BY <1>3, <2>1 DEF holderBar
<1>5. CASE marker[k] = "absent"
  <2>1. Holders(k) = {} /\ Holders(k)' = {}
    BY <1>1, <1>5 DEF Holders, IInv, CycleInv, Granted
  <2>2. holderBar[k] = Nobody /\ holderBar'[k] = Burnt
    BY <1>3, <1>5, <2>1 DEF holderBar
  <2>3. holderBar' = [holderBar EXCEPT ![k] = Burnt]
    BY <1>4, <2>2 DEF holderBar
  <2> QED BY <1>2, <2>2, <2>3 DEF OneShot!Next, OneShot!Burn
<1>6. CASE marker[k] # "absent"
  <2>1. Holders(k)' = Holders(k)
    BY <1>1 DEF Holders
  <2>2. holderBar'[k] = holderBar[k]
    BY <1>3, <1>6, <2>1 DEF holderBar
  <2>3. holderBar' = holderBar
    BY <1>4, <2>2 DEF holderBar
  <2> QED BY <1>2, <2>3
<1> QED BY <1>5, <1>6

\* A granted claim awards the key.
LEMMA GrantAwards ==
  ASSUME IInv, IInv', NEW c \in Cycle, ClaimMarker(c), acquired' # acquired
  PROVE  OneShot!Award(KeyOf(c), c)
<1> DEFINE k == KeyOf(c)
<1>1. /\ marker[k] = "absent"
      /\ marker' = [marker EXCEPT ![k] = "claimed"]
      /\ acquired' = [acquired EXCEPT ![c] = TRUE]
      /\ UNCHANGED <<req, order>>
      /\ ~acquired[c]
  BY DEF ClaimMarker, IInv, CycleInv, Progress
<1>2. k \in Key /\ \A d : KeyOf(d)' = KeyOf(d)
  BY <1>1, KeyType DEF IInv, KeyOf, Config
<1>3. Holders(k) = {} /\ Holders(k)' = {c}
  BY <1>1, <1>2 DEF Holders, IInv, TypeOK, CycleInv, Granted
<1>4. holderBar[k] = Nobody /\ holderBar'[k] = c
  BY <1>1, <1>2, <1>3 DEF holderBar
<1>5. ASSUME NEW j \in Key \ {k} PROVE holderBar'[j] = holderBar[j]
  <2>1. Holders(j)' = Holders(j)
    BY <1>1, <1>2 DEF Holders, IInv, TypeOK
  <2>2. marker'[j] = marker[j]
    BY <1>1, <1>2 DEF IInv, TypeOK
  <2> QED BY <2>1, <2>2 DEF holderBar
<1>6. holderBar' = [holderBar EXCEPT ![k] = c]
  BY <1>4, <1>5 DEF holderBar
<1>7. ASSUME NEW j \in Key PROVE holderBar[j] # c
  <2>1. CASE Holders(j) = {}
    BY <2>1, HolderAssumption DEF holderBar
  <2>2. CASE Holders(j) # {}
    <3>1. holderBar[j] \in Holders(j)
      BY <2>2 DEF holderBar
    <3> QED BY <1>1, <3>1 DEF Holders
  <2> QED BY <2>1, <2>2
<1>8. placedBar' = placedBar
  BY <1>1, PlacedKept
<1> QED BY <1>4, <1>6, <1>7, <1>8 DEF OneShot!Award

\* A submission places an order of the cycle that holds its key, or none.
LEMMA SubmitPlaces ==
  ASSUME IInv, Fresh, NEW c \in Cycle, NEW x \in Symbol, Submit(c, x)
  PROVE  OneShot!Place(KeyOf(c), c, x) \/ UNCHANGED <<holderBar, placedBar>>
<1>1. acquired[c] /\ order[c][x] = "none"
  BY DEF Submit, Fresh, IInv, CycleInv, Progress
<1>2. KeyOf(c) \in Key /\ holderBar[KeyOf(c)] = c
  BY <1>1, KeyType, HolderOfKey DEF IInv
<1>3. holderBar' = holderBar
  BY HolderKept DEF Submit, storeVars
<1>4. PICK s : order' = [order EXCEPT ![c][x] = s]
  BY DEF Submit, Accepted, Refused, Raised
<1>5. <<c, x>> \notin placedBar
  BY <1>1 DEF placedBar
<1>6. CASE s = "none"
  <2>1. order' = order
    BY <1>1, <1>4, <1>6 DEF IInv, TypeOK
  <2> QED BY <1>3, <2>1, PlacedKept
<1>7. CASE s # "none"
  <2>1. placedBar' = placedBar \cup {<<c, x>>}
    <3>1. ASSUME NEW v \in Cycle \X Symbol
          PROVE  order'[v[1]][v[2]] # "none" <=> order[v[1]][v[2]] # "none" \/ v = <<c, x>>
      <4>1. CASE v = <<c, x>>
        BY <1>4, <1>7, <4>1 DEF IInv, TypeOK
      <4>2. CASE v # <<c, x>>
        <5>1. v[1] # c \/ v[2] # x
          BY <4>2
        <5> QED BY <1>4, <4>2, <5>1 DEF IInv, TypeOK
      <4> QED BY <4>1, <4>2
    <3> QED BY <3>1 DEF placedBar
  <2> QED BY <1>2, <1>3, <1>5, <2>1 DEF OneShot!Place
<1> QED BY <1>6, <1>7

-----------------------------------------------------------------------------
(* The theorem. *)

\* Initial states map to initial states.
LEMMA InitMaps == Init => OneShot!Init
<1> SUFFICES ASSUME Init PROVE OneShot!Init
  OBVIOUS
<1>1. \A k : Holders(k) = {}
  BY DEF Init, Holders
<1>2. holderBar = [k \in Key |-> Nobody]
  BY <1>1 DEF Init, holderBar
<1>3. placedBar = {}
  BY DEF Init, placedBar
<1> QED BY <1>2, <1>3 DEF OneShot!Init

\* Every step maps to a step or a stutter.
LEMMA StepMaps ==
  IInv /\ IInv' /\ Fresh /\ [Next]_vars => [OneShot!Next]_<<holderBar, placedBar>>
<1> SUFFICES ASSUME IInv, IInv', Fresh, [Next]_vars
             PROVE  [OneShot!Next]_<<holderBar, placedBar>>
  OBVIOUS
<1> USE DEF cycleVars, storeVars
<1>1. CASE UNCHANGED <<req, acquired, marker, order>>
  BY <1>1, HolderKept, PlacedKept
<1>2. ASSUME NEW c \in Cycle, NEW x \in Symbol, Submit(c, x)
      PROVE  [OneShot!Next]_<<holderBar, placedBar>>
  BY <1>2, SubmitPlaces, KeyType DEF OneShot!Next, IInv
<1>3. ASSUME NEW c \in Cycle, ClaimMarker(c)
      PROVE  [OneShot!Next]_<<holderBar, placedBar>>
  <2>1. KeyOf(c) \in Key
    BY KeyType DEF IInv
  <2>2. CASE acquired' # acquired
    BY <1>3, <2>1, <2>2, GrantAwards DEF OneShot!Next
  <2>3. CASE acquired' = acquired /\ marker' = [marker EXCEPT ![KeyOf(c)] = "claimed"]
    BY <1>3, <2>1, <2>3, MarkerBurns DEF ClaimMarker
  <2>4. CASE UNCHANGED <<acquired, marker>>
    BY <1>1, <1>3, <2>4 DEF ClaimMarker
  <2> QED BY <1>3, <2>2, <2>3, <2>4 DEF ClaimMarker
<1>4. ASSUME NEW c \in Cycle, RecordMarker(c)
      PROVE  [OneShot!Next]_<<holderBar, placedBar>>
  <2>1. KeyOf(c) \in Key
    BY KeyType DEF IInv
  <2>2. CASE marker' = [marker EXCEPT ![KeyOf(c)] = "recorded"]
    BY <1>4, <2>1, <2>2, MarkerBurns DEF RecordMarker
  <2>3. CASE marker' = marker
    BY <1>1, <1>4, <2>3 DEF RecordMarker
  <2> QED BY <1>4, <2>2, <2>3 DEF RecordMarker
<1>5. ASSUME NEW c \in Cycle, NEW x \in Symbol, SettleOrder(c, x)
      PROVE  UNCHANGED <<holderBar, placedBar>>
  <2>1. holderBar' = holderBar
    BY <1>5, HolderKept DEF SettleOrder
  <2>2. PICK s \in {"filled", "cancelled"} : order' = [order EXCEPT ![c][x] = s]
    BY <1>5 DEF SettleOrder
  <2>3. ASSUME NEW v \in Cycle \X Symbol
        PROVE  order'[v[1]][v[2]] # "none" <=> order[v[1]][v[2]] # "none"
    <3>1. order[c][x] # "none"
      BY <1>5 DEF SettleOrder
    <3>2. CASE v[1] = c /\ v[2] = x
      BY <2>2, <3>1, <3>2 DEF IInv, TypeOK
    <3>3. CASE v[1] # c \/ v[2] # x
      BY <2>2, <3>3 DEF IInv, TypeOK
    <3> QED BY <3>2, <3>3
  <2>4. placedBar' = placedBar
    BY <2>3 DEF placedBar
  <2> QED BY <2>1, <2>4
<1>6. ASSUME NEW c \in Cycle, CheckBroker(c)
      PROVE  UNCHANGED <<req, acquired, marker, order>>
  BY <1>6, BrokerEffect
<1> QED
  BY <1>1, <1>2, <1>3, <1>4, <1>5, <1>6
     DEF Next, CycleStep, Environment, Quiescent, vars, Start, StopBeforeDedup,
         CheckMarker, CreateLock, WriteLock, SkipIntent, PreviewIntent, BeginClaim,
         ClaimOwner, EndOrders, PersistReport, KillWorker, ReplaceInstance

\* The protocol only ever does what the one-shot specification allows: a key is
\* given once, to one cycle, and only that cycle places orders for it.
THEOREM Implements == Spec => ImplementsOneShot
<1>1. Init => Fresh
  BY DEF Init, Fresh
<1>2. Init => OneShot!Init
  BY InitMaps
<1>3. IInv /\ Fresh /\ [Next]_vars => Fresh'
  BY FreshStep
<1>4. IInv /\ IInv' /\ Fresh /\ [Next]_vars => [OneShot!Next]_<<holderBar, placedBar>>
  BY StepMaps
<1> QED
  BY <1>1, <1>2, <1>3, <1>4, Inductive, PTL DEF Spec, ImplementsOneShot, OneShot!Spec
=============================================================================
