-------------------------- MODULE PaperLiquidation --------------------------
(***************************************************************************)
(* Clearing a paper account (run_paper_liquidation_cycle of                *)
(* application/runtime_broker_adapters.py, application/                    *)
(* paper_liquidation_service.py) through the new-risk gate                 *)
(* (application/account_new_risk_gate_support.py,                          *)
(* application/ibkr_order_execution.py).                                   *)
(*                                                                         *)
(* The gate judges purchases by a snapshot the process keeps in a module   *)
(* variable.  Only execute_rebalance sets it: a liquidation finds the one  *)
(* of an earlier dry run, or none.  There is no claim and no look at open  *)
(* orders; what protects the account is that the route is called when      *)
(* nothing is working.  Quantities count half shares: the scale of a       *)
(* reducing gate is one half.                                              *)
(***************************************************************************)
EXTENDS Integers

CONSTANTS
  Symbol,
  Initial,       \* bound: positions at the start
  MaxCalls,      \* bound: calls of the service
  Patient        \* is the account cleared only when no order is working?

ASSUME LiquidationAssumption ==
  /\ Initial \subseteq Int
  /\ MaxCalls \in Nat
  /\ Patient \in BOOLEAN

VARIABLES
  start,      \* the positions the account had at first
  position,   \* the broker: positions
  selling, buying,  \* the broker: what working orders may still trade
  snapshot,   \* the verdict of _cycle_snapshot
  pc, dry,    \* the liquidation in progress, and whether it is a preview
  view,       \* the positions it has read
  todo,       \* its intents not yet submitted
  refused,    \* the broker refused one of its orders, or let it expire
  missed,     \* it read positions that had not all arrived
  submitted,  \* orders_submitted of its summary
  status,     \* execution_status of its summary
  calls

brokerVars == <<start, position, selling, buying>>
summaryVars == <<refused, missed, submitted, status>>
vars == <<brokerVars, snapshot, pc, dry, view, todo, summaryVars, calls>>

TypeOK ==
  /\ start \in [Symbol -> Int] /\ position \in [Symbol -> Int]
  /\ selling \in [Symbol -> Nat] /\ buying \in [Symbol -> Nat]
  /\ snapshot \in {"none", "normal", "reduced", "prohibited"}
  /\ pc \in {"idle", "read", "reread", "submit"}
  /\ dry \in BOOLEAN
  /\ view \in [Symbol -> Int]
  /\ todo \subseteq Symbol
  /\ refused \in BOOLEAN /\ missed \in BOOLEAN
  /\ submitted \subseteq Symbol
  /\ status \in {"none", "no_op", "dry_run", "executing", "submitted", "blocked", "error"}
  /\ calls \in 0 .. MaxCalls

Init ==
  /\ start \in [Symbol -> Initial]
  /\ position = start
  /\ selling = [s \in Symbol |-> 0] /\ buying = [s \in Symbol |-> 0]
  /\ snapshot = "none"
  /\ pc = "idle" /\ dry = TRUE
  /\ view = [s \in Symbol |-> 0] /\ todo = {}
  /\ refused = FALSE /\ missed = FALSE /\ submitted = {} /\ status = "none"
  /\ calls = 0

NothingWorks == \A s \in Symbol : selling[s] = 0 /\ buying[s] = 0

-----------------------------------------------------------------------------

Call ==
  /\ pc = "idle" /\ calls < MaxCalls
  /\ calls' = calls + 1

\* POST /dry-run: a rebalance that sends nothing.  It binds the snapshot to what
\* the account says, unless it ends before.
Rehearse ==
  /\ Call
  /\ snapshot' \in {snapshot, "normal", "reduced", "prohibited"}
  /\ UNCHANGED <<brokerVars, pc, dry, view, todo, summaryVars>>

\* POST /run with PAPER_LIQUIDATE_ONLY, as a preview or not.
Liquidate ==
  /\ Call
  /\ dry' \in IF Patient /\ ~NothingWorks THEN {TRUE} ELSE BOOLEAN
  /\ pc' = "read"
  /\ refused' = FALSE /\ missed' = FALSE /\ submitted' = {} /\ status' = "none"
  /\ UNCHANGED <<brokerVars, snapshot, view, todo>>

\* build_liquidation_intents
Intents(seen) == {s \in Symbol : seen[s] # 0}

\* execute_paper_liquidation, up to its first submission.
Begin(intents) ==
  IF intents = {} \/ dry
  THEN /\ pc' = "idle"
       /\ status' = IF intents = {} THEN "no_op" ELSE "dry_run"
       /\ submitted' = intents
       /\ UNCHANGED todo
  ELSE /\ pc' = "submit" /\ todo' = intents
       /\ status' = "executing"
       /\ UNCHANGED submitted

\* The positions that have arrived when get_current_portfolio looks; without any
\* it looks once more.
Read ==
  /\ pc \in {"read", "reread"}
  /\ \E arrived \in SUBSET Symbol :
       /\ view' = [s \in Symbol |-> IF s \in arrived THEN position[s] ELSE 0]
       /\ missed' = (\E s \in Symbol \ arrived : position[s] # 0)
  /\ IF Intents(view') = {} /\ pc = "read"
     THEN pc' = "reread" /\ UNCHANGED <<todo, submitted, status>>
     ELSE Begin(Intents(view'))
  /\ UNCHANGED <<brokerVars, snapshot, dry, refused, calls>>

Prohibited == snapshot \in {"none", "prohibited"}

\* The gate rejects a purchase, one that covers a short included.
GateRejects(s) == view[s] < 0 /\ Prohibited

\* Mutant of Quantity: the quantity keeps the sign of the position.
QuantitySigned(s) == view[s]

\* The quantity of an intent.
Quantity(s) == IF view[s] > 0 THEN view[s] ELSE -view[s]

\* apply_combined_scale
Scaled(quantity) == IF snapshot = "reduced" THEN quantity \div 2 ELSE quantity

\* Mutant of Ordered: a reducing gate scales sales too.
OrderedScaled(s) == Scaled(Quantity(s))

\* The quantity of the order an intent becomes.
Ordered(s) == IF view[s] > 0 THEN Quantity(s) ELSE Scaled(Quantity(s))

\* What submitting the intent of s puts to work at the broker.
Place(s) ==
  IF view[s] > 0
  THEN selling' = [selling EXCEPT ![s] = @ + Ordered(s)] /\ UNCHANGED buying
  ELSE buying' = [buying EXCEPT ![s] = @ + Ordered(s)] /\ UNCHANGED selling

\* Mutant of Submit: a call that raises leaves its intent to the next attempt.
SubmitRetried(s) ==
  /\ pc = "submit" /\ s \in todo
  /\ ~GateRejects(s) /\ Place(s)
  /\ todo' \in {todo, todo \ {s}}
  /\ submitted' = submitted \cup {s}
  /\ UNCHANGED <<start, position, snapshot, dry, view, missed, calls, pc, refused, status>>

\* An intent is submitted.  It is accepted; or rejected, by the gate or by the
\* broker; or the call raises, whether or not the broker took the order.
Submit(s) ==
  /\ pc = "submit" /\ s \in todo
  /\ \/ /\ ~GateRejects(s) /\ Place(s)
        /\ submitted' = submitted \cup {s} /\ todo' = todo \ {s}
        /\ UNCHANGED <<pc, refused, status>>
     \/ /\ refused' = (refused \/ ~GateRejects(s))
        /\ todo' = todo \ {s}
        /\ UNCHANGED <<selling, buying, pc, submitted, status>>
     \/ /\ ~GateRejects(s)
        /\ Place(s) \/ UNCHANGED <<selling, buying>>
        /\ refused' = TRUE /\ todo' = {}
        /\ pc' = "idle" /\ status' = "error"
        /\ UNCHANGED submitted
  /\ UNCHANGED <<start, position, snapshot, dry, view, missed, calls>>

\* Mutant of Conclude: one skipped order makes the answer "blocked".
ConcludeSkipped ==
  /\ pc = "submit" /\ todo = {}
  /\ pc' = "idle"
  /\ status' = IF refused THEN "blocked" ELSE "submitted"
  /\ UNCHANGED <<brokerVars, snapshot, dry, view, todo, refused, missed, submitted, calls>>

Conclude ==
  /\ pc = "submit" /\ todo = {}
  /\ pc' = "idle"
  /\ status' = IF submitted # {} THEN "submitted" ELSE "blocked"
  /\ UNCHANGED <<brokerVars, snapshot, dry, view, todo, refused, missed, submitted, calls>>

-----------------------------------------------------------------------------
(* What the program does not control. *)

\* The process is replaced: a new one has no snapshot.
Restart ==
  /\ snapshot # "none" \/ pc # "idle"
  /\ snapshot' = "none"
  /\ pc' = "idle" /\ todo' = {}
  /\ status' = IF pc = "idle" THEN status ELSE "error"
  /\ UNCHANGED <<brokerVars, dry, view, refused, missed, submitted, calls>>

FillSell(s) ==
  /\ selling[s] > 0
  /\ \E n \in {1, selling[s]} :
       /\ selling' = [selling EXCEPT ![s] = @ - n]
       /\ position' = [position EXCEPT ![s] = @ - n]
  /\ UNCHANGED <<start, buying, snapshot, pc, dry, view, todo, summaryVars, calls>>

FillBuy(s) ==
  /\ buying[s] > 0
  /\ \E n \in {1, buying[s]} :
       /\ buying' = [buying EXCEPT ![s] = @ - n]
       /\ position' = [position EXCEPT ![s] = @ + n]
  /\ UNCHANGED <<start, selling, snapshot, pc, dry, view, todo, summaryVars, calls>>

\* A day order ends with the session.
Expire ==
  /\ ~NothingWorks
  /\ selling' = [s \in Symbol |-> 0] /\ buying' = [s \in Symbol |-> 0]
  /\ refused' = TRUE
  /\ UNCHANGED <<start, position, snapshot, pc, dry, view, todo, missed, submitted, status, calls>>

Rest ==
  /\ pc = "idle" /\ calls = MaxCalls
  /\ UNCHANGED vars

Next ==
  \/ Rehearse \/ Liquidate \/ Read \/ Conclude \/ Restart \/ Expire \/ Rest
  \/ \E s \in Symbol : Submit(s) \/ FillSell(s) \/ FillBuy(s)

Spec == Init /\ [][Next]_vars

-----------------------------------------------------------------------------
(* Properties. *)

\* However its calls, restarts, failed submissions and fills interleave, the
\* route takes a position towards zero and never past it: a long position does
\* not become a short one, nor a short one a long one, and what works at the
\* broker cannot make it so (execute_paper_liquidation).
NoReversal ==
  \A s \in Symbol :
    /\ start[s] >= 0 => position[s] - selling[s] >= 0 /\ position[s] + buying[s] <= start[s]
    /\ start[s] <= 0 => position[s] + buying[s] <= 0 /\ position[s] - selling[s] >= start[s]

\* A liquidation that saw every position, and none of whose orders failed.
Undisturbed == pc = "idle" /\ status = "submitted" /\ ~missed /\ ~refused

\* Such a liquidation leaves no long position that is not being sold.
LongsLeave == Undisturbed => \A s \in Symbol : position[s] > 0 => selling[s] = position[s]

\* ... and no position at all that is not being closed: "invoke once to clear the
\* paper account" (docs/ibkr_paper_top50_switch.md:28).
AccountCleared == Undisturbed => \A s \in Symbol : position[s] - selling[s] + buying[s] = 0

\* A liquidation that says it was blocked has nothing in the market, if nothing
\* was there when it began.
BlockedIsInert ==
  [][pc # "idle" /\ pc' = "idle" /\ status' = "blocked" /\ Patient
       => NothingWorks]_vars
=============================================================================
