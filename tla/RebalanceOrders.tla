--------------------------- MODULE RebalanceOrders ---------------------------
(***************************************************************************)
(* One cycle of execute_rebalance (application/execution_service.py): from *)
(* positions, quotes, targets and cash to sell orders, then buy orders,    *)
(* then option orders, against a broker that fills them when it likes, in  *)
(* a cash-only account (cash_only_execution, the default).                 *)
(*                                                                         *)
(* Money is in whole units and shares are whole (quantity_step 1), so the  *)
(* comparisons and floors of the code are exact.  The set and dictionary   *)
(* orders in which the code visits symbols are left open.  Who may run the *)
(* cycle, and how often, is ExecutionClaim's matter.                       *)
(***************************************************************************)
EXTENDS Integers, FiniteSets, FiniteSetsExt

CONSTANTS
  Symbol,          \* the strategy's symbols
  Safe,            \* its first safe-haven symbol, the cash sweep
  Premium,         \* a buy limit is so much above the quote
  Threshold,       \* differences from the target that are left alone
  MinNotional,     \* the smallest buy
  Reserve,         \* cash to be kept: the larger of ratio and floor
  Option,          \* executable option intents
  Notional,        \* their cost, or the maximal loss of a spread
  Holdings,        \* bound: quantities held at the start
  Quotes,          \* bound: quotes; 0 is a missing one
  Costs,           \* bound: average costs
  Targets,         \* bound: target values
  Cashes,          \* bound: cash at the start
  Slips,           \* bound: how far below the quote sales fill
  CancelsPartly    \* can a cancelled order have filled in part?

ASSUME OrdersAssumption ==
  /\ IsFiniteSet(Symbol) /\ IsFiniteSet(Option)
  /\ Safe \in Symbol
  /\ Premium \in Nat /\ Threshold \in Nat /\ MinNotional \in Nat
  /\ Reserve \in Nat
  /\ Holdings \subseteq Nat /\ Quotes \subseteq Nat /\ Costs \subseteq Nat
  /\ Targets \subseteq Nat
  /\ Cashes \subseteq Int /\ Slips \subseteq Nat
  /\ CancelsPartly \in BOOLEAN
  /\ Notional \in [Option -> Nat]

VARIABLES
  held, price, target,  \* what the cycle starts from
  gate,       \* what blocks new risk: nothing, a small account, the risk gate
  dry,        \* dry_run_only
  pc,
  todo,       \* the symbols, then the options, the present loop has left
  sweep,      \* cash_sweep_quantity
  base,       \* anticipated_buying_power
  release,    \* projected_sell_release_value, or the proceeds of a dry run
  stuck,      \* pending_sell_release_symbols is not empty
  deferred,   \* buys_blocked_reason is set
  power,      \* buying_power
  investable, \* investable_buying_power
  sells, buys, options,  \* the orders of the execution summary
  status,     \* execution_status
  cash,       \* the account's cash at the broker
  seen,       \* the account value the session has cached
  owed,       \* what the accepted purchases of shares may still cost
  overstated  \* history: what sales without a fill price were counted above their proceeds

inputVars == <<held, price, target, gate, dry>>
budgetVars == <<sweep, base, release, stuck, deferred, power, investable>>
brokerVars == <<cash, seen, owed, overstated>>
vars == <<inputVars, pc, todo, budgetVars, sells, buys, options, status, brokerVars>>

Greater(m, n) == IF m > n THEN m ELSE n
Lesser(m, n) == IF m < n THEN m ELSE n

Outcome == {"none", "dry", "filled", "partial", "pending", "failed"}
Order == [quantity : Nat, filled : Nat, outcome : Outcome]
NoOrder == [quantity |-> 0, filled |-> 0, outcome |-> "none"]

TypeOK ==
  /\ held \in [Symbol -> Nat] /\ price \in [Symbol -> Nat] /\ target \in [Symbol -> Nat]
  /\ gate \in {"open", "small_account", "new_risk"}
  /\ dry \in BOOLEAN
  /\ pc \in {"plan", "sell", "buy", "options", "done"}
  /\ todo \subseteq Symbol \cup Option
  /\ sweep \in Nat /\ base \in Nat /\ release \in Nat /\ power \in Nat
  /\ investable \in Nat
  /\ stuck \in BOOLEAN /\ deferred \in BOOLEAN
  /\ sells \in [Symbol -> Order] /\ buys \in [Symbol -> Order]
  /\ options \in [Option -> Outcome]
  /\ status \in {"not_started", "executing", "blocked", "no_op", "executed",
                 "pending_reconciliation"}
  /\ cash \in Int /\ seen \in Int /\ owed \in Int /\ overstated \in Nat

Value(s) == held[s] * price[s]
Total(Of(_)) == MapThenSumSet(Of, Symbol)

\* The account's equity values its positions at their average cost; with debts
\* above that it is the positions alone.
Equity(cost) ==
  LET Basis(s) == held[s] * cost[s]
  IN  IF Total(Basis) + cash > 0 THEN Total(Basis) + cash ELSE Total(Basis)

\* Target weights sum up to at most one, of the equity above the reserve.
Init ==
  /\ held \in [Symbol -> Holdings]
  /\ price \in [Symbol -> Quotes]
  /\ target \in [Symbol -> Targets]
  /\ cash \in Cashes
  /\ \E cost \in [Symbol -> Costs] :
       LET Target(s) == target[s]
       IN  Equity(cost) > 0 /\ Total(Target) <= Greater(0, Equity(cost) - Reserve)
  /\ gate \in {"open", "small_account", "new_risk"}
  /\ dry \in BOOLEAN
  /\ pc = "plan"
  /\ todo = {}
  /\ sweep = 0 /\ base = 0 /\ release = 0 /\ power = 0 /\ investable = 0
  /\ stuck = FALSE /\ deferred = FALSE
  /\ sells = [s \in Symbol |-> NoOrder]
  /\ buys = [s \in Symbol |-> NoOrder]
  /\ options = [o \in Option |-> "none"]
  /\ status = "not_started"
  /\ seen = cash
  /\ owed = 0 /\ overstated = 0

-----------------------------------------------------------------------------
(* Sizing. *)

Over(s) == Value(s) > target[s] + Threshold
Under(s) == Value(s) < target[s] - Threshold
Needed == {s \in Symbol : Under(s)}

Limit(s) == price[s] + Premium

\* get_available_buying_power: a debt counts as no money.
Reading == Greater(0, seen)

\* _investable_buying_power
Investable(money) == Greater(0, money - Reserve)

\* _sell_order_quantity: everything if the target is zero.
SellQuantity(s) ==
  IF target[s] = 0 \/ price[s] = 0
  THEN IF target[s] = 0 THEN held[s] ELSE 0
  ELSE Lesser(Greater(0, Value(s) - target[s]) \div price[s], held[s])

\* Mutants of Budget: the buy is not capped by the money, or takes no account of
\* what is held.
BudgetUncapped(s, money) == target[s] - Value(s)
BudgetIgnoringHeld(s, money) == Lesser(target[s], (money * 95) \div 100)

Budget(s, money) == Lesser(target[s] - Value(s), (money * 95) \div 100)

\* _planned_buy_order_quantity and the checks before it.  The later check of the
\* order's cost against the money never fails: the budget is at most 95% of it.
BuyQuantity(s, money) ==
  IF Under(s) /\ price[s] > 0 /\ Budget(s, money) >= Greater(MinNotional, 1)
  THEN Budget(s, money) \div Limit(s)
  ELSE 0

\* _estimated_buy_order_cost: each buy as if it had all the money.
EstimatedCost(money) ==
  LET Cost(s) ==
        LET value == Lesser(target[s] - Value(s), money)
        IN  IF Under(s) /\ price[s] > 0 /\ value >= MinNotional
            THEN (value \div Limit(s)) * Limit(s)
            ELSE 0
  IN  Total(Cost)

-----------------------------------------------------------------------------
(* The plan. *)

\* should_sell_cash_sweep_to_fund_whole_share_buy, a library function: selling
\* the sweep position would pay for a share that the cash does not pay for.
SweepWouldFund(money) ==
  \E s \in Symbol \ {Safe} :
    /\ gate # "new_risk"
    /\ target[s] - Value(s) > Greater(Threshold, MinNotional)
    /\ price[s] > 0
    /\ money < Limit(s)
    /\ Limit(s) <= money + Value(Safe)

HasSellPlan == \E s \in Symbol : Over(s) /\ SellQuantity(s) > 0
HasBuyPlan(money) == \E s \in Symbol : BuyQuantity(s, money) > 0

\* A cycle without orders to place: a missing quote or missing money blocks it.
NoPlanStatus(money) ==
  IF \E s \in Needed : price[s] = 0 \/ Budget(s, money) <= 0
  THEN "blocked" ELSE "no_op"

Plan ==
  /\ pc = "plan"
  /\ base' = Reading
  /\ LET money == Investable(Reading)
         onTarget == \A s \in Symbol : ~Over(s) /\ ~Under(s)
     IN  /\ sweep' \in IF ~HasSellPlan /\ SweepWouldFund(money)
                       THEN {0, held[Safe]} ELSE {0}
         /\ IF HasSellPlan \/ sweep' > 0 \/ HasBuyPlan(money) \/ (onTarget /\ Option # {})
            THEN pc' = "sell" /\ todo' = Symbol /\ status' = "executing"
            ELSE pc' = "done" /\ todo' = {} /\ status' = NoPlanStatus(money)
  /\ UNCHANGED <<inputVars, release, stuck, deferred, power, investable, sells,
                 buys, options, brokerVars>>

-----------------------------------------------------------------------------
(* The broker's report of an order, and what becomes of the order later. *)

Report(quantity) ==
  {[quantity |-> quantity, filled |-> quantity, outcome |-> "filled"],
   [quantity |-> quantity, filled |-> 0, outcome |-> "pending"]}
  \cup {[quantity |-> quantity, filled |-> f, outcome |-> "partial"] :
          f \in 1 .. quantity - 1}
  \cup {[quantity |-> quantity, filled |-> f, outcome |-> "failed"] :
          f \in IF CancelsPartly THEN 0 .. quantity - 1 ELSE {0}}

Unfilled(order) ==
  IF order.outcome \in {"pending", "partial"} THEN order.quantity - order.filled ELSE 0

\* A market sale fills at the quote or below it.
FillPrices(s) == {Greater(0, price[s] - slip) : slip \in Slips}

FillSell(s) ==
  /\ Unfilled(sells[s]) > 0
  /\ sells' = [sells EXCEPT ![s].filled = @ + 1]
  /\ \E proceeds \in FillPrices(s) : cash' = cash + proceeds
  /\ UNCHANGED <<inputVars, pc, todo, budgetVars, buys, options, status, seen,
                 owed, overstated>>

FillBuy(s) ==
  /\ Unfilled(buys[s]) > 0
  /\ buys' = [buys EXCEPT ![s].filled = @ + 1]
  /\ cash' = cash - Limit(s)
  /\ owed' = owed - Limit(s)
  /\ UNCHANGED <<inputVars, pc, todo, budgetVars, sells, options, status, seen, overstated>>

\* The session's account values catch up.
Refresh ==
  /\ pc \notin {"plan", "done"}
  /\ seen # cash
  /\ seen' = cash
  /\ UNCHANGED <<inputVars, pc, todo, budgetVars, sells, buys, options, status, cash,
                 owed, overstated>>

-----------------------------------------------------------------------------
(* The cycle. *)

\* How much of s to sell, the sweep included.
ToSell(s) ==
  IF s = Safe /\ sweep > 0 THEN Greater(sweep, SellQuantity(s))
  ELSE IF Over(s) THEN SellQuantity(s) ELSE 0

\* Only confirmed fills count as released, at the price of the report.
Released(order, unit) ==
  IF order.outcome \in {"filled", "partial"} THEN order.filled * unit ELSE 0

\* _projected_sell_release_value_for_report: a report without its average fill price
\* counts at the quote.
Counted(s, unit, priced) == IF priced THEN unit ELSE price[s]

Sell(s) ==
  /\ pc = "sell" /\ s \in todo
  /\ todo' = todo \ {s}
  /\ stuck' = (stuck \/ (Over(s) /\ ToSell(s) = 0))
  /\ IF ToSell(s) = 0
     THEN UNCHANGED <<sells, release, cash, overstated>>
     ELSE IF dry
     THEN /\ sells' = [sells EXCEPT ![s] =
                         [quantity |-> ToSell(s), filled |-> 0, outcome |-> "dry"]]
          /\ release' = release + ToSell(s) * price[s]
          /\ UNCHANGED <<cash, overstated>>
     ELSE \E order \in Report(ToSell(s)), unit \in FillPrices(s), priced \in BOOLEAN :
            LET counted == Released(order, Counted(s, unit, priced))
            IN  /\ sells' = [sells EXCEPT ![s] = order]
                /\ release' = release + counted
                /\ cash' = cash + order.filled * unit
                /\ overstated' = overstated + counted - Released(order, unit)
  /\ UNCHANGED <<inputVars, pc, sweep, base, deferred, power, investable, buys,
                 options, status, seen, owed>>

Sold == \E s \in Symbol : sells[s].outcome \in {"filled", "partial", "pending"}

\* Mutant of PowerAfterSales: the confirmed fills are added to a reading that may
\* already hold them.
PowerAfterSalesTwice ==
  IF dry THEN base + release
  ELSE IF ~Sold THEN base
  ELSE Reading + release

\* The buying power after the sales: a reading that may be older than the
\* confirmed fills is corrected by them.
PowerAfterSales ==
  IF dry THEN base + release
  ELSE IF ~Sold THEN base
  ELSE IF release > 0 THEN Greater(Reading, base + release)
  ELSE Reading

\* Then what may be bought is settled, or the buys are put off.
Settle ==
  /\ pc = "sell" /\ todo = {}
  /\ pc' = "buy" /\ todo' = Symbol
  /\ power' = PowerAfterSales
  /\ investable' = Investable(PowerAfterSales)
  /\ deferred' =
       (/\ Needed # {}
        /\ \/ gate # "open"
           \/ stuck /\ EstimatedCost(investable') > investable'
           \/ seen < 0)
  /\ UNCHANGED <<inputVars, sweep, base, release, stuck, sells, buys, options,
                 status, brokerVars>>

Buy(s) ==
  /\ pc = "buy" /\ s \in todo
  /\ todo' = todo \ {s}
  /\ LET quantity == IF deferred THEN 0 ELSE BuyQuantity(s, investable)
     IN  IF quantity = 0
         THEN UNCHANGED <<buys, investable, cash, owed>>
         ELSE IF dry
         THEN /\ buys' = [buys EXCEPT ![s] =
                            [quantity |-> quantity, filled |-> 0, outcome |-> "dry"]]
              /\ investable' = investable - quantity * Limit(s)
              /\ UNCHANGED <<cash, owed>>
         ELSE \E order \in Report(quantity) :
                /\ buys' = [buys EXCEPT ![s] = order]
                /\ investable' = IF order.outcome = "failed" THEN investable
                                 ELSE investable - quantity * Limit(s)
                /\ cash' = cash - order.filled * Limit(s)
                /\ owed' = owed + Unfilled(order) * Limit(s)
  /\ UNCHANGED <<inputVars, pc, sweep, base, release, stuck, deferred, power,
                 sells, options, status, seen, overstated>>

StartOptions ==
  /\ pc = "buy" /\ todo = {}
  /\ pc' = "options" /\ todo' = Option
  /\ UNCHANGED <<inputVars, budgetVars, sells, buys, options, status, brokerVars>>

\* An option intent is checked against what is left of the buying power.
PlaceOption(o) ==
  /\ pc = "options" /\ o \in todo
  /\ todo' = todo \ {o}
  /\ IF Notional[o] * 100 > power * 95
     THEN UNCHANGED <<options, power>>
     ELSE \E outcome \in IF dry THEN {"dry"} ELSE {"filled", "pending", "failed"} :
            /\ options' = [options EXCEPT ![o] = outcome]
            /\ power' = IF outcome = "failed" THEN power ELSE power - Notional[o]
  /\ UNCHANGED <<inputVars, pc, sweep, base, release, stuck, deferred, investable,
                 sells, buys, status, brokerVars>>

Outcomes ==
  {sells[s].outcome : s \in Symbol} \cup {buys[s].outcome : s \in Symbol}
    \cup {options[o] : o \in Option}

\* Mutant of FinalStatus: any accepted order makes the cycle executed.
FinalStatusOptimistic ==
  IF Outcomes \cap {"dry", "filled", "partial", "pending"} # {} THEN "executed"
  ELSE IF "failed" \in Outcomes THEN "blocked"
  ELSE "no_op"

FinalStatus ==
  IF "pending" \in Outcomes THEN "pending_reconciliation"
  ELSE IF Outcomes \cap {"dry", "filled", "partial"} # {} THEN "executed"
  ELSE IF "failed" \in Outcomes THEN "blocked"
  ELSE "no_op"

Finish ==
  /\ pc = "options" /\ todo = {}
  /\ pc' = "done"
  /\ status' = FinalStatus
  /\ UNCHANGED <<inputVars, todo, budgetVars, sells, buys, options, brokerVars>>

Ended == pc = "done" /\ UNCHANGED vars

Next ==
  \/ Plan \/ Settle \/ StartOptions \/ Finish \/ Refresh \/ Ended
  \/ \E s \in Symbol : Sell(s) \/ Buy(s) \/ FillSell(s) \/ FillBuy(s)
  \/ \E o \in Option : PlaceOption(o)

Spec == Init /\ [][Next]_vars

-----------------------------------------------------------------------------
(* Properties. *)

Accepted(order) == order.outcome \in {"filled", "partial", "pending"} \/ order.filled > 0

\* What the account would have had the sales brought what they were counted as.
Funds == cash + overstated

\* The cycle buys shares with cash the account has beyond its reserve: once a
\* purchase is accepted, the account can pay for all of them, whatever sales fill
\* late, at what price, and however old the cash reading was, and keep the
\* reserve.  Of the reserve it is only short by what sales reported without a fill
\* price brought less than their quote (_projected_sell_release_value_for_report).
ReserveKept ==
  (\E s \in Symbol : Accepted(buys[s])) => Funds - owed >= Reserve

\* What the accepted options cost, and what the shares bought have cost.
Staked ==
  LET Cost(o) == IF options[o] \in {"filled", "pending"} THEN Notional[o] ELSE 0
  IN  MapThenSumSet(Cost, Option)

Spent ==
  LET Cost(s) == buys[s].filled * Limit(s)
  IN  Total(Cost)

\* The money for the options of a cycle exists: it was in the account, or its
\* sales brought it, before the shares of the same cycle were bought; it is only
\* short by what the sales without a fill price brought less than their quote.
OptionsCovered == Staked > 0 => Staked <= Funds + Spent

\* Shares and options together do not borrow, wherever the sales brought what they
\* were counted as ("skipping buys this cycle to avoid additional margin").
BuysNeverBorrow ==
  (\E s \in Symbol : Accepted(buys[s])) => Funds - owed - Staked >= 0

\* The final status tells what the broker did: a cycle that says it placed
\* nothing, or that everything was refused, left nothing working or filled, and
\* one that says it is executed waits for no order it has not seen begin.
StatusTruthful ==
  LET orders == {sells[s] : s \in Symbol} \cup {buys[s] : s \in Symbol}
  IN  /\ status \in {"no_op", "blocked"} => \A order \in orders : ~Accepted(order)
      /\ status = "executed" => \A order \in orders : order.outcome # "pending"

\* Together with what is held, a buy never exceeds the approved target, and a
\* sale never goes below it, except that of the cash sweep.
WithinTarget ==
  \A s \in Symbol :
    /\ buys[s].quantity > 0 => Value(s) + buys[s].quantity * Limit(s) <= target[s]
    /\ sells[s].quantity > 0 /\ (s # Safe \/ sweep = 0)
         => (held[s] - sells[s].quantity) * price[s] >= target[s]
=============================================================================
