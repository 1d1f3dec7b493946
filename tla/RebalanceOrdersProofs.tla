------------------------ MODULE RebalanceOrdersProofs ------------------------
(***************************************************************************)
(* Proofs about RebalanceOrders, for any symbols, quotes, targets and      *)
(* holdings.                                                               *)
(*                                                                         *)
(* ReserveKept is not inductive: what a purchase may cost is bounded by    *)
(* investable, so the invariant has to say that investable and the reserve *)
(* are covered by the money that no purchase has spoken for (Funded), and, *)
(* before the buys, that the anticipated money and the confirmed proceeds  *)
(* are really there however old the cash reading is.                       *)
(*                                                                         *)
(* OptionsCovered sums over the options and the purchases.  A sum is a     *)
(* recursive function over the subsets of a finite set; what is needed of  *)
(* it (SumsExist, OneChanges) is shown by a smallest counterexample.  Its  *)
(* invariant (Backed) says that what is staked and the buying power left   *)
(* for more are covered by the cash there was before the shares.           *)
(***************************************************************************)
EXTENDS RebalanceOrders, FiniteSetTheorems, TLAPS

(* Arithmetic. *)

LEMMA DivisionRoundsDown ==
  ASSUME NEW n \in Nat, NEW d \in Nat, d > 0
  PROVE  n \div d \in Nat /\ (n \div d) * d <= n
  OBVIOUS

LEMMA ProductNat ==
  ASSUME NEW m \in Nat, NEW n \in Nat
  PROVE  m * n \in Nat
  OBVIOUS

LEMMA ProductSplit ==
  ASSUME NEW q \in Nat, NEW f \in Nat, NEW u \in Nat
  PROVE  f * u + (q - f) * u = q * u
  OBVIOUS

LEMMA ProductMonotone ==
  ASSUME NEW m \in Nat, NEW n \in Nat, NEW u \in Nat, m <= n
  PROVE  m * u <= n * u
  OBVIOUS

LEMMA NinetyFivePercent ==
  ASSUME NEW m \in Nat
  PROVE  (m * 95) \div 100 \in Nat /\ (m * 95) \div 100 <= m
  OBVIOUS

LEMMA CoverGrows ==
  ASSUME NEW c \in Int, NEW o \in Int, NEW d \in Int, NEW p \in Int, NEW n \in Int,
         d - p >= c - o, n <= c - o
  PROVE  n <= d - p
  OBVIOUS

LEMMA CashGrows ==
  ASSUME NEW c \in Int, NEW o \in Int, NEW d \in Int, NEW p \in Int, d >= c, p = o
  PROVE  d - p >= c - o
  OBVIOUS

-----------------------------------------------------------------------------
(* Sizing. *)

Inputs ==
  /\ held \in [Symbol -> Nat] /\ price \in [Symbol -> Nat]
  /\ target \in [Symbol -> Nat]

LEMMA Amounts ==
  ASSUME Inputs, NEW s \in Symbol
  PROVE  Value(s) \in Nat /\ Limit(s) \in Nat /\ Limit(s) >= price[s]
<1>1. held[s] \in Nat /\ price[s] \in Nat
  BY DEF Inputs
<1> QED
  BY <1>1, ProductNat, OrdersAssumption DEF Value, Limit

\* A buy stays within its target and within the money.
LEMMA BuyFits ==
  ASSUME Inputs, NEW s \in Symbol, NEW money \in Nat
  PROVE  /\ BuyQuantity(s, money) \in Nat
         /\ BuyQuantity(s, money) > 0 =>
              /\ Value(s) + BuyQuantity(s, money) * Limit(s) <= target[s]
              /\ BuyQuantity(s, money) * Limit(s) <= money
<1> DEFINE budget == Budget(s, money)
           percent == (money * 95) \div 100
<1>1. target[s] \in Nat /\ price[s] \in Nat
  BY DEF Inputs
<1>2. Value(s) \in Nat /\ Limit(s) \in Nat /\ Limit(s) >= price[s]
  BY Amounts
<1>3. percent \in Nat /\ percent <= money
  BY NinetyFivePercent
<1>4. CASE Under(s) /\ price[s] > 0 /\ budget >= Greater(MinNotional, 1)
  <2>1. budget <= target[s] - Value(s) /\ budget <= percent
    BY <1>1, <1>2, <1>3 DEF Budget, Lesser
  <2>2. budget \in Nat
    BY <1>1, <1>2, <1>3, <1>4, OrdersAssumption DEF Budget, Lesser, Greater
  <2>3. BuyQuantity(s, money) = budget \div Limit(s)
    BY <1>4 DEF BuyQuantity
  <2>4. Limit(s) > 0
    BY <1>1, <1>2, <1>4
  <2> HIDE DEF budget, percent
  <2>5. budget \div Limit(s) \in Nat /\ (budget \div Limit(s)) * Limit(s) <= budget
    BY <2>2, <2>4, <1>2, DivisionRoundsDown
  <2>6. (budget \div Limit(s)) * Limit(s) \in Nat
    BY <2>5, <1>2, ProductNat
  <2> QED
    BY <1>1, <1>2, <1>3, <2>1, <2>2, <2>3, <2>5, <2>6
<1>5. CASE ~(Under(s) /\ price[s] > 0 /\ budget >= Greater(MinNotional, 1))
  BY <1>5 DEF BuyQuantity
<1> QED
  BY <1>4, <1>5

\* Nothing is bought for nothing, or with no money.
LEMMA BuyPositive ==
  ASSUME Inputs, NEW s \in Symbol, NEW money \in Nat, BuyQuantity(s, money) # 0
  PROVE  Limit(s) > 0 /\ money > 0
<1>1. target[s] \in Nat /\ price[s] \in Nat
  BY DEF Inputs
<1>2. Value(s) \in Nat /\ Limit(s) \in Nat /\ Limit(s) >= price[s]
  BY Amounts
<1>3. price[s] > 0 /\ Budget(s, money) >= Greater(MinNotional, 1)
  BY DEF BuyQuantity
<1>4. (money * 95) \div 100 \in Nat /\ (money * 95) \div 100 <= money
  BY NinetyFivePercent
<1>5. (money * 95) \div 100 >= 1
  BY <1>1, <1>2, <1>3, <1>4, OrdersAssumption DEF Budget, Lesser, Greater
<1> QED
  BY <1>1, <1>2, <1>3, <1>4, <1>5

\* A sale leaves the target held.
LEMMA SaleFits ==
  ASSUME Inputs, NEW s \in Symbol
  PROVE  /\ SellQuantity(s) \in Nat
         /\ Over(s) => price[s] > 0
         /\ Over(s) => (held[s] - SellQuantity(s)) * price[s] >= target[s]
<1>1. target[s] \in Nat /\ price[s] \in Nat /\ held[s] \in Nat
  BY DEF Inputs
<1>2. Value(s) \in Nat
  BY Amounts
<1>3. Over(s) => price[s] > 0
  BY <1>1, <1>2, OrdersAssumption DEF Over, Value
<1>4. CASE target[s] = 0 \/ price[s] = 0
  BY <1>1, <1>3, <1>4 DEF SellQuantity
<1>5. CASE ~(target[s] = 0 \/ price[s] = 0)
  <2> DEFINE excess == Greater(0, Value(s) - target[s])
             lots == excess \div price[s]
  <2>1. excess \in Nat /\ price[s] > 0
    BY <1>1, <1>2, <1>5 DEF Greater
  <2>2. SellQuantity(s) = Lesser(lots, held[s])
    BY <1>5 DEF SellQuantity
  <2>3. lots \in Nat /\ lots * price[s] <= excess
    <3> HIDE DEF excess
    <3> QED
      BY <2>1, <1>1, DivisionRoundsDown
  <2>4. Over(s) => excess = Value(s) - target[s]
    BY <1>1, <1>2, OrdersAssumption DEF Over, Greater
  <2> HIDE DEF lots, excess
  <2>5. SellQuantity(s) \in Nat /\ SellQuantity(s) <= lots
    BY <2>2, <2>3, <1>1 DEF Lesser
  <2>6. SellQuantity(s) * price[s] <= lots * price[s]
    BY <2>3, <2>5, <1>1, ProductMonotone
  <2>7. (held[s] - SellQuantity(s)) * price[s] = Value(s) - SellQuantity(s) * price[s]
    BY <2>5, <1>1 DEF Value
  <2>8. SellQuantity(s) * price[s] \in Nat /\ lots * price[s] \in Nat
    BY <2>3, <2>5, <1>1, ProductNat
  <2> QED
    BY <1>1, <1>2, <1>3, <2>1, <2>3, <2>4, <2>5, <2>6, <2>7, <2>8
<1> QED
  BY <1>4, <1>5

-----------------------------------------------------------------------------
(* Types. *)

\* What is sold has a price: the sweep because its value is part of the funds.
Priced ==
  /\ sweep > 0 => price[Safe] > 0
  /\ \A s \in Symbol : sells[s].quantity > 0 => price[s] > 0

\* A report of the broker is an order of the quantity that was submitted.
LEMMA Reported ==
  ASSUME NEW quantity \in Nat, NEW order \in Report(quantity)
  PROVE  /\ order \in Order /\ order.quantity = quantity
         /\ order.filled \in 0 .. quantity \/ quantity = 0
         /\ order.outcome \in {"filled", "partial", "pending", "failed"}
         /\ order.outcome = "pending" => order.filled = 0
         /\ order.outcome = "filled" => order.filled = quantity
         /\ order.outcome = "failed" /\ ~CancelsPartly => order.filled = 0
  BY OrdersAssumption DEF Report, Order, Outcome

LEMMA ToSellTyped ==
  ASSUME TypeOK, Priced, NEW s \in Symbol
  PROVE  ToSell(s) \in Nat /\ (ToSell(s) > 0 => price[s] > 0)
<1>1. Inputs
  BY DEF TypeOK, Inputs
<1>2. SellQuantity(s) \in Nat /\ (Over(s) => price[s] > 0)
  BY <1>1, SaleFits
<1> QED
  BY <1>2 DEF ToSell, Greater, Priced, TypeOK

LEMMA InitTyped == Init => TypeOK /\ Priced
<1> SUFFICES ASSUME Init PROVE TypeOK /\ Priced
  OBVIOUS
<1>1. NoOrder \in Order
  BY DEF NoOrder, Order, Outcome
<1>2. held \in [Symbol -> Nat] /\ price \in [Symbol -> Nat] /\ target \in [Symbol -> Nat]
  BY OrdersAssumption DEF Init
<1>3. cash \in Int
  BY OrdersAssumption DEF Init
<1>4. TypeOK
  <2>1. /\ sells \in [Symbol -> Order] /\ buys \in [Symbol -> Order]
        /\ options \in [Option -> Outcome]
    BY <1>1 DEF Init, Outcome
  <2>2. /\ gate \in {"open", "small_account", "new_risk"} /\ dry \in BOOLEAN
        /\ pc = "plan" /\ todo = {} /\ status = "not_started"
        /\ sweep = 0 /\ base = 0 /\ release = 0 /\ power = 0 /\ investable = 0
        /\ seen = cash /\ owed = 0 /\ overstated = 0
    BY DEF Init
  <2>3. stuck \in BOOLEAN /\ deferred \in BOOLEAN
    BY DEF Init
  <2> QED
    BY <1>2, <1>3, <2>1, <2>2, <2>3 DEF TypeOK
<1>5. Priced
  BY DEF Init, Priced, NoOrder
<1> QED
  BY <1>4, <1>5

LEMMA PlanTyped == TypeOK /\ Priced /\ Plan => TypeOK' /\ Priced'
<1> SUFFICES ASSUME TypeOK, Priced, Plan PROVE TypeOK' /\ Priced'
  OBVIOUS
<1> USE DEF inputVars, brokerVars
<1>1. Inputs
  BY DEF TypeOK, Inputs
<1>2. Reading \in Nat
  BY DEF Reading, Greater, TypeOK
<1> DEFINE money == Investable(Reading)
<1>3. money \in Nat
  BY <1>2, OrdersAssumption DEF Investable, Greater
<1>4. sweep' \in {0, held[Safe]}
  BY DEF Plan
<1>5. sweep' \in Nat
  BY <1>4, OrdersAssumption DEF TypeOK
<1>6. SweepWouldFund(money) => price[Safe] > 0
  <2> SUFFICES ASSUME NEW s \in Symbol, money < Limit(s), Limit(s) <= money + Value(Safe)
      PROVE price[Safe] > 0
    BY DEF SweepWouldFund
  <2>1. Limit(s) \in Nat /\ Value(Safe) \in Nat
    BY <1>1, Amounts, OrdersAssumption
  <2>2. Value(Safe) > 0
    BY <2>1, <1>3
  <2> QED
    BY <2>2, <1>1, OrdersAssumption DEF Value, Inputs
<1>7. sweep' > 0 => price[Safe] > 0
  BY <1>6, <1>4 DEF Plan
<1>8. TypeOK'
  BY <1>2, <1>5 DEF Plan, TypeOK, NoPlanStatus
<1> QED
  BY <1>7, <1>8 DEF Plan, Priced

\* What a fill is counted as is no less than what it brings.
LEMMA Counts ==
  ASSUME NEW s \in Symbol, price[s] \in Nat, NEW order \in Order,
         NEW unit \in FillPrices(s), NEW priced \in BOOLEAN
  PROVE  /\ unit \in Nat /\ order.filled * unit \in Nat
         /\ Released(order, unit) \in Nat /\ Released(order, Counted(s, unit, priced)) \in Nat
         /\ Released(order, unit) <= order.filled * unit
         /\ Released(order, unit) <= Released(order, Counted(s, unit, priced))
<1>1. unit \in Nat /\ unit <= price[s]
  BY OrdersAssumption DEF FillPrices, Greater
<1>2. order.filled \in Nat
  BY DEF Order
<1> DEFINE counted == Counted(s, unit, priced)
<1>3. counted \in Nat /\ unit <= counted
  BY <1>1 DEF Counted
<1> HIDE DEF counted
<1>4. order.filled * unit \in Nat /\ order.filled * counted \in Nat
  BY <1>1, <1>2, <1>3, ProductNat
<1>5. order.filled * unit <= order.filled * counted
  <2>1. unit * order.filled <= counted * order.filled
    BY <1>1, <1>2, <1>3, ProductMonotone
  <2> QED
    BY <1>1, <1>2, <1>3, <2>1
<1>6. /\ Released(order, unit) \in Nat /\ Released(order, counted) \in Nat
      /\ Released(order, unit) <= order.filled * unit
      /\ Released(order, unit) <= Released(order, counted)
  BY <1>4, <1>5 DEF Released
<1> QED
  BY <1>1, <1>4, <1>6 DEF counted

LEMMA SellTyped ==
  ASSUME TypeOK, Priced, NEW s \in Symbol, Sell(s)
  PROVE  TypeOK' /\ Priced'
<1> USE DEF inputVars
<1>1. ToSell(s) \in Nat /\ (ToSell(s) > 0 => price[s] > 0) /\ price[s] \in Nat
  BY ToSellTyped DEF TypeOK
<1>2. todo' \subseteq Symbol \cup Option /\ stuck' \in BOOLEAN
  BY DEF Sell, TypeOK
<1>3. /\ sells' \in [Symbol -> Order] /\ release' \in Nat /\ cash' \in Int
      /\ overstated' \in Nat
      /\ \A z \in Symbol : sells'[z].quantity > 0 => price[z] > 0
  <2>1. CASE ToSell(s) = 0
    BY <2>1 DEF Sell, TypeOK, Priced
  <2>2. CASE ToSell(s) # 0 /\ dry
    <3>1. ToSell(s) * price[s] \in Nat
      BY <1>1, ProductNat
    <3>2. [quantity |-> ToSell(s), filled |-> 0, outcome |-> "dry"] \in Order
      BY <1>1 DEF Order, Outcome
    <3> QED
      BY <1>1, <2>2, <3>1, <3>2 DEF Sell, TypeOK, Priced
  <2>3. CASE ToSell(s) # 0 /\ ~dry
    <3>1. PICK order \in Report(ToSell(s)), unit \in FillPrices(s), priced \in BOOLEAN :
            /\ sells' = [sells EXCEPT ![s] = order]
            /\ release' = release + Released(order, Counted(s, unit, priced))
            /\ cash' = cash + order.filled * unit
            /\ overstated' = overstated + Released(order, Counted(s, unit, priced))
                                        - Released(order, unit)
      BY <2>3 DEF Sell
    <3>2. order \in Order /\ order.quantity = ToSell(s) /\ order.filled \in Nat
      BY <1>1, Reported DEF Order
    <3>3. /\ unit \in Nat /\ order.filled * unit \in Nat
          /\ Released(order, unit) \in Nat /\ Released(order, Counted(s, unit, priced)) \in Nat
          /\ Released(order, unit) <= Released(order, Counted(s, unit, priced))
      BY <1>1, <3>2, Counts
    <3>4. sells' \in [Symbol -> Order]
      BY <3>1, <3>2 DEF TypeOK
    <3>5. cash' \in Int
      <4> HIDE DEF Released, Counted
      <4> QED
        BY <3>1, <3>3 DEF TypeOK
    <3>6. release' \in Nat /\ overstated' \in Nat
      <4>1. release \in Nat /\ overstated \in Nat
        BY DEF TypeOK
      <4> HIDE DEF Released, Counted
      <4> QED
        BY <3>1, <3>3, <4>1
    <3> QED
      BY <1>1, <2>3, <3>1, <3>2, <3>4, <3>5, <3>6 DEF TypeOK, Priced
  <2> QED
    BY <2>1, <2>2, <2>3
<1>4. TypeOK'
  BY <1>2, <1>3 DEF Sell, TypeOK
<1> QED
  BY <1>3, <1>4 DEF Sell, Priced

LEMMA SettleTyped == TypeOK /\ Settle => TypeOK'
<1> SUFFICES ASSUME TypeOK, Settle PROVE TypeOK'
  OBVIOUS
<1>1. PowerAfterSales \in Nat
  BY DEF PowerAfterSales, Reading, Greater, TypeOK
<1>2. investable' \in Nat
  BY <1>1, OrdersAssumption DEF Settle, Investable, Greater
<1>3. deferred' \in BOOLEAN
  BY DEF Settle
<1> QED
  BY <1>1, <1>2, <1>3 DEF Settle, TypeOK, inputVars, brokerVars

LEMMA BuyTyped ==
  ASSUME TypeOK, NEW s \in Symbol, Buy(s)
  PROVE  TypeOK'
<1> DEFINE quantity == IF deferred THEN 0 ELSE BuyQuantity(s, investable)
<1>1. Inputs /\ investable \in Nat
  BY DEF TypeOK, Inputs
<1>2. /\ quantity \in Nat
      /\ quantity > 0 => quantity * Limit(s) <= investable
  BY <1>1, BuyFits
<1>3. Limit(s) \in Nat
  BY <1>1, Amounts
<1>4. quantity * Limit(s) \in Nat
  BY <1>2, <1>3, ProductNat
<1>5. /\ buys' \in [Symbol -> Order] /\ investable' \in Nat
      /\ cash' \in Int /\ owed' \in Int
  <2>1. CASE quantity = 0
    BY <2>1 DEF Buy, TypeOK
  <2>2. CASE quantity # 0 /\ dry
    <3>1. [quantity |-> quantity, filled |-> 0, outcome |-> "dry"] \in Order
      BY <1>2 DEF Order, Outcome
    <3>2. /\ buys' = [buys EXCEPT ![s] =
                        [quantity |-> quantity, filled |-> 0, outcome |-> "dry"]]
          /\ investable' = investable - quantity * Limit(s)
          /\ UNCHANGED <<cash, owed>>
      BY <2>2 DEF Buy
    <3> HIDE DEF quantity
    <3> QED
      BY <1>1, <1>2, <1>4, <2>2, <3>1, <3>2 DEF TypeOK
  <2>3. CASE quantity # 0 /\ ~dry
    <3>1. PICK order \in Report(quantity) :
            /\ buys' = [buys EXCEPT ![s] = order]
            /\ investable' = IF order.outcome = "failed" THEN investable
                             ELSE investable - quantity * Limit(s)
            /\ cash' = cash - order.filled * Limit(s)
            /\ owed' = owed + Unfilled(order) * Limit(s)
      BY <2>3 DEF Buy
    <3> HIDE DEF quantity
    <3>2. order \in Order /\ order.filled \in Nat /\ order.quantity \in Nat
      BY <1>2, Reported DEF Order
    <3>3. order.filled * Limit(s) \in Int
      BY <3>2, <1>3
    <3>4. Unfilled(order) * Limit(s) \in Int
      BY <3>2, <1>3 DEF Unfilled
    <3> QED
      BY <1>1, <1>2, <1>4, <2>3, <3>1, <3>2, <3>3, <3>4 DEF TypeOK
  <2> QED
    BY <2>1, <2>2, <2>3
<1>6. todo' \subseteq Symbol \cup Option
  BY DEF Buy, TypeOK
<1> QED
  BY <1>5, <1>6 DEF Buy, TypeOK, inputVars

LEMMA FillTyped ==
  ASSUME TypeOK, Priced, NEW s \in Symbol, FillSell(s) \/ FillBuy(s)
  PROVE  TypeOK' /\ Priced'
<1> USE DEF inputVars, budgetVars
<1>1. price[s] \in Nat /\ Limit(s) \in Int
  BY OrdersAssumption DEF TypeOK, Limit
<1>2. CASE FillSell(s)
  <2>1. sells' \in [Symbol -> Order] /\ cash' \in Int
    BY <1>1, <1>2, OrdersAssumption DEF FillSell, FillPrices, Greater, TypeOK, Order
  <2>2. TypeOK'
    BY <1>2, <2>1 DEF FillSell, TypeOK
  <2> QED
    BY <1>2, <2>2 DEF FillSell, TypeOK, Priced
<1>3. CASE FillBuy(s)
  <2>1. buys' \in [Symbol -> Order] /\ cash' \in Int /\ owed' \in Int
    BY <1>1, <1>3 DEF FillBuy, TypeOK, Order
  <2>2. TypeOK'
    BY <1>3, <2>1 DEF FillBuy, TypeOK
  <2> QED
    BY <1>3, <2>2 DEF FillBuy, Priced
<1> QED
  BY <1>2, <1>3

LEMMA OptionTyped ==
  ASSUME TypeOK, NEW o \in Option, PlaceOption(o)
  PROVE  TypeOK'
<1>1. Notional[o] \in Nat /\ power \in Nat
  BY OrdersAssumption DEF TypeOK
<1>2. todo' \subseteq Symbol \cup Option
  BY DEF PlaceOption, TypeOK
<1>3. options' \in [Option -> Outcome] /\ power' \in Nat
  <2>1. CASE Notional[o] * 100 > power * 95
    BY <2>1 DEF PlaceOption, TypeOK
  <2>2. CASE ~(Notional[o] * 100 > power * 95)
    <3>1. PICK outcome \in IF dry THEN {"dry"} ELSE {"filled", "pending", "failed"} :
            /\ options' = [options EXCEPT ![o] = outcome]
            /\ power' = IF outcome = "failed" THEN power ELSE power - Notional[o]
      BY <2>2 DEF PlaceOption
    <3>2. Notional[o] <= power
      BY <1>1, <2>2
    <3>3. options' \in [Option -> Outcome]
      BY <3>1 DEF TypeOK, Outcome
    <3> QED
      BY <1>1, <3>1, <3>2, <3>3 DEF TypeOK
  <2> QED
    BY <2>1, <2>2
<1> QED
  BY <1>2, <1>3 DEF PlaceOption, TypeOK, inputVars, brokerVars

LEMMA StepTyped == TypeOK /\ Priced /\ [Next]_vars => TypeOK' /\ Priced'
<1> SUFFICES ASSUME TypeOK, Priced, [Next]_vars PROVE TypeOK' /\ Priced'
  OBVIOUS
<1> USE DEF inputVars, budgetVars, brokerVars
<1>1. CASE Plan
  BY <1>1, PlanTyped
<1>2. CASE Settle
  BY <1>2, SettleTyped DEF Settle, Priced
<1>3. CASE StartOptions
  BY <1>3 DEF StartOptions, TypeOK, Priced
<1>4. CASE Finish
  BY <1>4 DEF Finish, FinalStatus, TypeOK, Priced
<1>5. CASE Refresh
  BY <1>5 DEF Refresh, TypeOK, Priced
<1>6. CASE Ended \/ UNCHANGED vars
  BY <1>6 DEF Ended, vars, TypeOK, Priced
<1>7. ASSUME NEW s \in Symbol, Sell(s) PROVE TypeOK' /\ Priced'
  BY <1>7, SellTyped
<1>8. ASSUME NEW s \in Symbol, Buy(s) PROVE TypeOK' /\ Priced'
  BY <1>8, BuyTyped DEF Buy, Priced
<1>9. ASSUME NEW s \in Symbol, FillSell(s) \/ FillBuy(s) PROVE TypeOK' /\ Priced'
  BY <1>9, FillTyped
<1>10. ASSUME NEW o \in Option, PlaceOption(o) PROVE TypeOK' /\ Priced'
  BY <1>10, OptionTyped DEF PlaceOption, Priced
<1> QED
  BY <1>1, <1>2, <1>3, <1>4, <1>5, <1>6, <1>7, <1>8, <1>9, <1>10 DEF Next

\* Every variable keeps its type: no budget goes below zero.
THEOREM TypeCorrect == Spec => []TypeOK
  BY InitTyped, StepTyped, PTL DEF Spec

-----------------------------------------------------------------------------
(* Targets. *)

\* Nothing is sold before the plan, and nothing bought before the sales.
Fresh ==
  /\ pc = "plan" => release = 0 /\ owed = 0 /\ seen = cash /\ cash \in Cashes
  /\ pc = "plan" => \A s \in Symbol : sells[s] = NoOrder
  /\ pc \in {"plan", "sell"} => owed = 0 /\ investable = 0
  /\ pc \in {"plan", "sell"} => \A s \in Symbol : buys[s] = NoOrder

IInv == TypeOK /\ Priced /\ Fresh /\ WithinTarget

LEMMA InitIInv == Init => IInv
<1> SUFFICES ASSUME Init PROVE IInv
  OBVIOUS
<1>1. \A s \in Symbol : sells[s] = NoOrder /\ buys[s] = NoOrder
  BY DEF Init
<1>2. Fresh
  <2>1. release = 0 /\ investable = 0 /\ owed = 0 /\ seen = cash /\ cash \in Cashes
    BY DEF Init
  <2> QED
    BY <1>1, <2>1 DEF Fresh
<1>3. WithinTarget
  BY <1>1 DEF WithinTarget, NoOrder
<1> QED
  BY <1>2, <1>3, InitTyped DEF IInv

LEMMA StepFresh == TypeOK /\ Priced /\ Fresh /\ [Next]_vars => Fresh'
<1> SUFFICES ASSUME TypeOK, Priced, Fresh, [Next]_vars PROVE Fresh'
  OBVIOUS
<1> USE DEF inputVars, budgetVars, brokerVars, Fresh
<1>1. CASE Plan
  BY <1>1 DEF Plan
<1>2. CASE Settle
  BY <1>2 DEF Settle
<1>3. CASE StartOptions
  BY <1>3 DEF StartOptions
<1>4. CASE Finish
  BY <1>4 DEF Finish
<1>5. CASE Refresh
  BY <1>5 DEF Refresh
<1>6. CASE Ended \/ UNCHANGED vars
  BY <1>6 DEF Ended, vars
<1>7. ASSUME NEW s \in Symbol, Sell(s) PROVE Fresh'
  BY <1>7 DEF Sell
<1>8. ASSUME NEW s \in Symbol, Buy(s) PROVE Fresh'
  BY <1>8 DEF Buy
<1>9. ASSUME NEW s \in Symbol, FillSell(s) PROVE Fresh'
  BY <1>9 DEF FillSell, Unfilled, NoOrder
<1>10. ASSUME NEW s \in Symbol, FillBuy(s) PROVE Fresh'
  BY <1>10 DEF FillBuy, Unfilled, NoOrder
<1>11. ASSUME NEW o \in Option, PlaceOption(o) PROVE Fresh'
  BY <1>11 DEF PlaceOption
<1> QED
  BY <1>1, <1>2, <1>3, <1>4, <1>5, <1>6, <1>7, <1>8, <1>9, <1>10, <1>11 DEF Next

\* One symbol's part of WithinTarget.
BuyWithin(s) ==
  buys[s].quantity > 0 => Value(s) + buys[s].quantity * Limit(s) <= target[s]
SaleWithin(s) ==
  sells[s].quantity > 0 /\ (s # Safe \/ sweep = 0)
    => (held[s] - sells[s].quantity) * price[s] >= target[s]

\* The orders' quantities and the inputs decide WithinTarget.
LEMMA SameQuantities ==
  ASSUME WithinTarget, UNCHANGED inputVars, NEW s \in Symbol,
         buys'[s].quantity = buys[s].quantity,
         sells'[s].quantity = sells[s].quantity, sweep' = sweep
  PROVE  BuyWithin(s)' /\ SaleWithin(s)'
  BY DEF WithinTarget, BuyWithin, SaleWithin, Value, Limit, inputVars

LEMMA StepWithin == TypeOK /\ Priced /\ Fresh /\ WithinTarget /\ [Next]_vars => WithinTarget'
<1> SUFFICES ASSUME TypeOK, Priced, Fresh, WithinTarget, [Next]_vars,
                    NEW z \in Symbol
             PROVE  BuyWithin(z)' /\ SaleWithin(z)'
  BY DEF WithinTarget, BuyWithin, SaleWithin
<1>1. CASE Plan
  <2>1. buys'[z] = NoOrder /\ sells'[z] = NoOrder
    BY <1>1 DEF Plan, Fresh
  <2> QED
    BY <2>1 DEF BuyWithin, SaleWithin, NoOrder
<1>2. CASE Settle \/ StartOptions \/ Finish \/ Refresh \/ Ended \/ UNCHANGED vars
  <2>1. UNCHANGED inputVars /\ buys' = buys /\ sells' = sells /\ sweep' = sweep
    BY <1>2 DEF Settle, StartOptions, Finish, Refresh, Ended, vars, inputVars, budgetVars
  <2> QED
    BY <2>1, SameQuantities
<1>3. ASSUME NEW s \in Symbol, Sell(s) PROVE BuyWithin(z)' /\ SaleWithin(z)'
  <2>1. UNCHANGED inputVars /\ buys' = buys /\ sweep' = sweep
    BY <1>3 DEF Sell
  <2>2. CASE sells'[z].quantity = sells[z].quantity
    BY <2>1, <2>2, SameQuantities
  <2>3. CASE sells'[z].quantity # sells[z].quantity
    <3>1. z = s /\ ToSell(s) # 0
      BY <1>3, <2>3 DEF Sell, TypeOK
    <3>2. ToSell(s) \in Nat
      BY ToSellTyped
    <3>3. sells'[s].quantity = ToSell(s)
      <4>1. CASE dry
        BY <1>3, <3>1, <4>1 DEF Sell, TypeOK
      <4>2. CASE ~dry
        <5>1. PICK order \in Report(ToSell(s)) : sells' = [sells EXCEPT ![s] = order]
          BY <1>3, <3>1, <4>2 DEF Sell
        <5> QED
          BY <3>2, <5>1, Reported DEF TypeOK
      <4> QED
        BY <4>1, <4>2
    <3>4. s # Safe \/ sweep = 0 => Over(s) /\ ToSell(s) = SellQuantity(s)
      BY <3>1 DEF ToSell, TypeOK
    <3>5. Over(s) => (held[s] - SellQuantity(s)) * price[s] >= target[s]
      BY SaleFits DEF TypeOK, Inputs
    <3>6. SaleWithin(s)'
      BY <2>1, <3>3, <3>4, <3>5 DEF SaleWithin, inputVars
    <3>7. BuyWithin(s)'
      BY <2>1 DEF BuyWithin, WithinTarget, Value, Limit, inputVars
    <3> QED
      BY <3>1, <3>6, <3>7
  <2> QED
    BY <2>2, <2>3
<1>4. ASSUME NEW s \in Symbol, Buy(s) PROVE BuyWithin(z)' /\ SaleWithin(z)'
  <2>1. UNCHANGED inputVars /\ sells' = sells /\ sweep' = sweep
    BY <1>4 DEF Buy
  <2>2. CASE buys'[z].quantity = buys[z].quantity
    BY <2>1, <2>2, SameQuantities
  <2>3. CASE buys'[z].quantity # buys[z].quantity
    <3> DEFINE quantity == BuyQuantity(s, investable)
    <3>1. z = s /\ ~deferred /\ quantity # 0
      BY <1>4, <2>3 DEF Buy, TypeOK
    <3>2. /\ quantity \in Nat
          /\ quantity > 0 => Value(s) + quantity * Limit(s) <= target[s]
      BY BuyFits DEF TypeOK, Inputs
    <3>3. buys'[s].quantity = quantity
      <4>1. CASE dry
        BY <1>4, <3>1, <4>1 DEF Buy, TypeOK
      <4>2. CASE ~dry
        <5>1. PICK order \in Report(quantity) : buys' = [buys EXCEPT ![s] = order]
          BY <1>4, <3>1, <4>2 DEF Buy
        <5> QED
          BY <3>2, <5>1, Reported DEF TypeOK
      <4> QED
        BY <4>1, <4>2
    <3> HIDE DEF quantity
    <3>4. BuyWithin(s)'
      BY <2>1, <3>1, <3>2, <3>3 DEF BuyWithin, Value, Limit, inputVars
    <3>5. SaleWithin(s)'
      BY <2>1 DEF SaleWithin, WithinTarget, inputVars
    <3> QED
      BY <3>1, <3>4, <3>5
  <2> QED
    BY <2>2, <2>3
<1>5. ASSUME NEW s \in Symbol, FillSell(s) \/ FillBuy(s)
      PROVE BuyWithin(z)' /\ SaleWithin(z)'
  <2>1. /\ UNCHANGED inputVars /\ sweep' = sweep
        /\ buys'[z].quantity = buys[z].quantity
        /\ sells'[z].quantity = sells[z].quantity
    <3>1. sells[z] \in Order /\ buys[z] \in Order
      BY DEF TypeOK
    <3>2. CASE FillSell(s)
      BY <3>1, <3>2 DEF FillSell, budgetVars, inputVars, TypeOK, Order
    <3>3. CASE FillBuy(s)
      BY <3>1, <3>3 DEF FillBuy, budgetVars, inputVars, TypeOK, Order
    <3> QED
      BY <1>5, <3>2, <3>3
  <2> QED
    BY <2>1, SameQuantities
<1>6. ASSUME NEW o \in Option, PlaceOption(o) PROVE BuyWithin(z)' /\ SaleWithin(z)'
  <2>1. UNCHANGED inputVars /\ buys' = buys /\ sells' = sells /\ sweep' = sweep
    BY <1>6 DEF PlaceOption
  <2> QED
    BY <2>1, SameQuantities
<1> QED
  BY <1>1, <1>2, <1>3, <1>4, <1>5, <1>6 DEF Next

LEMMA StepIInv == IInv /\ [Next]_vars => IInv'
  BY StepTyped, StepFresh, StepWithin DEF IInv

LEMMA Inductive == Spec => []IInv
  BY InitIInv, StepIInv, PTL DEF Spec

\* No buy exceeds the approved target, and no sale but that of the sweep goes
\* below it.
THEOREM TargetsRespected == Spec => []WithinTarget
<1>1. IInv => WithinTarget
  BY DEF IInv
<1> QED
  BY Inductive, <1>1, PTL

-----------------------------------------------------------------------------
(* The final status. *)

\* Only orders that the broker works on fill.
Honest(order) == order.filled > 0 => order.outcome \in {"filled", "partial", "pending"}

Settled ==
  /\ \A s \in Symbol : Honest(sells[s]) /\ Honest(buys[s])
  /\ pc # "done" => status \in {"not_started", "executing"}

LEMMA ReportHonest ==
  ASSUME ~CancelsPartly, NEW quantity \in Nat, NEW order \in Report(quantity)
  PROVE  Honest(order)
  BY Reported DEF Honest

LEMMA FillHonest ==
  ASSUME NEW order \in Order, Unfilled(order) > 0
  PROVE  order.outcome \in {"filled", "partial", "pending"}
  BY DEF Unfilled

LEMMA InitSettled == Init => Settled /\ StatusTruthful
  BY DEF Init, Settled, Honest, NoOrder, StatusTruthful

LEMMA StepSettled ==
  ~CancelsPartly /\ IInv /\ Settled /\ [Next]_vars => Settled'
<1> SUFFICES ASSUME ~CancelsPartly, IInv, Settled, [Next]_vars PROVE Settled'
  OBVIOUS
<1> USE DEF inputVars, budgetVars, brokerVars
<1>0. TypeOK /\ Priced
  BY DEF IInv
<1>1. CASE Plan \/ Settle \/ StartOptions \/ Finish \/ Refresh \/ Ended \/ UNCHANGED vars
  <2>1. buys' = buys /\ sells' = sells
    BY <1>1 DEF Plan, Settle, StartOptions, Finish, Refresh, Ended, vars
  <2>2. pc' # "done" => status' \in {"not_started", "executing"}
    BY <1>1 DEF Plan, Settle, StartOptions, Finish, Refresh, Ended, vars, Settled
  <2> QED
    BY <2>1, <2>2 DEF Settled, Honest
<1>2. ASSUME NEW s \in Symbol, Sell(s) PROVE Settled'
  <2>1. ToSell(s) \in Nat
    BY <1>0, ToSellTyped
  <2>2. \A z \in Symbol : Honest(sells'[z])
    <3>1. CASE ToSell(s) = 0 \/ dry
      BY <1>0, <1>2, <3>1 DEF Sell, Settled, Honest, TypeOK
    <3>2. CASE ~(ToSell(s) = 0 \/ dry)
      <4>1. PICK order \in Report(ToSell(s)) : sells' = [sells EXCEPT ![s] = order]
        BY <1>2, <3>2 DEF Sell
      <4> QED
        BY <1>0, <2>1, <4>1, ReportHonest DEF Settled, TypeOK
    <3> QED
      BY <3>1, <3>2
  <2> QED
    BY <1>2, <2>2 DEF Sell, Settled
<1>3. ASSUME NEW s \in Symbol, Buy(s) PROVE Settled'
  <2> DEFINE quantity == IF deferred THEN 0 ELSE BuyQuantity(s, investable)
  <2>1. quantity \in Nat
    BY <1>0, BuyFits DEF TypeOK, Inputs
  <2>2. \A z \in Symbol : Honest(buys'[z])
    <3>1. CASE quantity = 0 \/ dry
      BY <1>0, <1>3, <3>1 DEF Buy, Settled, Honest, TypeOK
    <3>2. CASE ~(quantity = 0 \/ dry)
      <4>1. PICK order \in Report(quantity) : buys' = [buys EXCEPT ![s] = order]
        BY <1>3, <3>2 DEF Buy
      <4> HIDE DEF quantity
      <4> QED
        BY <1>0, <2>1, <4>1, ReportHonest DEF Settled, TypeOK
    <3> QED
      BY <3>1, <3>2
  <2> QED
    BY <1>3, <2>2 DEF Buy, Settled
<1>4. ASSUME NEW s \in Symbol, FillSell(s) PROVE Settled'
  <2>1. sells[s].outcome \in {"filled", "partial", "pending"}
    BY <1>0, <1>4, FillHonest DEF FillSell, TypeOK
  <2>2. \A z \in Symbol : Honest(sells'[z])
    BY <1>0, <1>4, <2>1 DEF FillSell, Settled, Honest, TypeOK, Order
  <2> QED
    BY <1>4, <2>2 DEF FillSell, Settled
<1>5. ASSUME NEW s \in Symbol, FillBuy(s) PROVE Settled'
  <2>1. buys[s].outcome \in {"filled", "partial", "pending"}
    BY <1>0, <1>5, FillHonest DEF FillBuy, TypeOK
  <2>2. \A z \in Symbol : Honest(buys'[z])
    BY <1>0, <1>5, <2>1 DEF FillBuy, Settled, Honest, TypeOK, Order
  <2> QED
    BY <1>5, <2>2 DEF FillBuy, Settled
<1>6. ASSUME NEW o \in Option, PlaceOption(o) PROVE Settled'
  BY <1>6 DEF PlaceOption, Settled
<1> QED
  BY <1>1, <1>2, <1>3, <1>4, <1>5, <1>6 DEF Next

\* The status follows from the outcomes.
LEMMA TruthfulWhenSettled ==
  ASSUME IInv, Settled, pc # "done" \/ status = FinalStatus \/ \A s \in Symbol :
           sells[s].outcome = "none" /\ buys[s].outcome = "none"
  PROVE  StatusTruthful
<1>1. CASE pc # "done"
  BY <1>1 DEF Settled, StatusTruthful
<1>2. CASE status = FinalStatus
  <2>1. ASSUME NEW s \in Symbol
        PROVE /\ sells[s].outcome \in Outcomes /\ buys[s].outcome \in Outcomes
              /\ Honest(sells[s]) /\ Honest(buys[s])
    BY DEF Outcomes, Settled
  <2>2. status = "executed" => "pending" \notin Outcomes
    BY <1>2 DEF FinalStatus
  <2>3. status \in {"no_op", "blocked"}
          => Outcomes \cap {"filled", "partial", "pending"} = {}
    BY <1>2 DEF FinalStatus
  <2> QED
    BY <2>1, <2>2, <2>3 DEF StatusTruthful, Accepted, Honest
<1>3. CASE \A s \in Symbol : sells[s].outcome = "none" /\ buys[s].outcome = "none"
  BY <1>3 DEF StatusTruthful, Accepted, Settled, Honest
<1> QED
  BY <1>1, <1>2, <1>3

\* What a finished cycle says is FinalStatus, unless it had nothing to place.
Concluded ==
  pc = "done" => \/ status = FinalStatus
                 \/ \A s \in Symbol :
                      sells[s].outcome = "none" /\ buys[s].outcome = "none"

LEMMA StepConcluded == IInv /\ Concluded /\ [Next]_vars => Concluded'
<1> SUFFICES ASSUME IInv, Concluded, [Next]_vars PROVE Concluded'
  OBVIOUS
<1> USE DEF inputVars, budgetVars, brokerVars
<1>0. TypeOK
  BY DEF IInv
<1>1. CASE Plan
  <2>1. \A s \in Symbol : sells'[s] = NoOrder /\ buys'[s] = NoOrder
    BY <1>1 DEF Plan, IInv, Fresh
  <2> QED
    BY <2>1 DEF Concluded, NoOrder
<1>2. CASE Finish
  <2>1. FinalStatus' = FinalStatus
    BY <1>2 DEF Finish, FinalStatus, Outcomes
  <2> QED
    BY <1>2, <2>1 DEF Finish, Concluded
<1>3. CASE Settle \/ StartOptions \/ Refresh
  <2>1. pc' # "done"
    BY <1>3 DEF Settle, StartOptions, Refresh
  <2> QED
    BY <2>1 DEF Concluded
<1>4. CASE Ended \/ UNCHANGED vars
  BY <1>4 DEF Ended, vars, Concluded, FinalStatus, Outcomes
<1>5. ASSUME NEW s \in Symbol, Sell(s) \/ Buy(s) PROVE Concluded'
  BY <1>5 DEF Sell, Buy, Concluded
<1>6. ASSUME NEW s \in Symbol, FillSell(s) \/ FillBuy(s) PROVE Concluded'
  <2>1. /\ pc' = pc /\ status' = status /\ options' = options
        /\ \A z \in Symbol : /\ sells'[z].outcome = sells[z].outcome
                             /\ buys'[z].outcome = buys[z].outcome
    <3>1. \A z \in Symbol : sells[z] \in Order /\ buys[z] \in Order
      BY <1>0 DEF TypeOK
    <3>2. CASE FillSell(s)
      BY <1>0, <3>1, <3>2 DEF FillSell, TypeOK, Order
    <3>3. CASE FillBuy(s)
      BY <1>0, <3>1, <3>3 DEF FillBuy, TypeOK, Order
    <3> QED
      BY <1>6, <3>2, <3>3
  <2>2. Outcomes' = Outcomes
    BY <2>1 DEF Outcomes
  <2>3. FinalStatus' = FinalStatus
    BY <2>2 DEF FinalStatus
  <2> QED
    BY <2>1, <2>3 DEF Concluded
<1>7. ASSUME NEW o \in Option, PlaceOption(o) PROVE Concluded'
  BY <1>7 DEF PlaceOption, Concluded
<1> QED
  BY <1>1, <1>2, <1>3, <1>4, <1>5, <1>6, <1>7 DEF Next

\* The final status is true of every order, as long as no cancelled order has
\* filled in part.
THEOREM StatusIsTruthful == ~CancelsPartly => (Spec => []StatusTruthful)
<1>1. Init => Settled /\ Concluded
  BY InitSettled DEF Init, Concluded
<1>2. ASSUME ~CancelsPartly PROVE Spec => []StatusTruthful
  <2>1. IInv /\ Settled /\ [Next]_vars => Settled'
    BY <1>2, StepSettled
  <2>2. IInv /\ Settled /\ Concluded => StatusTruthful
    BY TruthfulWhenSettled DEF Concluded
  <2> QED
    BY Inductive, <1>1, <2>1, <2>2, StepConcluded, PTL DEF Spec
<1> QED
  BY <1>2

-----------------------------------------------------------------------------
(* The reserve. *)

\* A dry run buys nothing at the broker.
DryBuys == dry => \A s \in Symbol : buys[s].outcome \in {"none", "dry"}

\* What the sizing relies on is really there, and unspoken for.
Funded ==
  ~dry =>
    /\ pc = "sell" => seen <= Funds /\ base + release <= Funds
    /\ pc \in {"buy", "options", "done"} =>
         investable = 0 \/ investable + Reserve <= Funds - owed
    /\ ReserveKept

NoDebt == Cashes \subseteq Nat /\ ~CancelsPartly

LEMMA InitFunded == Init => DryBuys /\ Funded
  BY DEF Init, DryBuys, Funded, NoOrder, ReserveKept, Accepted

LEMMA StepDryBuys == IInv /\ DryBuys /\ [Next]_vars => DryBuys'
<1> SUFFICES ASSUME IInv, DryBuys, [Next]_vars PROVE DryBuys'
  OBVIOUS
<1> USE DEF inputVars, budgetVars, brokerVars
<1>0. TypeOK
  BY DEF IInv
<1>1. CASE Plan \/ Settle \/ StartOptions \/ Finish \/ Refresh \/ Ended \/ UNCHANGED vars
  BY <1>1 DEF Plan, Settle, StartOptions, Finish, Refresh, Ended, vars, DryBuys
<1>2. ASSUME NEW s \in Symbol, Sell(s) \/ FillSell(s) PROVE DryBuys'
  BY <1>2 DEF Sell, FillSell, DryBuys
<1>3. ASSUME NEW s \in Symbol, Buy(s) PROVE DryBuys'
  BY <1>0, <1>3 DEF Buy, DryBuys, TypeOK
<1>4. ASSUME NEW s \in Symbol, FillBuy(s) PROVE DryBuys'
  BY <1>0, <1>4 DEF FillBuy, Unfilled, DryBuys, TypeOK
<1>5. ASSUME NEW o \in Option, PlaceOption(o) PROVE DryBuys'
  BY <1>5 DEF PlaceOption, DryBuys
<1> QED
  BY <1>1, <1>2, <1>3, <1>4, <1>5 DEF Next

LEMMA FundsTyped == TypeOK => Funds \in Int /\ cash <= Funds
BY DEF Funds, TypeOK

LEMMA FundsTypedNext == TypeOK' => Funds' \in Int
BY DEF Funds, TypeOK

LEMMA SameFundsNext == UNCHANGED <<cash, overstated>> => Funds' = Funds
BY DEF Funds

\* The money behind the purchases may grow, and the purchases stay.
LEMMA SameFunds ==
  ASSUME TypeOK, TypeOK', Funded, dry' = dry, investable' = investable,
         Funds' - owed' >= Funds - owed,
         \A s \in Symbol : Accepted(buys[s])' => Accepted(buys[s]),
         pc' = pc \/ (pc \in {"buy", "options"} /\ pc' \in {"buy", "options", "done"}),
         pc' # "sell"
  PROVE  Funded'
<1> SUFFICES ASSUME ~dry PROVE Funded'
  BY DEF Funded
<1>1. /\ ReserveKept
      /\ pc \in {"buy", "options", "done"} =>
           investable = 0 \/ investable + Reserve <= Funds - owed
  BY DEF Funded
<1>2. /\ Funds \in Int /\ owed \in Int /\ Funds' \in Int /\ owed' \in Int
      /\ investable \in Nat /\ Reserve \in Nat
  BY OrdersAssumption, FundsTyped, FundsTypedNext DEF TypeOK
<1>3. ReserveKept'
  <2>1. (\E s \in Symbol : Accepted(buys'[s])) => \E s \in Symbol : Accepted(buys[s])
    BY DEF Accepted
  <2>2. Reserve <= Funds - owed => Reserve <= Funds' - owed'
    <3>1. Reserve \in Int
      BY <1>2
    <3> QED
      BY <1>2, <3>1, CoverGrows
  <2> QED
    BY <1>1, <2>1, <2>2 DEF ReserveKept
<1>4. pc' \in {"buy", "options", "done"} =>
        investable' = 0 \/ investable' + Reserve <= Funds' - owed'
  <2>1. pc' \in {"buy", "options", "done"} => pc \in {"buy", "options", "done"}
    OBVIOUS
  <2>2. investable + Reserve \in Int
    BY <1>2
  <2>3. investable + Reserve <= Funds - owed => investable + Reserve <= Funds' - owed'
    BY <1>2, <2>2, CoverGrows
  <2> QED
    BY <1>1, <2>1, <2>3
<1> QED
  BY <1>3, <1>4 DEF Funded

LEMMA SettleFunded == IInv /\ Funded /\ Settle => Funded'
<1> SUFFICES ASSUME IInv, Funded, Settle, ~dry PROVE Funded'
  BY DEF Funded, Settle, inputVars
<1>1. TypeOK /\ owed = 0 /\ seen <= Funds /\ base + release <= Funds /\ Funds \in Int
  BY FundsTyped DEF IInv, Fresh, Funded, Settle
<1>2. PowerAfterSales <= Funds /\ PowerAfterSales \in Nat
  BY <1>1 DEF PowerAfterSales, Reading, Greater, TypeOK
<1>3. Funds' = Funds /\ owed' = owed /\ pc' = "buy" /\ buys' = buys
  BY SameFundsNext DEF Settle, brokerVars
<1>4. investable' = 0 \/ investable' + Reserve <= Funds' - owed'
  BY <1>1, <1>2, <1>3, OrdersAssumption DEF Settle, Investable, Greater, TypeOK
<1>5. ReserveKept'
  BY <1>3 DEF IInv, Fresh, Settle, ReserveKept, Accepted, NoOrder
<1> QED
  BY <1>3, <1>4, <1>5 DEF Funded

\* What a sale is counted as is in the account, or in what it was overstated by.
LEMMA SellRaises ==
  ASSUME TypeOK, Priced, ~dry, NEW s \in Symbol, Sell(s),
         seen <= Funds, base + release <= Funds
  PROVE  seen' <= Funds' /\ base' + release' <= Funds'
<1>1. seen' = seen /\ base' = base /\ base \in Nat /\ release \in Nat /\ seen \in Int
  BY DEF Sell, TypeOK
<1>2. CASE ToSell(s) = 0
  BY <1>1, <1>2, SameFundsNext DEF Sell
<1>3. CASE ToSell(s) # 0
  <2>1. PICK order \in Report(ToSell(s)), unit \in FillPrices(s), priced \in BOOLEAN :
          /\ release' = release + Released(order, Counted(s, unit, priced))
          /\ cash' = cash + order.filled * unit
          /\ overstated' = overstated + Released(order, Counted(s, unit, priced))
                                      - Released(order, unit)
    BY <1>3 DEF Sell
  <2>2. ToSell(s) \in Nat /\ price[s] \in Nat
    BY ToSellTyped DEF TypeOK
  <2>3. order \in Order
    BY <2>2, Reported
  <2> DEFINE brought == order.filled * unit
             counted == Released(order, Counted(s, unit, priced))
             real == Released(order, unit)
  <2>4. /\ brought \in Nat /\ counted \in Nat /\ real \in Nat
        /\ real <= brought /\ real <= counted
    BY <2>2, <2>3, Counts
  <2>5. release' = release + counted /\ cash' = cash + brought
        /\ overstated' = overstated + counted - real
    BY <2>1
  <2> HIDE DEF brought, counted, real
  <2>6. cash \in Int /\ overstated \in Nat
    BY DEF TypeOK
  <2> QED
    BY <1>1, <2>4, <2>5, <2>6 DEF Funds
<1> QED
  BY <1>2, <1>3

LEMMA SellFunded ==
  ASSUME NoDebt, IInv, Funded, NEW s \in Symbol, Sell(s)
  PROVE  Funded'
<1> SUFFICES ASSUME ~dry PROVE Funded'
  BY DEF Funded, Sell, inputVars
<1>1. TypeOK /\ Priced /\ pc' = "sell" /\ seen' = seen /\ base' = base /\ buys' = buys
  BY DEF IInv, Sell
<1>2. seen <= Funds /\ base + release <= Funds
  BY DEF Funded, Sell
<1>3. seen' <= Funds' /\ base' + release' <= Funds'
  BY <1>1, <1>2, SellRaises
<1>4. ReserveKept'
  BY <1>1 DEF IInv, Fresh, Sell, ReserveKept, Accepted, NoOrder
<1> QED
  BY <1>1, <1>3, <1>4 DEF Funded

LEMMA BuyFunded ==
  ASSUME NoDebt, IInv, IInv', Funded, NEW s \in Symbol, Buy(s)
  PROVE  Funded'
<1> SUFFICES ASSUME ~dry PROVE Funded'
  BY DEF Funded, Buy, inputVars
<1> DEFINE quantity == IF deferred THEN 0 ELSE BuyQuantity(s, investable)
<1>1. TypeOK /\ TypeOK' /\ Inputs /\ dry' = dry /\ pc = "buy" /\ pc' = "buy"
  BY DEF IInv, Buy, inputVars, TypeOK, Inputs
<1>2. /\ quantity \in Nat
      /\ quantity > 0 => quantity * Limit(s) <= investable
  BY <1>1, BuyFits DEF TypeOK
<1>3. Limit(s) \in Nat
  BY <1>1, Amounts
<1>4. quantity * Limit(s) \in Nat
  BY <1>2, <1>3, ProductNat
<1>5. CASE quantity = 0
  <2>1. UNCHANGED <<buys, investable, cash, owed, overstated>>
    BY <1>5 DEF Buy
  <2>2. \A z \in Symbol : Accepted(buys[z])' => Accepted(buys[z])
    BY <2>1
  <2>3. Funds' = Funds /\ Funds \in Int /\ owed \in Int
    BY <1>1, <2>1, FundsTyped, SameFundsNext DEF TypeOK
  <2> HIDE DEF quantity
  <2> QED
    BY <1>1, <2>1, <2>2, <2>3, SameFunds
<1>6. CASE quantity # 0
  <2>1. PICK order \in Report(quantity) :
          /\ buys' = [buys EXCEPT ![s] = order]
          /\ investable' = IF order.outcome = "failed" THEN investable
                           ELSE investable - quantity * Limit(s)
          /\ cash' = cash - order.filled * Limit(s) /\ overstated' = overstated
          /\ owed' = owed + Unfilled(order) * Limit(s)
    BY <1>6 DEF Buy
  <2> HIDE DEF quantity
  <2>2. /\ order.filled \in Nat /\ order.quantity = quantity
        /\ order.outcome \in {"filled", "partial", "pending", "failed"}
        /\ order.outcome = "filled" => order.filled = quantity
        /\ order.outcome = "failed" => order.filled = 0
    BY <1>2, Reported DEF NoDebt, Order
  <2>3. CASE order.outcome = "failed"
    <3>1. Unfilled(order) = 0 /\ order.filled = 0
      BY <2>2, <2>3 DEF Unfilled
    <3>2. Funds' = Funds /\ owed' = owed /\ investable' = investable
      BY <1>1, <1>3, <2>1, <2>3, <3>1 DEF TypeOK, Funds
    <3>3. \A z \in Symbol : Accepted(buys[z])' => Accepted(buys[z])
      BY <1>1, <2>1, <2>2, <2>3 DEF Accepted, TypeOK
    <3>4. Funds \in Int /\ owed \in Int
      BY <1>1, FundsTyped DEF TypeOK
    <3> QED
      BY <1>1, <3>2, <3>3, <3>4, SameFunds
  <2>4. CASE order.outcome # "failed"
    <3>1. order.filled * Limit(s) + Unfilled(order) * Limit(s) = quantity * Limit(s)
      <4>1. CASE order.outcome = "filled"
        <5>1. Unfilled(order) = 0 /\ order.filled = quantity
          BY <2>2, <4>1 DEF Unfilled
        <5> QED
          BY <1>3, <1>4, <5>1
      <4>2. CASE order.outcome # "filled"
        <5>1. Unfilled(order) = quantity - order.filled
          BY <2>2, <2>4, <4>2 DEF Unfilled
        <5> QED
          BY <1>2, <1>3, <2>2, <5>1, ProductSplit
      <4> QED
        BY <4>1, <4>2
    <3>2. order.filled * Limit(s) \in Int /\ Unfilled(order) * Limit(s) \in Int
      BY <1>2, <1>3, <2>2 DEF Unfilled
    <3>3. Funds' - owed' = (Funds - owed) - quantity * Limit(s)
      BY <1>1, <1>4, <2>1, <3>1, <3>2 DEF TypeOK, Funds
    <3>4. Limit(s) > 0 /\ investable > 0
      BY <1>1, <1>2, <1>3, <1>6, BuyPositive DEF quantity, TypeOK
    <3>5. investable + Reserve <= Funds - owed
      BY <1>1, <3>4 DEF Funded, TypeOK
    <3>6. Funds' - owed' >= Reserve /\ investable' + Reserve <= Funds' - owed'
      BY FundsTyped, <1>1, <1>2, <1>4, <1>6, <2>1, <2>4, <3>3, <3>5, OrdersAssumption DEF TypeOK
    <3> QED
      BY <1>1, <3>6 DEF Funded, ReserveKept
  <2> QED
    BY <2>3, <2>4
<1> QED
  BY <1>5, <1>6

LEMMA StepFunded ==
  NoDebt /\ IInv /\ IInv' /\ Funded /\ [Next]_vars => Funded'
<1> SUFFICES ASSUME NoDebt, IInv, IInv', Funded, [Next]_vars PROVE Funded'
  OBVIOUS
<1> USE DEF inputVars, budgetVars, brokerVars
<1>0. /\ TypeOK /\ TypeOK' /\ Priced /\ cash \in Int /\ owed \in Int
      /\ Funds \in Int /\ cash <= Funds /\ Funds' \in Int
  BY FundsTyped, FundsTypedNext DEF IInv, TypeOK
<1>1. CASE Plan
  <2>1. /\ seen = cash /\ cash \in Nat /\ owed = 0 /\ investable = 0 /\ release = 0
        /\ \A s \in Symbol : buys[s] = NoOrder
    BY <1>1 DEF IInv, Fresh, Plan, NoDebt
  <2>2. /\ base' = Reading /\ release' = 0 /\ seen' = cash /\ Funds' = Funds
        /\ investable' = 0 /\ buys' = buys
    BY <1>1, <2>1, SameFundsNext DEF Plan
  <2>3. base' = cash
    BY <2>1, <2>2 DEF Reading, Greater
  <2>4. ReserveKept'
    BY <2>1, <2>2 DEF ReserveKept, Accepted, NoOrder
  <2> QED
    BY <1>0, <2>1, <2>2, <2>3, <2>4 DEF Funded
<1>2. CASE Settle
  BY <1>2, SettleFunded
<1>3. CASE StartOptions \/ Finish
  <2>1. /\ dry' = dry /\ investable' = investable /\ Funds' = Funds /\ owed' = owed
        /\ buys' = buys /\ pc \in {"buy", "options"} /\ pc' \in {"options", "done"}
    BY <1>3, SameFundsNext DEF StartOptions, Finish
  <2> QED
    BY <1>0, <2>1, SameFunds
<1>4. CASE Refresh
  <2>1. Funds' = Funds /\ seen' = cash
    BY <1>4, SameFundsNext DEF Refresh
  <2> QED
    BY <1>0, <1>4, <2>1 DEF Refresh, Funded, ReserveKept, Accepted
<1>5. CASE Ended \/ UNCHANGED vars
  <2>1. Funds' = Funds
    BY <1>5, SameFundsNext DEF Ended, vars
  <2> QED
    BY <1>5, <2>1 DEF Ended, vars, Funded, ReserveKept, Accepted
<1>6. ASSUME NEW s \in Symbol, Sell(s) PROVE Funded'
  BY <1>6, SellFunded
<1>7. ASSUME NEW s \in Symbol, Buy(s) PROVE Funded'
  BY <1>7, BuyFunded
<1>8. ASSUME NEW s \in Symbol, FillSell(s) PROVE Funded'
  <2>1. sells[s].quantity > 0
    BY <1>0, <1>8 DEF FillSell, Unfilled, TypeOK, Order
  <2>2. price[s] \in Nat /\ price[s] > 0
    BY <1>0, <2>1 DEF Priced, TypeOK
  <2>3. PICK proceeds \in FillPrices(s) : cash' = cash + proceeds
    BY <1>8 DEF FillSell
  <2>4. Funds' >= Funds
    <3>1. proceeds \in Nat
      BY <2>2, OrdersAssumption DEF FillPrices, Greater
    <3>2. overstated' = overstated
      BY <1>8 DEF FillSell
    <3> QED
      BY <1>0, <2>3, <3>1, <3>2 DEF Funds, TypeOK
  <2>5. /\ dry' = dry /\ investable' = investable /\ owed' = owed /\ buys' = buys
        /\ pc' = pc /\ seen' = seen /\ base' = base /\ release' = release
    BY <1>8 DEF FillSell
  <2>6. CASE pc = "sell"
    BY <1>0, <2>4, <2>5, <2>6 DEF Funded, ReserveKept, TypeOK, IInv, Fresh,
       Accepted, NoOrder
  <2>7. CASE pc # "sell"
    <3>1. Funds' - owed' >= Funds - owed
      <4>1. owed' = owed
        BY <2>5
      <4> QED
        BY <1>0, <2>4, <4>1, CashGrows
    <3>2. \A z \in Symbol : Accepted(buys[z])' => Accepted(buys[z])
      BY <2>5
    <3> QED
      BY <1>0, <2>5, <2>7, <3>1, <3>2, SameFunds
  <2> QED
    BY <2>6, <2>7
<1>9. ASSUME NEW s \in Symbol, FillBuy(s) PROVE Funded'
  <2>1. buys[s] \in Order /\ Unfilled(buys[s]) > 0 /\ Limit(s) \in Int
    BY <1>0, <1>9, OrdersAssumption DEF FillBuy, TypeOK, Limit
  <2>2. Accepted(buys[s])
    BY <2>1, FillHonest DEF Accepted
  <2>3. /\ dry' = dry /\ investable' = investable /\ Funds' - owed' = Funds - owed
        /\ pc' = pc
    BY <1>0, <1>9, <2>1 DEF FillBuy, Funds, TypeOK
  <2>4. pc # "sell"
    BY <2>2 DEF IInv, Fresh, Accepted, NoOrder
  <2>5. \A z \in Symbol : Accepted(buys[z])' => Accepted(buys[z])
    BY <1>0, <1>9, <2>2 DEF FillBuy, Accepted, TypeOK
  <2> QED
    BY <1>0, <2>3, <2>4, <2>5, SameFunds
<1>10. ASSUME NEW o \in Option, PlaceOption(o) PROVE Funded'
  <2>1. /\ dry' = dry /\ investable' = investable /\ Funds' = Funds /\ owed' = owed
        /\ buys' = buys /\ pc' = pc /\ pc = "options"
    BY <1>10, SameFundsNext DEF PlaceOption
  <2> QED
    BY <2>1 DEF Funded, ReserveKept, Accepted
<1> QED
  BY <1>1, <1>2, <1>3, <1>4, <1>5, <1>6, <1>7, <1>8, <1>9, <1>10 DEF Next

\* In an account without a debt, and unless cancelled orders fill in part, a cycle
\* never spends its reserve on shares, but for what sales reported without a fill price
\* brought less than their quote (the buying power of execute_rebalance,
\* application/execution_service.py:1995).
THEOREM ReserveIsKept == NoDebt => (Spec => []ReserveKept)
<1>1. ASSUME NoDebt PROVE Spec => []ReserveKept
  <2>1. IInv /\ IInv' /\ Funded /\ [Next]_vars => Funded'
    BY <1>1, StepFunded
  <2>2. IInv /\ Settled /\ [Next]_vars => Settled'
    BY <1>1, StepSettled DEF NoDebt
  <2>3. DryBuys /\ Settled /\ Funded => ReserveKept
    BY DEF DryBuys, Settled, Honest, Funded, ReserveKept, Accepted
  <2> QED
    BY Inductive, InitSettled, InitFunded, StepDryBuys, <2>1, <2>2, <2>3, PTL DEF Spec
<1> QED
  BY <1>1

-----------------------------------------------------------------------------
(* Sums. *)

\* Of some subsets of a finite set one contains no other.
LEMMA SmallestSubset ==
  ASSUME NEW S, IsFiniteSet(S), NEW F \in (SUBSET SUBSET S) \ {{}}
  PROVE  \E A \in F : \A B \in F : B \subseteq A => B = A
<1>1. IsWellFoundedOn(StrictSubsetOrdering(S), SUBSET S)
  <2>1. FiniteSubsetsOf(S) = SUBSET S
    BY FS_FiniteSubsetsOfFinite
  <2> QED BY <2>1, FS_StrictSubsetOrderingWellFounded
<1>2. PICK A \in F : \A B \in F : ~ (<<B, A>> \in StrictSubsetOrdering(S))
  BY <1>1, WFMin
<1>3. \A B \in F : B \subseteq A => B = A
  BY <1>2 DEF StrictSubsetOrdering
<1> QED BY <1>3

\* MapThenSumSet takes the elements of a set in this order.
Pick(A) == CHOOSE y \in A : TRUE

LEMMA PickOne == ASSUME NEW A, A # {} PROVE Pick(A) \in A
BY DEF Pick

\* g sums f over every subset of S.
Sums(g, f, S) ==
  g = [A \in SUBSET S |-> IF A = {} THEN 0 ELSE f[Pick(A)] + g[A \ {Pick(A)}]]

LEMMA SumsAt ==
  ASSUME NEW S, NEW f, NEW g, Sums(g, f, S), NEW A \in SUBSET S
  PROVE  g[A] = IF A = {} THEN 0 ELSE f[Pick(A)] + g[A \ {Pick(A)}]
<1> DEFINE body == [B \in SUBSET S |-> IF B = {} THEN 0 ELSE f[Pick(B)] + g[B \ {Pick(B)}]]
<1>1. g = body
  BY DEF Sums
<1>2. body[A] = IF A = {} THEN 0 ELSE f[Pick(A)] + g[A \ {Pick(A)}]
  OBVIOUS
<1> HIDE DEF body
<1> QED BY <1>1, <1>2

\* A sum depends on the values in the set only.
LEMMA SumsAgree ==
  ASSUME NEW S, IsFiniteSet(S), NEW T, NEW f, NEW e, NEW g, NEW h,
         Sums(g, f, S), Sums(h, e, T),
         NEW D \in SUBSET S, D \subseteq T, \A z \in D : f[z] = e[z]
  PROVE  g[D] = h[D]
<1> DEFINE F == {A \in SUBSET D : g[A] # h[A]}
<1>1. SUFFICES ASSUME F # {} PROVE FALSE
  OBVIOUS
<1>2. IsFiniteSet(D) /\ F \in (SUBSET SUBSET D) \ {{}}
  BY <1>1, FS_Subset
<1>3. PICK A \in F : \A B \in F : B \subseteq A => B = A
  <2> HIDE DEF F
  <2> QED BY <1>2, SmallestSubset
<1>4. A \in SUBSET S /\ A \in SUBSET T /\ A \in SUBSET D /\ g[A] # h[A]
  OBVIOUS
<1>5. /\ g[A] = IF A = {} THEN 0 ELSE f[Pick(A)] + g[A \ {Pick(A)}]
      /\ h[A] = IF A = {} THEN 0 ELSE e[Pick(A)] + h[A \ {Pick(A)}]
  <2>1. g[A] = IF A = {} THEN 0 ELSE f[Pick(A)] + g[A \ {Pick(A)}]
    BY <1>4, SumsAt
  <2>2. h[A] = IF A = {} THEN 0 ELSE e[Pick(A)] + h[A \ {Pick(A)}]
    BY <1>4, SumsAt
  <2> QED BY <2>1, <2>2
<1>6. A # {} /\ Pick(A) \in A
  BY <1>4, <1>5, PickOne
<1>7. g[A \ {Pick(A)}] = h[A \ {Pick(A)}]
  <2>1. A \ {Pick(A)} \in SUBSET D /\ A \ {Pick(A)} # A
    BY <1>4, <1>6
  <2> QED BY <1>3, <2>1
<1>8. f[Pick(A)] = e[Pick(A)]
  BY <1>4, <1>6
<1>9. f[Pick(A)] + g[A \ {Pick(A)}] = e[Pick(A)] + h[A \ {Pick(A)}]
  BY <1>7, <1>8
<1> QED BY <1>4, <1>5, <1>6, <1>9, Zenon

\* There are sums: the sums of the subsets, put together.
LEMMA SumsExist ==
  ASSUME NEW S, IsFiniteSet(S), NEW f
  PROVE  \E g : Sums(g, f, S)
<1> DEFINE F == {A \in SUBSET S : ~ \E g : Sums(g, f, A)}
<1>1. SUFFICES ASSUME F # {} PROVE FALSE
  OBVIOUS
<1>2. F \in (SUBSET SUBSET S) \ {{}}
  BY <1>1
<1>3. PICK A \in F : \A B \in F : B \subseteq A => B = A
  <2> HIDE DEF F
  <2> QED BY <1>2, SmallestSubset
<1>4. A \in SUBSET S /\ IsFiniteSet(A) /\ ~ \E g : Sums(g, f, A)
  BY FS_Subset
<1> DEFINE of(B) == CHOOSE g : Sums(g, f, B)
<1>0. PICK g : g = [B \in SUBSET A |->
                      IF B = {} THEN 0 ELSE f[Pick(B)] + of(B \ {Pick(B)})[B \ {Pick(B)}]]
  OBVIOUS
<1>5. ASSUME NEW B \in SUBSET A, B # A PROVE Sums(of(B), f, B)
  <2>1. B \notin F /\ B \in SUBSET S
    BY <1>3, <1>4, <1>5
  <2> QED BY <2>1
<1>6. ASSUME NEW B \in SUBSET A, B # A PROVE g[B] = of(B)[B]
  <2>1. of(B)[B] = IF B = {} THEN 0 ELSE f[Pick(B)] + of(B)[B \ {Pick(B)}]
    BY <1>5, <1>6, SumsAt
  <2>0. g[B] = IF B = {} THEN 0 ELSE f[Pick(B)] + of(B \ {Pick(B)})[B \ {Pick(B)}]
    BY <1>0
  <2>2. CASE B = {}
    BY <2>0, <2>1, <2>2
  <2>3. CASE B # {}
    <3> DEFINE C == B \ {Pick(B)}
    <3>1. Pick(B) \in B /\ C \in SUBSET A /\ C # A /\ C \in SUBSET B
      BY <1>6, <2>3, PickOne
    <3>2. Sums(of(B), f, B) /\ Sums(of(C), f, C) /\ IsFiniteSet(B)
      BY <1>4, <1>5, <1>6, <3>1, FS_Subset
    <3>3. of(B)[C] = of(C)[C]
      <4> HIDE DEF of, C
      <4> QED BY <3>1, <3>2, SumsAgree
    <3> HIDE DEF of
    <3> QED BY <2>0, <2>1, <2>3, <3>3
  <2> QED BY <2>2, <2>3
<1>7. Sums(g, f, A)
  <2>1. ASSUME NEW B \in SUBSET A, B # {}
        PROVE  g[B \ {Pick(B)}] = of(B \ {Pick(B)})[B \ {Pick(B)}]
    <3>1. B \ {Pick(B)} \in SUBSET A /\ B \ {Pick(B)} # A
      BY <2>1, PickOne
    <3> HIDE DEF of
    <3> QED BY <1>6, <3>1
  <2>2. g = [B \in SUBSET A |-> IF B = {} THEN 0 ELSE f[Pick(B)] + g[B \ {Pick(B)}]]
    <3> HIDE DEF of
    <3> QED BY <1>0, <2>1
  <2> QED BY <2>2 DEF Sums
<1> QED BY <1>4, <1>7

\* Sums of natural numbers.
LEMMA SumsNat ==
  ASSUME NEW S, IsFiniteSet(S), NEW f \in [S -> Nat], NEW g, Sums(g, f, S), NEW D \in SUBSET S
  PROVE  g[D] \in Nat
<1> DEFINE F == {A \in SUBSET S : g[A] \notin Nat}
<1>1. SUFFICES ASSUME F # {} PROVE FALSE
  OBVIOUS
<1>2. F \in (SUBSET SUBSET S) \ {{}}
  BY <1>1
<1>3. PICK A \in F : \A B \in F : B \subseteq A => B = A
  <2> HIDE DEF F
  <2> QED BY <1>2, SmallestSubset
<1>4. A \in SUBSET S /\ g[A] \notin Nat
  OBVIOUS
<1>5. g[A] = IF A = {} THEN 0 ELSE f[Pick(A)] + g[A \ {Pick(A)}]
  BY <1>4, SumsAt
<1>6. A # {} /\ Pick(A) \in A
  BY <1>4, <1>5, PickOne
<1>7. g[A \ {Pick(A)}] \in Nat
  <2>1. A \ {Pick(A)} \in SUBSET S /\ A \ {Pick(A)} # A
    BY <1>4, <1>6
  <2> QED BY <1>3, <2>1
<1>8. f[Pick(A)] \in Nat
  BY <1>4, <1>6
<1> QED BY <1>4, <1>5, <1>6, <1>7, <1>8

\* If one value changes, so does the sum, by as much.
LEMMA OneChanges ==
  ASSUME NEW S, IsFiniteSet(S), NEW f \in [S -> Nat], NEW e \in [S -> Nat], NEW z \in S,
         NEW g, NEW h, Sums(g, f, S), Sums(h, e, S), \A y \in S \ {z} : e[y] = f[y]
  PROVE  h[S] = g[S] + e[z] - f[z]
<1> DEFINE F == {A \in SUBSET S : z \in A /\ h[A] # g[A] + e[z] - f[z]}
<1>1. SUFFICES ASSUME F # {} PROVE FALSE
  OBVIOUS
<1>2. F \in (SUBSET SUBSET S) \ {{}}
  BY <1>1
<1>3. PICK A \in F : \A B \in F : B \subseteq A => B = A
  <2> HIDE DEF F
  <2> QED BY <1>2, SmallestSubset
<1>4. A \in SUBSET S /\ z \in A /\ h[A] # g[A] + e[z] - f[z]
  OBVIOUS
<1>5. Pick(A) \in A
  BY <1>4, PickOne
<1>0. /\ g[A] = IF A = {} THEN 0 ELSE f[Pick(A)] + g[A \ {Pick(A)}]
      /\ h[A] = IF A = {} THEN 0 ELSE e[Pick(A)] + h[A \ {Pick(A)}]
  <2> HIDE DEF F
  <2>1. A \in SUBSET S
    BY <1>4
  <2>2. ASSUME NEW k, NEW d, Sums(k, d, S)
        PROVE  k[A] = IF A = {} THEN 0 ELSE d[Pick(A)] + k[A \ {Pick(A)}]
    BY <2>1, <2>2, SumsAt
  <2> QED BY <2>2
<1> DEFINE B == A \ {Pick(A)}
<1>6. g[A] = f[Pick(A)] + g[B] /\ h[A] = e[Pick(A)] + h[B]
  BY <1>0, <1>4, Zenon
<1>7. B \in SUBSET S /\ B # A
  BY <1>4, <1>5
<1>8. g[B] \in Nat /\ h[B] \in Nat
  BY <1>7, SumsNat
<1>9. f[Pick(A)] \in Nat /\ e[Pick(A)] \in Nat /\ f[z] \in Nat /\ e[z] \in Nat
  BY <1>4, <1>5
<1>10. CASE Pick(A) = z
  <2>1. \A y \in B : f[y] = e[y]
    BY <1>7, <1>10
  <2>2. g[B] = h[B]
    <3> HIDE DEF B
    <3> QED BY <1>7, <2>1, SumsAgree
  <2> HIDE DEF B
  <2> QED BY <1>4, <1>6, <1>8, <1>9, <1>10, <2>2
<1>11. CASE Pick(A) # z
  <2>1. z \in B /\ e[Pick(A)] = f[Pick(A)]
    BY <1>4, <1>5, <1>11
  <2>2. h[B] = g[B] + e[z] - f[z]
    BY <1>3, <1>7, <2>1
  <2> HIDE DEF B
  <2> QED BY <1>4, <1>6, <1>8, <1>9, <2>1, <2>2
<1> QED BY <1>10, <1>11

\* Nothing adds up to nothing.
LEMMA SumOfZeros ==
  ASSUME NEW S, IsFiniteSet(S), NEW f \in [S -> {0}], NEW g, Sums(g, f, S), NEW D \in SUBSET S
  PROVE  g[D] = 0
<1> DEFINE F == {A \in SUBSET S : g[A] # 0}
<1>1. SUFFICES ASSUME F # {} PROVE FALSE
  OBVIOUS
<1>2. F \in (SUBSET SUBSET S) \ {{}}
  BY <1>1
<1>3. PICK A \in F : \A B \in F : B \subseteq A => B = A
  <2> HIDE DEF F
  <2> QED BY <1>2, SmallestSubset
<1>4. A \in SUBSET S /\ g[A] # 0
  OBVIOUS
<1>5. g[A] = IF A = {} THEN 0 ELSE f[Pick(A)] + g[A \ {Pick(A)}]
  BY <1>4, SumsAt
<1>6. A # {} /\ Pick(A) \in A
  BY <1>4, <1>5, PickOne
<1>7. g[A \ {Pick(A)}] = 0
  <2>1. A \ {Pick(A)} \in SUBSET S /\ A \ {Pick(A)} # A
    BY <1>4, <1>6
  <2> QED BY <1>3, <2>1
<1>8. f[Pick(A)] = 0
  BY <1>4, <1>6
<1> QED BY <1>4, <1>5, <1>6, <1>7, <1>8

-----------------------------------------------------------------------------

(* Options. *)

\* What each option, and each purchase, has cost: Staked and Spent are their sums.
Stakes == [o \in Option |-> IF options[o] \in {"filled", "pending"} THEN Notional[o] ELSE 0]
Outlays == [s \in Symbol |-> buys[s].filled * Limit(s)]

LEMMA StakedIsSum == \E g : Sums(g, Stakes, Option) /\ Staked = g[Option]
<1> DEFINE Cost(o) == IF options[o] \in {"filled", "pending"} THEN Notional[o] ELSE 0
           raw(g) == [s \in SUBSET Option |->
                        IF s = {} THEN 0
                        ELSE Cost(CHOOSE x \in s : TRUE) + g[s \ {CHOOSE x \in s : TRUE}]]
<1>1. Staked = (CHOOSE g : g = raw(g))[Option]
  BY DEF Staked, MapThenSumSet, MapThenFoldSet
<1>2. ASSUME NEW g PROVE g = raw(g) <=> Sums(g, Stakes, Option)
  <2>1. ASSUME NEW s \in SUBSET Option, s # {}
        PROVE  Cost(CHOOSE x \in s : TRUE) = Stakes[Pick(s)]
    <3>1. Pick(s) \in Option /\ Pick(s) = CHOOSE x \in s : TRUE
      BY <2>1, PickOne DEF Pick
    <3> QED BY <3>1 DEF Stakes
  <2>2. raw(g) = [s \in SUBSET Option |->
                    IF s = {} THEN 0 ELSE Stakes[Pick(s)] + g[s \ {Pick(s)}]]
    <3> HIDE DEF Cost
    <3> QED BY <2>1 DEF Pick
  <2> HIDE DEF raw
  <2> QED BY <2>2 DEF Sums
<1>3. \E g : g = raw(g)
  <2>1. PICK g : Sums(g, Stakes, Option)
    BY SumsExist, OrdersAssumption
  <2> HIDE DEF raw
  <2> QED BY <2>1, <1>2
<1> HIDE DEF raw
<1>4. PICK g : g = (CHOOSE k : k = raw(k))
  OBVIOUS
<1>5. g = raw(g)
  BY <1>3, <1>4
<1> QED BY <1>1, <1>2, <1>4, <1>5

LEMMA SpentIsSum == \E g : Sums(g, Outlays, Symbol) /\ Spent = g[Symbol]
<1> DEFINE Cost(s) == buys[s].filled * Limit(s)
           raw(g) == [s \in SUBSET Symbol |->
                        IF s = {} THEN 0
                        ELSE Cost(CHOOSE x \in s : TRUE) + g[s \ {CHOOSE x \in s : TRUE}]]
<1>1. Spent = (CHOOSE g : g = raw(g))[Symbol]
  BY DEF Spent, Total, MapThenSumSet, MapThenFoldSet
<1>2. ASSUME NEW g PROVE g = raw(g) <=> Sums(g, Outlays, Symbol)
  <2>1. ASSUME NEW s \in SUBSET Symbol, s # {}
        PROVE  Cost(CHOOSE x \in s : TRUE) = Outlays[Pick(s)]
    <3>1. Pick(s) \in Symbol /\ Pick(s) = CHOOSE x \in s : TRUE
      BY <2>1, PickOne DEF Pick
    <3> QED BY <3>1 DEF Outlays
  <2>2. raw(g) = [s \in SUBSET Symbol |->
                    IF s = {} THEN 0 ELSE Outlays[Pick(s)] + g[s \ {Pick(s)}]]
    <3> HIDE DEF Cost
    <3> QED BY <2>1 DEF Pick
  <2> HIDE DEF raw
  <2> QED BY <2>2 DEF Sums
<1>3. \E g : g = raw(g)
  <2>1. PICK g : Sums(g, Outlays, Symbol)
    BY SumsExist, OrdersAssumption
  <2> HIDE DEF raw
  <2> QED BY <2>1, <1>2
<1> HIDE DEF raw
<1>4. PICK g : g = (CHOOSE k : k = raw(k))
  OBVIOUS
<1>5. g = raw(g)
  BY <1>3, <1>4
<1> QED BY <1>1, <1>2, <1>4, <1>5


\* The same after a step.
LEMMA StakedIsSumNext == (\E g : Sums(g, Stakes, Option) /\ Staked = g[Option])'
BY StakedIsSum, PTL

LEMMA SpentIsSumNext == (\E g : Sums(g, Outlays, Symbol) /\ Spent = g[Symbol])'
BY SpentIsSum, PTL

LEMMA Amounted ==
  ASSUME TypeOK
  PROVE  Stakes \in [Option -> Nat] /\ Outlays \in [Symbol -> Nat] /\ Staked \in Nat /\ Spent \in Nat
<1>1. Stakes \in [Option -> Nat]
  BY OrdersAssumption DEF Stakes
<1>2. Outlays \in [Symbol -> Nat]
  <2>1. ASSUME NEW s \in Symbol PROVE buys[s].filled * Limit(s) \in Nat
    <3>1. buys[s].filled \in Nat /\ Limit(s) \in Nat
      BY OrdersAssumption DEF TypeOK, Order, Limit
    <3> QED BY <3>1, ProductNat
  <2> QED BY <2>1 DEF Outlays
<1>3. Staked \in Nat
  BY <1>1, StakedIsSum, SumsNat, OrdersAssumption
<1>4. Spent \in Nat
  BY <1>2, SpentIsSum, SumsNat, OrdersAssumption
<1> QED BY <1>1, <1>2, <1>3, <1>4

LEMMA AmountedNext == (TypeOK => Outlays \in [Symbol -> Nat] /\ Staked \in Nat /\ Spent \in Nat)'
<1>1. TypeOK => Outlays \in [Symbol -> Nat] /\ Staked \in Nat /\ Spent \in Nat
  BY Amounted
<1> QED BY <1>1, PTL

LEMMA NothingStaked ==
  ASSUME \A o \in Option : options[o] \notin {"filled", "pending"}
  PROVE  Staked = 0
<1>1. Stakes \in [Option -> {0}]
  BY DEF Stakes
<1> QED BY <1>1, StakedIsSum, SumOfZeros, OrdersAssumption

LEMMA NothingStakedNext ==
  ((\A o \in Option : options[o] \notin {"filled", "pending"}) => Staked = 0)'
<1>1. (\A o \in Option : options[o] \notin {"filled", "pending"}) => Staked = 0
  BY NothingStaked
<1> QED BY <1>1, PTL

LEMMA NothingSpent ==
  ASSUME TypeOK, \A s \in Symbol : buys[s].filled = 0
  PROVE  Spent = 0
<1>1. \A s \in Symbol : Limit(s) \in Int /\ buys[s].filled * Limit(s) = 0
  BY OrdersAssumption DEF TypeOK, Limit
<1>2. Outlays \in [Symbol -> {0}]
  BY <1>1 DEF Outlays
<1> QED BY <1>2, SpentIsSum, SumOfZeros, OrdersAssumption

\* What one option, and one purchase, add.
LEMMA StakedChanges ==
  ASSUME TypeOK, TypeOK', NEW o \in Option, \A y \in Option \ {o} : options'[y] = options[y]
  PROVE  Staked' = Staked + Stakes'[o] - Stakes[o]
<1>1. /\ Stakes \in [Option -> Nat] /\ Stakes' \in [Option -> Nat]
      /\ \A y \in Option \ {o} : Stakes'[y] = Stakes[y]
  <2>1. Stakes \in [Option -> Nat] /\ Stakes' \in [Option -> Nat]
    BY OrdersAssumption DEF Stakes
  <2>2. \A y \in Option \ {o} : Stakes'[y] = Stakes[y]
    BY DEF Stakes
  <2> QED BY <2>1, <2>2
<1>2. PICK g : Sums(g, Stakes, Option) /\ Staked = g[Option]
  BY StakedIsSum
<1>3. \E h : Sums(h, Stakes', Option) /\ Staked' = h[Option]
  BY StakedIsSumNext DEF Sums
<1>4. PICK h : Sums(h, Stakes', Option) /\ Staked' = h[Option]
  BY <1>3
<1>5. h[Option] = g[Option] + Stakes'[o] - Stakes[o]
  BY <1>1, <1>2, <1>4, OneChanges, OrdersAssumption
<1> QED BY <1>2, <1>4, <1>5

LEMMA SpentChanges ==
  ASSUME TypeOK, TypeOK', price' = price, NEW s \in Symbol,
         \A y \in Symbol \ {s} : buys'[y] = buys[y]
  PROVE  Spent' = Spent + Outlays'[s] - Outlays[s]
<1>1. Outlays \in [Symbol -> Nat] /\ Outlays' \in [Symbol -> Nat]
  BY Amounted, AmountedNext
<1>2. \A y \in Symbol \ {s} : Outlays'[y] = Outlays[y]
  BY DEF Outlays, Limit
<1>3. PICK g : Sums(g, Outlays, Symbol) /\ Spent = g[Symbol]
  BY SpentIsSum
<1>4. \E h : Sums(h, Outlays', Symbol) /\ Spent' = h[Symbol]
  BY SpentIsSumNext DEF Sums
<1>5. PICK h : Sums(h, Outlays', Symbol) /\ Spent' = h[Symbol]
  BY <1>4
<1>6. h[Symbol] = g[Symbol] + Outlays'[s] - Outlays[s]
  BY <1>1, <1>2, <1>3, <1>5, OneChanges, OrdersAssumption
<1> QED BY <1>3, <1>5, <1>6

LEMMA SameSums ==
  ASSUME TypeOK, TypeOK', price' = price
  PROVE  /\ options' = options => Staked' = Staked
         /\ buys' = buys => Spent' = Spent
<1>1. ASSUME options' = options PROVE Staked' = Staked
  <2>1. CASE Option = {}
    <3>1. Staked = 0
      BY <2>1, NothingStaked
    <3>2. \A o \in Option : options'[o] \notin {"filled", "pending"}
      BY <2>1
    <3> QED BY <3>1, <3>2, NothingStakedNext
  <2>2. ASSUME NEW o \in Option PROVE Staked' = Staked
    <3>1. Staked' = Staked + Stakes'[o] - Stakes[o]
      BY <1>1, StakedChanges
    <3>2. Stakes'[o] = Stakes[o] /\ Stakes[o] \in Nat /\ Staked \in Nat
      BY <1>1, <2>2, Amounted DEF Stakes
    <3> QED BY <3>1, <3>2
  <2> QED BY <2>1, <2>2
<1>2. ASSUME buys' = buys PROVE Spent' = Spent
  <2>1. Safe \in Symbol
    BY OrdersAssumption
  <2>2. Spent' = Spent + Outlays'[Safe] - Outlays[Safe]
    BY <1>2, <2>1, SpentChanges
  <2>3. Outlays'[Safe] = Outlays[Safe] /\ Outlays[Safe] \in Nat /\ Spent \in Nat
    BY <1>2, <2>1, Amounted DEF Outlays, Limit
  <2> QED BY <2>2, <2>3
<1> QED BY <1>1, <1>2

-----------------------------------------------------------------------------

\* Before the options none is placed, and a purchase is placed once; the stakes and the
\* power to place more are covered.
Backed ==
  /\ pc \in {"plan", "sell"} => \A o \in Option : options[o] = "none"
  /\ dry => \A o \in Option : options[o] \in {"none", "dry"}
  /\ pc = "buy" => \A s \in Symbol : s \in todo => buys[s] = NoOrder
  /\ ~dry =>
       /\ pc = "sell" => seen <= Funds /\ base + release <= Funds
       /\ pc \in {"buy", "options"} => Staked + power <= Funds + Spent
       /\ OptionsCovered

(* Arithmetic of the cover. *)

LEMMA MoneyKept ==
  ASSUME NEW a \in Nat, NEW p \in Nat, NEW c \in Int, NEW n \in Nat, NEW d \in Int, NEW m \in Nat,
         d + m >= c + n
  PROVE  /\ a + p <= c + n => a + p <= d + m
         /\ a <= c + n => a <= d + m
  OBVIOUS

LEMMA MoneyGrows ==
  ASSUME NEW c \in Int, NEW n \in Nat, NEW d \in Int, d >= c
  PROVE  d + n >= c + n
  OBVIOUS

LEMMA MoneySpent ==
  ASSUME NEW c \in Int, NEW n \in Nat, NEW u \in Nat, NEW o \in Nat, NEW d, NEW m,
         d = c - u, m = n + (o + u) - o
  PROVE  d + m >= c + n
  OBVIOUS

LEMMA StakeAlone ==
  ASSUME NEW a \in Nat, NEW p \in Nat, NEW c \in Int, NEW n \in Nat, a + p <= c + n
  PROVE  a <= c + n
  OBVIOUS

LEMMA InitBacked == Init => Backed
<1> SUFFICES ASSUME Init PROVE Backed
  OBVIOUS
<1>1. pc = "plan" /\ \A o \in Option : options[o] = "none"
  BY DEF Init
<1>2. Staked = 0
  BY <1>1, NothingStaked
<1> QED BY <1>1, <1>2 DEF Backed, OptionsCovered

\* Nothing is placed, the money is the same or more.
LEMMA SameBacked ==
  ASSUME TypeOK, TypeOK', Backed, UNCHANGED <<dry, price, options, power>>,
         Funds' + Spent' >= Funds + Spent,
         pc' = pc \/ (pc = "buy" /\ pc' = "options") \/ (pc = "options" /\ pc' = "done"),
         pc' \notin {"plan", "sell"},
         pc' = "buy" => \A s \in Symbol : s \in todo' => buys'[s] = NoOrder
  PROVE  Backed'
<1>1. Staked' = Staked /\ Staked \in Nat /\ Spent \in Nat /\ Spent' \in Nat
  BY SameSums, Amounted, AmountedNext
<1>2. Funds \in Int /\ Funds' \in Int /\ power \in Nat
  BY FundsTyped, FundsTypedNext DEF TypeOK
<1>3. ASSUME ~dry PROVE /\ pc' \in {"buy", "options"} => Staked' + power' <= Funds' + Spent'
                        /\ OptionsCovered'
  <2>1. pc \in {"buy", "options"} => Staked + power <= Funds + Spent
    BY <1>3 DEF Backed
  <2>2. Staked > 0 => Staked <= Funds + Spent
    BY <1>3 DEF Backed, OptionsCovered
  <2>3. pc' \in {"buy", "options"} => pc \in {"buy", "options"}
    OBVIOUS
  <2>4. pc' \in {"buy", "options"} => Staked' + power' <= Funds' + Spent'
    <3>1. power' = power
      OBVIOUS
    <3>2. Staked + power <= Funds + Spent => Staked + power <= Funds' + Spent'
      BY <1>1, <1>2, MoneyKept
    <3> QED BY <1>1, <2>1, <2>3, <3>1, <3>2
  <2>5. Staked' > 0 => Staked' <= Funds' + Spent'
    <3>1. Staked <= Funds + Spent => Staked <= Funds' + Spent'
      BY <1>1, <1>2, MoneyKept
    <3> QED BY <1>1, <2>2, <3>1
  <2> QED BY <2>4, <2>5 DEF OptionsCovered
<1>4. dry' => \A o \in Option : options'[o] \in {"none", "dry"}
  BY DEF Backed
<1> QED BY <1>3, <1>4 DEF Backed

LEMMA SettleBacked == IInv /\ IInv' /\ Backed /\ Settle => Backed'
<1> SUFFICES ASSUME IInv, IInv', Backed, Settle PROVE Backed'
  OBVIOUS
<1>1. /\ TypeOK /\ TypeOK' /\ pc = "sell" /\ pc' = "buy" /\ power' = PowerAfterSales
      /\ UNCHANGED <<dry, price, options, buys>> /\ Funds' = Funds
  BY SameFundsNext DEF IInv, Settle, inputVars, brokerVars
<1>2. (\A o \in Option : options[o] = "none") /\ \A s \in Symbol : buys[s] = NoOrder
  BY <1>1 DEF Backed, IInv, Fresh
<1>3. \A s \in Symbol : buys[s].filled = 0
  BY <1>2 DEF NoOrder
<1>4. Staked = 0 /\ Spent = 0
  BY <1>1, <1>2, <1>3, NothingStaked, NothingSpent
<1>5. Staked' = 0 /\ Spent' = 0
  BY <1>1, <1>4, SameSums
<1>6. ASSUME ~dry PROVE Staked' + power' <= Funds' + Spent'
  <2>1. seen <= Funds /\ base + release <= Funds
    BY <1>1, <1>6 DEF Backed
  <2>2. Funds \in Int /\ power' \in Nat
    BY <1>1, FundsTyped DEF TypeOK
  <2>3. PowerAfterSales <= Funds
    BY <1>1, <1>6, <2>1, <2>2 DEF PowerAfterSales, Reading, Greater, TypeOK
  <2> HIDE DEF PowerAfterSales
  <2> QED BY <1>1, <1>5, <2>2, <2>3
<1> QED BY <1>1, <1>2, <1>3, <1>5, <1>6 DEF Backed, OptionsCovered

LEMMA BuyBacked ==
  ASSUME IInv, IInv', Backed, NEW s \in Symbol, Buy(s)
  PROVE  Backed'
<1>1. /\ TypeOK /\ TypeOK' /\ Inputs /\ pc = "buy" /\ pc' = "buy" /\ s \in todo
      /\ UNCHANGED <<dry, price, options, power, overstated>> /\ todo' = todo \ {s}
  BY DEF IInv, Buy, inputVars, TypeOK, Inputs
<1> DEFINE quantity == IF deferred THEN 0 ELSE BuyQuantity(s, investable)
<1>2. quantity \in Nat
  BY <1>1, BuyFits DEF TypeOK
<1>3. ASSUME UNCHANGED <<buys, cash>> PROVE Backed'
  <2>1. Spent' = Spent /\ Spent \in Nat /\ Funds \in Int /\ Funds' = Funds
    BY <1>1, <1>3, SameSums, Amounted, FundsTyped, SameFundsNext
  <2>2. Funds' + Spent' >= Funds + Spent
    BY <1>3, <2>1
  <2>3. \A z \in Symbol : z \in todo' => buys'[z] = NoOrder
    BY <1>1, <1>3 DEF Backed
  <2> QED BY <1>1, <2>2, <2>3, SameBacked
<1>4. ASSUME NEW order \in Order, buys' = [buys EXCEPT ![s] = order],
             cash' = cash - order.filled * Limit(s)
      PROVE  Backed'
  <2>1. buys[s].filled = 0 /\ buys'[s] = order /\ \A y \in Symbol \ {s} : buys'[y] = buys[y]
    BY <1>1, <1>4 DEF Backed, TypeOK, NoOrder
  <2>2. Spent' = Spent + Outlays'[s] - Outlays[s]
    BY <1>1, <2>1, SpentChanges
  <2>3. Limit(s) \in Nat /\ order.filled \in Nat /\ order.filled * Limit(s) \in Nat
    BY <1>1, Amounts, ProductNat DEF Order
  <2>4. Outlays[s] = 0 /\ Outlays'[s] = order.filled * Limit(s)
    BY <1>1, <2>1, <2>3 DEF Outlays, Limit
  <2>5. Funds' + Spent' >= Funds + Spent
    <3>1. Spent \in Nat /\ Funds \in Int
      BY <1>1, Amounted, FundsTyped
    <3>2. Funds' = Funds - order.filled * Limit(s)
      BY <1>1, <1>4, <2>3 DEF Funds, TypeOK
    <3> QED BY <2>2, <2>3, <2>4, <3>1, <3>2
  <2>6. \A z \in Symbol : z \in todo' => buys'[z] = NoOrder
    BY <1>1, <2>1 DEF Backed
  <2> QED BY <1>1, <2>5, <2>6, SameBacked
<1>5. CASE quantity = 0
  BY <1>3, <1>5 DEF Buy
<1>6. CASE quantity # 0 /\ dry
  <2>1. PICK order : /\ order = [quantity |-> quantity, filled |-> 0, outcome |-> "dry"]
                     /\ buys' = [buys EXCEPT ![s] = order] /\ cash' = cash
    BY <1>6 DEF Buy
  <2>2. order \in Order /\ order.filled = 0
    <3> HIDE DEF quantity
    <3> QED BY <1>2, <2>1 DEF Order, Outcome
  <2>3. cash' = cash - order.filled * Limit(s)
    BY <1>1, <2>1, <2>2, Amounts DEF TypeOK
  <2> QED BY <1>4, <2>1, <2>2, <2>3
<1>7. CASE quantity # 0 /\ ~dry
  <2>1. PICK order \in Report(quantity) : /\ buys' = [buys EXCEPT ![s] = order]
                                          /\ cash' = cash - order.filled * Limit(s)
    BY <1>7 DEF Buy
  <2>2. order \in Order
    <3> HIDE DEF quantity
    <3> QED BY <1>2, Reported
  <2> QED BY <1>4, <2>1, <2>2
<1> QED BY <1>5, <1>6, <1>7

LEMMA OptionBacked ==
  ASSUME IInv, IInv', Backed, NEW o \in Option, PlaceOption(o)
  PROVE  Backed'
<1>1. /\ TypeOK /\ TypeOK' /\ pc = "options" /\ pc' = "options"
      /\ UNCHANGED <<dry, price, buys>> /\ Funds' = Funds
  BY SameFundsNext DEF IInv, PlaceOption, inputVars, brokerVars
<1>2. /\ Notional[o] \in Nat /\ Funds \in Int /\ power \in Nat /\ power' \in Nat
      /\ Staked \in Nat /\ Staked' \in Nat /\ Spent \in Nat /\ Spent' = Spent
  BY <1>1, OrdersAssumption, Amounted, AmountedNext, SameSums, FundsTyped DEF TypeOK
<1>3. CASE UNCHANGED <<options, power>>
  <2>1. Funds' + Spent' >= Funds + Spent
    BY <1>1, <1>2
  <2> QED BY <1>1, <1>3, <2>1, SameBacked
<1>4. CASE ~ UNCHANGED <<options, power>>
  <2>1. PICK outcome \in IF dry THEN {"dry"} ELSE {"filled", "pending", "failed"} :
          /\ options' = [options EXCEPT ![o] = outcome]
          /\ power' = IF outcome = "failed" THEN power ELSE power - Notional[o]
    BY <1>4 DEF PlaceOption
  <2>2. options'[o] = outcome /\ \A y \in Option \ {o} : options'[y] = options[y]
    BY <1>1, <2>1 DEF TypeOK
  <2>3. dry => \A y \in Option : options'[y] \in {"none", "dry"}
    BY <1>1, <2>1, <2>2 DEF Backed
  <2>4. CASE ~dry
    <3>1. Staked' = Staked + Stakes'[o] - Stakes[o]
      BY <1>1, <2>2, StakedChanges
    <3>2. Stakes[o] \in Nat
      BY <1>1, Amounted
    <3>3. Stakes'[o] = IF outcome = "failed" THEN 0 ELSE Notional[o]
      BY <2>1, <2>2, <2>4 DEF Stakes
    <3>4. Staked + power <= Funds + Spent
      BY <1>1, <2>4 DEF Backed
    <3>5. Staked' + power' <= Funds' + Spent'
      BY <1>1, <1>2, <2>1, <3>1, <3>2, <3>3, <3>4
    <3>6. Staked' <= Funds' + Spent'
      <4>1. Funds' \in Int /\ Spent' \in Int
        BY <1>1, <1>2
      <4> QED BY <1>2, <3>5, <4>1, StakeAlone
    <3> QED BY <1>1, <2>4, <3>5, <3>6 DEF Backed, OptionsCovered
  <2>5. CASE dry
    BY <1>1, <2>3, <2>5 DEF Backed
  <2> QED BY <2>4, <2>5
<1> QED BY <1>3, <1>4

LEMMA StepBacked ==
  Cashes \subseteq Nat /\ IInv /\ IInv' /\ Backed /\ [Next]_vars => Backed'
<1> SUFFICES ASSUME Cashes \subseteq Nat, IInv, IInv', Backed, [Next]_vars PROVE Backed'
  OBVIOUS
<1> USE DEF inputVars, budgetVars, brokerVars
<1>0. /\ TypeOK /\ TypeOK' /\ Priced /\ Staked \in Nat /\ Spent \in Nat
      /\ Funds \in Int /\ cash \in Int /\ cash <= Funds /\ Funds' \in Int
  BY Amounted, FundsTyped, FundsTypedNext DEF IInv, TypeOK
<1>1. CASE Plan
  <2>1. /\ pc = "plan" /\ seen = cash /\ cash \in Nat /\ release = 0
        /\ \A o \in Option : options[o] = "none"
    BY <1>1 DEF IInv, Fresh, Plan, Backed
  <2>2. /\ base' = Reading /\ release' = 0 /\ seen' = seen /\ Funds' = Funds
        /\ options' = options /\ pc' \in {"sell", "done"}
    BY <1>1, <2>1, SameFundsNext DEF Plan
  <2>3. base' = cash
    BY <2>1, <2>2 DEF Reading, Greater
  <2>4. Staked' = 0
    <3>1. \A o \in Option : options'[o] \notin {"filled", "pending"}
      BY <2>1, <2>2
    <3> QED BY <3>1, NothingStakedNext
  <2> QED BY <1>0, <2>1, <2>2, <2>3, <2>4 DEF Backed, OptionsCovered
<1>2. CASE Settle
  BY <1>2, SettleBacked
<1>3. CASE StartOptions \/ Finish
  <2>1. /\ UNCHANGED <<dry, price, options, power, buys>> /\ Funds' = Funds
        /\ \/ pc = "buy" /\ pc' = "options"
           \/ pc = "options" /\ pc' = "done"
    BY <1>3, SameFundsNext DEF StartOptions, Finish
  <2>2. Funds' + Spent' >= Funds + Spent
    BY <1>0, <2>1, SameSums
  <2> QED BY <1>0, <2>1, <2>2, SameBacked
<1>4. ASSUME UNCHANGED <<dry, price, options, power, buys, cash, overstated, pc, todo,
                         base, release>>,
             seen' \in {seen, cash}
      PROVE  Backed'
  <2>1. Staked' = Staked /\ Spent' = Spent /\ Funds' = Funds
    BY <1>0, <1>4, SameSums, SameFundsNext
  <2> QED BY <1>0, <1>4, <2>1 DEF Backed, OptionsCovered
<1>5. CASE Refresh \/ Ended \/ UNCHANGED vars
  BY <1>4, <1>5 DEF Refresh, Ended, vars
<1>6. ASSUME NEW s \in Symbol, Sell(s) PROVE Backed'
  <2>1. UNCHANGED <<dry, price, options, buys>> /\ pc = "sell" /\ pc' = "sell"
    BY <1>6 DEF Sell
  <2>2. /\ \A o \in Option : options'[o] = "none"
        /\ ~dry => seen' <= Funds' /\ base' + release' <= Funds'
    BY <1>0, <1>6, <2>1, SellRaises DEF Backed
  <2>3. Staked' = 0
    BY <2>2, NothingStakedNext
  <2> QED BY <2>1, <2>2, <2>3 DEF Backed, OptionsCovered
<1>7. ASSUME NEW s \in Symbol, Buy(s) PROVE Backed'
  BY <1>7, BuyBacked
<1>8. ASSUME NEW s \in Symbol, FillSell(s) PROVE Backed'
  <2>1. sells[s].quantity > 0
    BY <1>0, <1>8 DEF FillSell, Unfilled, TypeOK, Order
  <2>2. price[s] \in Nat /\ price[s] > 0
    BY <1>0, <2>1 DEF Priced, TypeOK
  <2>3. PICK proceeds \in FillPrices(s) : cash' = cash + proceeds
    BY <1>8 DEF FillSell
  <2>4. Funds' >= Funds
    <3>1. proceeds \in Nat
      BY <2>2, OrdersAssumption DEF FillPrices, Greater
    <3>2. overstated' = overstated
      BY <1>8 DEF FillSell
    <3> QED BY <1>0, <2>3, <3>1, <3>2 DEF Funds, TypeOK
  <2>5. UNCHANGED <<dry, price, options, power, buys, pc, todo, seen, base, release>>
    BY <1>8 DEF FillSell
  <2>6. Staked' = Staked /\ Spent' = Spent
    BY <1>0, <2>5, SameSums
  <2>7. CASE pc \notin {"plan", "sell"}
    <3>1. Funds' + Spent' >= Funds + Spent
      BY <1>0, <2>4, <2>6, MoneyGrows
    <3>2. pc' = "buy" => \A z \in Symbol : z \in todo' => buys'[z] = NoOrder
      BY <2>5 DEF Backed
    <3> QED BY <1>0, <2>5, <2>7, <3>1, <3>2, SameBacked
  <2>8. CASE pc \in {"plan", "sell"}
    <3>1. Staked = 0
      BY <2>8, NothingStaked DEF Backed
    <3>2. pc = "sell" /\ ~dry => seen' <= Funds' /\ base' + release' <= Funds'
      BY <1>0, <2>4, <2>5 DEF Backed, TypeOK
    <3> QED BY <2>5, <2>6, <2>8, <3>1, <3>2 DEF Backed, OptionsCovered
  <2> QED BY <2>7, <2>8
<1>9. ASSUME NEW s \in Symbol, FillBuy(s) PROVE Backed'
  <2>1. buys[s] \in Order /\ Unfilled(buys[s]) > 0 /\ Limit(s) \in Nat
    BY <1>0, <1>9, OrdersAssumption DEF FillBuy, TypeOK, Limit
  <2>2. /\ UNCHANGED <<dry, price, options, power, pc, todo>>
        /\ buys' = [buys EXCEPT ![s].filled = @ + 1] /\ cash' = cash - Limit(s)
        /\ overstated' = overstated
    BY <1>9 DEF FillBuy
  <2>3. pc \notin {"plan", "sell"}
    BY <2>1 DEF IInv, Fresh, Unfilled, NoOrder
  <2>4. /\ buys'[s].filled = buys[s].filled + 1
        /\ \A y \in Symbol \ {s} : buys'[y] = buys[y]
    BY <1>0, <2>1, <2>2 DEF TypeOK, Order
  <2>5. Spent' = Spent + Outlays'[s] - Outlays[s]
    BY <1>0, <2>2, <2>4, SpentChanges
  <2>6. Outlays'[s] = Outlays[s] + Limit(s) /\ Outlays[s] \in Nat
    <3>1. buys[s].filled \in Nat
      BY <2>1 DEF Order
    <3>2. (buys[s].filled + 1) * Limit(s) = buys[s].filled * Limit(s) + Limit(s)
      BY <2>1, <3>1
    <3> QED BY <1>0, <2>2, <2>4, <3>2, Amounted DEF Outlays, Limit
  <2>7. Funds' + Spent' >= Funds + Spent
    <3>1. Spent' = Spent + (Outlays[s] + Limit(s)) - Outlays[s]
      BY <2>5, <2>6
    <3>2. Funds' = Funds - Limit(s)
      BY <1>0, <2>1, <2>2 DEF Funds, TypeOK
    <3> QED BY <1>0, <2>1, <2>6, <3>1, <3>2, MoneySpent
  <2>8. pc' = "buy" => \A z \in Symbol : z \in todo' => buys'[z] = NoOrder
    <3>1. pc = "buy" => s \notin todo
      BY <2>1 DEF Backed, Unfilled, NoOrder
    <3> QED BY <2>2, <2>4, <3>1 DEF Backed
  <2> QED BY <1>0, <2>2, <2>3, <2>7, <2>8, SameBacked
<1>10. ASSUME NEW o \in Option, PlaceOption(o) PROVE Backed'
  BY <1>10, OptionBacked
<1> QED
  BY <1>1, <1>2, <1>3, <1>5, <1>6, <1>7, <1>8, <1>9, <1>10 DEF Next

\* In an account without a debt the options of a cycle are paid for by money that was
\* there or that its sales brought in, before its shares were bought, although the fills
\* of the sales are late and the cash reading is older than they are: it lacks no more than
\* what sales reported without a fill price were overstated by (the buying power of
\* execute_rebalance, application/execution_service.py:1990, and _execute_option_order_intents).
THEOREM OptionsAreCovered == Cashes \subseteq Nat => (Spec => []OptionsCovered)
<1>1. ASSUME Cashes \subseteq Nat PROVE Spec => []OptionsCovered
  <2>1. IInv /\ IInv' /\ Backed /\ [Next]_vars => Backed'
    BY <1>1, StepBacked
  <2>2. IInv /\ Backed => OptionsCovered
    <3>1. ASSUME IInv, Backed, dry PROVE Staked = 0
      BY <3>1, NothingStaked DEF Backed
    <3>2. ASSUME Backed, ~dry PROVE OptionsCovered
      BY <3>2 DEF Backed
    <3> QED BY <3>1, <3>2 DEF OptionsCovered
  <2> QED
    BY Inductive, InitBacked, <2>1, <2>2, PTL DEF Spec
<1> QED
  BY <1>1

\* Without a debt and without options no purchase borrows, although readings are old and
\* sales fill late, wherever sales bring what they are counted as (get_available_buying_power and the buy loop of execute_rebalance,
\* application/execution_service.py:454, 2085).
THEOREM SharesNeverBorrow == NoDebt /\ Option = {} => (Spec => []BuysNeverBorrow)
<1>1. ASSUME Option = {} PROVE TypeOK /\ ReserveKept => BuysNeverBorrow
  <2>1. Staked = 0
    BY <1>1, NothingStaked
  <2>2. SUFFICES ASSUME TypeOK, Funds - owed >= Reserve PROVE Funds - owed - Staked >= 0
    BY DEF ReserveKept, BuysNeverBorrow
  <2>3. Funds \in Int /\ owed \in Int
    BY <2>2, FundsTyped DEF TypeOK
  <2>4. Reserve \in Nat
    BY OrdersAssumption
  <2> HIDE DEF NoDebt
  <2> QED BY <2>1, <2>2, <2>3, <2>4
<1>2. ASSUME NoDebt, Option = {} PROVE Spec => []BuysNeverBorrow
  <2>1. TypeOK /\ ReserveKept => BuysNeverBorrow
    BY <1>1, <1>2
  <2>2. Spec => []ReserveKept
    BY <1>2, ReserveIsKept
  <2> QED BY <2>1, <2>2, TypeCorrect, PTL
<1> QED BY <1>2
=============================================================================
