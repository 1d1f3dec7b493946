--------------------------- MODULE OperationsProofs ---------------------------
(***************************************************************************)
(* Proofs about the programs around the trading service: the admission of  *)
(* paper orders, the runtime guard, the report heartbeat, and that all of  *)
(* them together, side by side as MCOperations runs them, keep the types   *)
(* of their variables.  The recovery pipeline and the deployment have      *)
(* modules of their own.  All hold for every value of the constants.       *)
(***************************************************************************)
EXTENDS MCOperations, ReconciliationRecoveryProofs, CloudRunDeploymentProofs

-----------------------------------------------------------------------------
(* Paper orders.  ReducingOrdersReduce needs what a cycle knows of a       *)
(* symbol after each of its looks: until a fill comes, what it has read is *)
(* what the account holds; where its session is told of the orders and the *)
(* fills, and the signal is of today, that stays so until the cycle places *)
(* an order for the symbol.                                                *)

Still(s) == buying[s] = 0 /\ selling[s] = 0

Known(s) ==
  /\ stage \in {"read", "admitted", "looked"} /\ s \notin fills => sight[s] = stock[s]
  /\ stage = "looked" /\ s \notin hidden => Still(s)
  /\ stage \in {"selling", "buying"} /\ s \in todo /\ s \notin hidden /\ dated =>
       Still(s) /\ sight[s] = stock[s]

Checked == stage \notin {"idle", "read"} => Allowed

PaperInv == PaperTypeOK /\ Checked /\ \A s \in PaperSymbol : Bounded(s) /\ Known(s)

LEMMA NothingIsRead == Nothing \in [PaperSymbol -> -MaxShares .. MaxShares]
                       /\ Nothing \in [PaperSymbol -> 0 .. MaxShares]
                       /\ Nothing \in [PaperSymbol -> 0 .. 2 * MaxShares]
                       /\ Nothing \in [PaperSymbol -> PaperQuote]
                       /\ Nothing \in [PaperSymbol -> PaperTarget]
  BY PaperAssumption DEF Nothing

LEMMA ReadNumbers ==
  ASSUME PaperTypeOK, NEW s \in PaperSymbol
  PROVE  sight[s] \in Int /\ quote[s] \in Int /\ aim[s] \in Int /\ sight[s] * quote[s] \in Int
<1>1. /\ sight[s] \in -MaxShares .. MaxShares
      /\ quote[s] \in PaperQuote /\ aim[s] \in PaperTarget
  BY DEF PaperTypeOK
<1>2. sight[s] \in Int
  BY <1>1, PaperAssumption
<1>3. quote[s] \in Int /\ aim[s] \in Int
  <2>1. PaperQuote \subseteq Int /\ PaperTarget \subseteq Int
    BY PaperAssumption
  <2> QED BY <1>1, <2>1
<1>4. sight[s] * quote[s] \in Int
  BY <1>2, <1>3
<1> QED BY <1>2, <1>3, <1>4

LEMMA PaperNumbers ==
  ASSUME PaperTypeOK, NEW s \in PaperSymbol
  PROVE  stock[s] \in Int /\ buying[s] \in Int /\ selling[s] \in Int /\ sight[s] \in Int
         /\ 0 <= buying[s] /\ 0 <= selling[s]
         /\ -MaxShares <= stock[s] /\ stock[s] <= MaxShares
  BY PaperAssumption DEF PaperTypeOK

LEMMA PaperInitInv == PaperInit => PaperInv
<1> SUFFICES ASSUME PaperInit PROVE PaperInv
  OBVIOUS
<1>0. stock \in [PaperSymbol -> -MaxShares .. MaxShares]
  BY PaperAssumption DEF PaperInit
<1>1. PaperTypeOK
  BY <1>0, NothingIsRead DEF PaperInit, PaperTypeOK, Disposition
<1>2. Checked
  BY DEF PaperInit, Checked
<1>3. ASSUME NEW s \in PaperSymbol PROVE Bounded(s) /\ Known(s)
  <2>1. stock[s] \in 0 .. MaxShares /\ buying[s] = 0 /\ selling[s] = 0 /\ stage = "idle"
    BY <1>3 DEF PaperInit, Nothing
  <2> QED BY <2>1, PaperAssumption DEF Bounded, Known
<1> QED BY <1>1, <1>2, <1>3 DEF PaperInv

\* A cycle that ends keeps nothing that could go wrong.
LEMMA StopInv == PaperInv /\ Stop /\ UNCHANGED brokerVars => PaperInv'
<1> SUFFICES ASSUME PaperInv, Stop, UNCHANGED brokerVars PROVE PaperInv'
  OBVIOUS
<1> USE DEF brokerVars
<1>1. PaperTypeOK'
  BY NothingIsRead DEF PaperInv, PaperTypeOK, Stop, Disposition
<1>2. Checked'
  BY DEF Stop, Checked
<1>3. ASSUME NEW s \in PaperSymbol PROVE (Bounded(s) /\ Known(s))'
  BY <1>3 DEF PaperInv, Stop, Bounded, Known
<1> QED BY <1>1, <1>2, <1>3 DEF PaperInv

\* A step of the cycle that neither reads nor places: what was allowed still is.
LEMMA AllowedKept == UNCHANGED readVars => (Allowed <=> Allowed')
  BY DEF readVars, Allowed, Valued, Gate, Effect, Current

\* What is allowed was read without a short position.
LEMMA AllowedSight == PaperTypeOK /\ Allowed => sight \in [PaperSymbol -> 0 .. MaxShares]
<1> SUFFICES ASSUME PaperTypeOK, Allowed PROVE sight \in [PaperSymbol -> 0 .. MaxShares]
  OBVIOUS
<1>1. sight \in [PaperSymbol -> -MaxShares .. MaxShares]
  BY DEF PaperTypeOK
<1>2. ASSUME NEW s \in PaperSymbol PROVE sight[s] \in 0 .. MaxShares
  <2>1. sight[s] \in -MaxShares .. MaxShares /\ sight[s] >= 0
    BY <1>1 DEF Allowed, Valued
  <2> QED BY <2>1, PaperAssumption
<1> QED BY <1>1, <1>2

\* Shares that are ordered or filled within the bounds keep the types.
LEMMA BrokerTypes ==
  ASSUME PaperTypeOK, NEW t \in PaperSymbol, NEW c \in Int, NEW m \in Int, NEW n \in Int,
         0 <= m, 0 <= n, c - n >= -MaxShares, c + m <= MaxShares,
         stock' = [stock EXCEPT ![t] = c], buying' = [buying EXCEPT ![t] = m],
         selling' = [selling EXCEPT ![t] = n]
  PROVE  /\ stock' \in [PaperSymbol -> -MaxShares .. MaxShares]
         /\ buying' \in [PaperSymbol -> 0 .. 2 * MaxShares]
         /\ selling' \in [PaperSymbol -> 0 .. 2 * MaxShares]
<1>1. /\ c \in -MaxShares .. MaxShares
      /\ m \in 0 .. 2 * MaxShares /\ n \in 0 .. 2 * MaxShares
  BY PaperAssumption
<1> QED BY <1>1 DEF PaperTypeOK

LEMMA PaperStepInv == PaperInv /\ [PaperNext]_paperVars => PaperInv'
<1> SUFFICES ASSUME PaperInv, [PaperNext]_paperVars PROVE PaperInv'
  OBVIOUS
<1> USE PaperAssumption DEF readVars, brokerVars
<1>0. PaperTypeOK /\ Checked /\ \A s \in PaperSymbol : Bounded(s) /\ Known(s)
  BY DEF PaperInv
<1>1. CASE ReadPaper
  <2>1. PaperTypeOK'
    BY <1>0, <1>1 DEF ReadPaper, PaperTypeOK
  <2>2. Checked'
    BY <1>1 DEF ReadPaper, Checked
  <2>3. ASSUME NEW s \in PaperSymbol PROVE (Bounded(s) /\ Known(s))'
    BY <1>0, <1>1 DEF ReadPaper, Bounded, Known
  <2> QED BY <2>1, <2>2, <2>3 DEF PaperInv
<1>2. CASE AdmitPaper
  <2>1. CASE ~Allowed
    BY <1>2, <2>1, StopInv DEF AdmitPaper
  <2>2. CASE Allowed
    <3>1. PaperTypeOK'
      BY <1>0, <1>2, <2>2, AllowedSight DEF AdmitPaper, PaperTypeOK
    <3>2. Checked'
      BY <1>2, <2>2, AllowedKept DEF AdmitPaper, Checked
    <3>3. ASSUME NEW s \in PaperSymbol PROVE (Bounded(s) /\ Known(s))'
      BY <1>0, <1>2, <2>2 DEF AdmitPaper, Bounded, Known
    <3> QED BY <3>1, <3>2, <3>3 DEF PaperInv
  <2> QED BY <2>1, <2>2
<1>3. CASE LookOrders
  <2>1. CASE ~ (Working \subseteq hidden)
    BY <1>3, <2>1, StopInv DEF LookOrders
  <2>2. CASE Working \subseteq hidden
    <3>1. PaperTypeOK'
      BY <1>0, <1>3, <2>2 DEF LookOrders, PaperTypeOK
    <3>2. Checked'
      BY <1>0, <1>3, <2>2, AllowedKept DEF LookOrders, Checked
    <3>3. ASSUME NEW s \in PaperSymbol PROVE (Bounded(s) /\ Known(s))'
      <4>1. s \notin hidden => Still(s)
        BY <1>0, <2>2, PaperNumbers DEF Working, Still
      <4> QED BY <1>0, <1>3, <2>2, <4>1 DEF LookOrders, Bounded, Known, Still
    <3> QED BY <3>1, <3>2, <3>3 DEF PaperInv
  <2> QED BY <2>1, <2>2
<1>4. CASE LookFills
  <2>1. CASE ~Untouched
    BY <1>4, <2>1, StopInv DEF LookFills
  <2>2. CASE Untouched
    <3>1. PaperTypeOK'
      BY <1>0, <1>4, <2>2 DEF LookFills, PaperTypeOK
    <3>2. Checked'
      BY <1>0, <1>4, <2>2, AllowedKept DEF LookFills, Checked
    <3>3. ASSUME NEW s \in PaperSymbol PROVE (Bounded(s) /\ Known(s))'
      <4>1. dated /\ s \notin hidden => s \notin fills
        BY <2>2 DEF Untouched
      <4> QED BY <1>0, <1>4, <2>2, <4>1 DEF LookFills, Bounded, Known, Still
    <3> QED BY <3>1, <3>2, <3>3 DEF PaperInv
  <2> QED BY <2>1, <2>2
<1>5. CASE EndSales
  <2>1. PaperTypeOK'
    BY <1>0, <1>5 DEF EndSales, PaperTypeOK
  <2>2. Checked'
    BY <1>0, <1>5, AllowedKept DEF EndSales, Checked
  <2>3. ASSUME NEW s \in PaperSymbol PROVE (Bounded(s) /\ Known(s))'
    BY <1>0, <1>5 DEF EndSales, Bounded, Known, Still
  <2> QED BY <2>1, <2>2, <2>3 DEF PaperInv
<1>6. CASE EndCycle
  BY <1>6, StopInv DEF EndCycle
<1>7. CASE NextDay
  <2>1. PaperTypeOK'
    BY <1>0, <1>7 DEF NextDay, PaperTypeOK
  <2>2. Checked'
    BY <1>7 DEF NextDay, Checked
  <2>3. ASSUME NEW s \in PaperSymbol PROVE (Bounded(s) /\ Known(s))'
    BY <1>0, <1>7 DEF NextDay, Bounded, Known
  <2> QED BY <2>1, <2>2, <2>3 DEF PaperInv
<1>8. ASSUME NEW t \in PaperSymbol, PlaceSale(t) PROVE PaperInv'
  <2>0. PICK n \in 1 .. sight[t] : selling' = [selling EXCEPT ![t] = @ + n]
    BY <1>8 DEF PlaceSale
  <2>1. n \in Int /\ 1 <= n
    BY <1>0, <2>0, PaperNumbers
  <2>2. selling[t] + n \in Int /\ 0 <= selling[t] + n
    BY <1>0, <2>1, PaperNumbers
  <2>3. /\ stock[t] - (selling[t] + n) >= -MaxShares
        /\ stock[t] + buying[t] <= MaxShares
    BY <1>0, <1>8, <2>0, PaperNumbers DEF PlaceSale, Bounded, PaperTypeOK
  <2>4. stock \in [PaperSymbol -> Int] /\ buying \in [PaperSymbol -> Int]
    BY <1>0 DEF PaperTypeOK
  <2>5. /\ stock' = [stock EXCEPT ![t] = stock[t]]
        /\ buying' = [buying EXCEPT ![t] = buying[t]]
        /\ selling' = [selling EXCEPT ![t] = selling[t] + n]
    BY <1>8, <2>0, <2>4 DEF PlaceSale
  <2>6. /\ stock' \in [PaperSymbol -> -MaxShares .. MaxShares]
        /\ buying' \in [PaperSymbol -> 0 .. 2 * MaxShares]
        /\ selling' \in [PaperSymbol -> 0 .. 2 * MaxShares]
    BY <1>0, <2>2, <2>3, <2>5, PaperNumbers, BrokerTypes
  <2>7. PaperTypeOK'
    BY <1>0, <1>8, <2>6 DEF PlaceSale, PaperTypeOK
  <2>8. Checked'
    BY <1>0, <1>8, AllowedKept DEF PlaceSale, Checked
  <2>9. ASSUME NEW s \in PaperSymbol PROVE (Bounded(s) /\ Known(s))'
    <3>1. Bounded(s)'
      BY <1>0, <1>8, <2>0 DEF PlaceSale, PaperTypeOK, Bounded
    <3>2. Known(s)'
      BY <1>0, <1>8, <2>0 DEF PlaceSale, PaperTypeOK, Known, Still
    <3> QED BY <3>1, <3>2
  <2> QED BY <2>7, <2>8, <2>9 DEF PaperInv
<1>9. ASSUME NEW t \in PaperSymbol, PlaceBuy(t) PROVE PaperInv'
  <2>0. PICK n \in 1 .. 2 * MaxShares : buying' = [buying EXCEPT ![t] = @ + n]
    BY <1>9 DEF PlaceBuy
  <2>1. n \in Int /\ 1 <= n
    BY <2>0
  <2>2. buying[t] + n \in Int /\ 0 <= buying[t] + n
    BY <1>0, <2>1, PaperNumbers
  <2>3. /\ stock[t] + (buying[t] + n) <= MaxShares
        /\ stock[t] - selling[t] >= -MaxShares
    BY <1>0, <1>9, <2>0, PaperNumbers DEF PlaceBuy, Bounded, PaperTypeOK
  <2>4. stock \in [PaperSymbol -> Int] /\ selling \in [PaperSymbol -> Int]
    BY <1>0 DEF PaperTypeOK
  <2>5. /\ stock' = [stock EXCEPT ![t] = stock[t]]
        /\ selling' = [selling EXCEPT ![t] = selling[t]]
        /\ buying' = [buying EXCEPT ![t] = buying[t] + n]
    BY <1>9, <2>0, <2>4 DEF PlaceBuy
  <2>6. /\ stock' \in [PaperSymbol -> -MaxShares .. MaxShares]
        /\ buying' \in [PaperSymbol -> 0 .. 2 * MaxShares]
        /\ selling' \in [PaperSymbol -> 0 .. 2 * MaxShares]
    BY <1>0, <2>2, <2>3, <2>5, PaperNumbers, BrokerTypes
  <2>7. PaperTypeOK'
    BY <1>0, <1>9, <2>6 DEF PlaceBuy, PaperTypeOK
  <2>8. Checked'
    BY <1>0, <1>9, AllowedKept DEF PlaceBuy, Checked
  <2>9. ASSUME NEW s \in PaperSymbol PROVE (Bounded(s) /\ Known(s))'
    <3>1. Bounded(s)'
      BY <1>0, <1>9, <2>0 DEF PlaceBuy, PaperTypeOK, Bounded
    <3>2. Known(s)'
      BY <1>0, <1>9, <2>0 DEF PlaceBuy, PaperTypeOK, Known, Still
    <3> QED BY <3>1, <3>2
  <2> QED BY <2>7, <2>8, <2>9 DEF PaperInv
<1>10. ASSUME NEW t \in PaperSymbol, FillShare(t) PROVE PaperInv'
  <2>0. PICK c \in Int, m \in Int, n \in Int :
          /\ 0 <= m /\ 0 <= n /\ c - n >= -MaxShares /\ c + m <= MaxShares
          /\ stock' = [stock EXCEPT ![t] = c] /\ buying' = [buying EXCEPT ![t] = m]
          /\ selling' = [selling EXCEPT ![t] = n]
    <3>0. stock \in [PaperSymbol -> Int] /\ buying \in [PaperSymbol -> Int]
          /\ selling \in [PaperSymbol -> Int]
      BY <1>0 DEF PaperTypeOK
    <3>1. CASE /\ buying[t] > 0 /\ buying' = [buying EXCEPT ![t] = @ - 1]
               /\ stock' = [stock EXCEPT ![t] = @ + 1] /\ UNCHANGED selling
      <4>1. /\ stock' = [stock EXCEPT ![t] = stock[t] + 1]
            /\ buying' = [buying EXCEPT ![t] = buying[t] - 1]
            /\ selling' = [selling EXCEPT ![t] = selling[t]]
        BY <3>0, <3>1
      <4>2. /\ stock[t] + 1 \in Int /\ buying[t] - 1 \in Int /\ selling[t] \in Int
            /\ 0 <= buying[t] - 1 /\ 0 <= selling[t]
            /\ (stock[t] + 1) - selling[t] >= -MaxShares
            /\ (stock[t] + 1) + (buying[t] - 1) <= MaxShares
        BY <1>0, <3>1, PaperNumbers DEF Bounded
      <4> QED BY <4>1, <4>2
    <3>2. CASE /\ selling[t] > 0 /\ selling' = [selling EXCEPT ![t] = @ - 1]
               /\ stock' = [stock EXCEPT ![t] = @ - 1] /\ UNCHANGED buying
      <4>1. /\ stock' = [stock EXCEPT ![t] = stock[t] - 1]
            /\ buying' = [buying EXCEPT ![t] = buying[t]]
            /\ selling' = [selling EXCEPT ![t] = selling[t] - 1]
        BY <3>0, <3>2
      <4>2. /\ stock[t] - 1 \in Int /\ buying[t] \in Int /\ selling[t] - 1 \in Int
            /\ 0 <= buying[t] /\ 0 <= selling[t] - 1
            /\ (stock[t] - 1) - (selling[t] - 1) >= -MaxShares
            /\ (stock[t] - 1) + buying[t] <= MaxShares
        BY <1>0, <3>2, PaperNumbers DEF Bounded
      <4> QED BY <4>1, <4>2
    <3> QED BY <1>10, <3>1, <3>2 DEF FillShare
  <2>1. /\ stock' \in [PaperSymbol -> -MaxShares .. MaxShares]
        /\ buying' \in [PaperSymbol -> 0 .. 2 * MaxShares]
        /\ selling' \in [PaperSymbol -> 0 .. 2 * MaxShares]
    BY <1>0, <2>0, BrokerTypes
  <2>2. PaperTypeOK'
    BY <1>0, <1>10, <2>1 DEF FillShare, PaperTypeOK
  <2>3. Checked'
    BY <1>0, <1>10, AllowedKept DEF FillShare, Checked
  <2>4. ASSUME NEW s \in PaperSymbol PROVE (Bounded(s) /\ Known(s))'
    <3>1. Bounded(s)'
      BY <1>0, <2>0 DEF PaperTypeOK, Bounded
    <3>2. CASE s = t
      <4>1. s \in fills'
        BY <1>10, <3>2 DEF FillShare
      <4>2. ~Still(s)
        BY <1>0, <1>10, <3>2, PaperNumbers DEF FillShare, Still
      <4>3. Known(s)'
        BY <1>0, <1>10, <4>1, <4>2 DEF FillShare, Known
      <4> QED BY <3>1, <4>3
    <3>3. CASE s # t
      <4>1. stock'[s] = stock[s] /\ buying'[s] = buying[s] /\ selling'[s] = selling[s]
        BY <1>0, <2>0, <3>3 DEF PaperTypeOK
      <4>2. Known(s)'
        BY <1>0, <1>10, <3>3, <4>1 DEF FillShare, Known, Still
      <4> QED BY <3>1, <4>2
    <3> QED BY <3>2, <3>3
  <2> QED BY <2>2, <2>3, <2>4 DEF PaperInv
<1>11. ASSUME NEW t \in PaperSymbol, CancelOrder(t) PROVE PaperInv'
  <2>1. PaperTypeOK'
    BY <1>0, <1>11 DEF CancelOrder, PaperTypeOK
  <2>2. Checked'
    BY <1>0, <1>11, AllowedKept DEF CancelOrder, Checked
  <2>3. ASSUME NEW s \in PaperSymbol PROVE (Bounded(s) /\ Known(s))'
    <3>1. /\ stock' = stock
          /\ buying'[s] \in {buying[s], 0} /\ selling'[s] \in {selling[s], 0}
      BY <1>0, <1>11 DEF CancelOrder, PaperTypeOK
    <3>2. Bounded(s)'
      BY <1>0, <3>1, PaperNumbers DEF Bounded
    <3>3. Known(s)'
      BY <1>0, <1>11, <3>1 DEF CancelOrder, Known, Still
    <3> QED BY <3>2, <3>3
  <2> QED BY <2>1, <2>2, <2>3 DEF PaperInv
<1>12. CASE UNCHANGED paperVars
  BY <1>0, <1>12, AllowedKept
     DEF paperVars, PaperInv, PaperTypeOK, Checked, Bounded, Known, Still
<1> QED
  BY <1>1, <1>2, <1>3, <1>4, <1>5, <1>6, <1>7, <1>8, <1>9, <1>10, <1>11, <1>12 DEF PaperNext

\* Every variable keeps its type in every behaviour of the paper service, for any bound.
THEOREM PaperTypes == PaperSpec => []PaperTypeOK
<1>1. PaperInv => PaperTypeOK
  BY DEF PaperInv
<1> QED BY <1>1, PaperInitInv, PaperStepInv, PTL DEF PaperSpec

-----------------------------------------------------------------------------

\* What the cycle may order when the receipt lets exposure only shrink.
Reducing(s) ==
  receipt # "allow" =>
    /\ buying'[s] <= buying[s]
    /\ selling'[s] > selling[s] =>
         /\ receipt = "reducing" /\ Effect(s) = "reduces"
         /\ dated /\ s \notin hidden => stock[s] - selling'[s] >= 0

LEMMA PlacedOrdersReduce ==
  ASSUME PaperInv, [PaperNext]_paperVars, NEW s \in PaperSymbol
  PROVE  Reducing(s)
<1> USE PaperAssumption DEF readVars, brokerVars
<1>0. PaperTypeOK /\ Checked /\ Known(s)
  BY DEF PaperInv
<1>a. /\ stock[s] \in Int /\ buying[s] \in Int /\ selling[s] \in Int
      /\ 0 <= buying[s] /\ 0 <= selling[s]
  BY <1>0, PaperNumbers
\* Under such a receipt no symbol is below its target.
<1>b. ASSUME Allowed, receipt # "allow", NEW u \in PaperSymbol
      PROVE  receipt = "reducing" /\ ~Underweight(u)
  <2>1. receipt = "reducing" /\ Effect(u) # "increases"
    BY <1>b DEF Allowed, Gate
  <2>2. Current(u) \in Int /\ aim[u] \in Int
    BY <1>0, ReadNumbers DEF Current
  <2> QED BY <2>1, <2>2 DEF Effect, Underweight
<1>1. ASSUME NEW t \in PaperSymbol, PlaceSale(t) PROVE Reducing(s)
  <2>1. PICK n \in 1 .. sight[t] : selling' = [selling EXCEPT ![t] = @ + n]
    BY <1>1 DEF PlaceSale
  <2>2. buying'[s] <= buying[s]
    BY <1>a, <1>1 DEF PlaceSale
  <2>3. ASSUME receipt # "allow", selling'[s] > selling[s]
        PROVE  /\ receipt = "reducing" /\ Effect(s) = "reduces"
               /\ dated /\ s \notin hidden => stock[s] - selling'[s] >= 0
    <3>1. t = s
      BY <1>0, <1>a, <2>1, <2>3 DEF PaperTypeOK
    <3>2. Allowed /\ s \in todo
      BY <1>0, <1>1, <3>1 DEF PlaceSale, Checked
    <3>3. Overweight(s)
      BY <1>1, <1>b, <2>3, <3>1, <3>2 DEF PlaceSale, Sold
    <3>4. Effect(s) = "reduces"
      <4>1. Current(s) \in Int /\ aim[s] \in Int
        BY <1>0, ReadNumbers DEF Current
      <4> QED BY <3>3, <4>1 DEF Effect, Overweight
    <3>5. ASSUME dated, s \notin hidden PROVE stock[s] - selling'[s] >= 0
      <4>1. selling[s] = 0 /\ sight[s] = stock[s]
        BY <1>0, <1>1, <3>2, <3>5 DEF PlaceSale, Known, Still
      <4>2. selling'[s] = selling[s] + n
        BY <1>0, <2>1, <3>1 DEF PaperTypeOK
      <4>3. n \in Int /\ n <= stock[s]
        BY <1>a, <2>1, <3>1, <4>1
      <4> QED BY <1>a, <4>1, <4>2, <4>3
    <3> QED BY <1>b, <2>3, <3>2, <3>4, <3>5
  <2> QED BY <2>2, <2>3 DEF Reducing
<1>2. ASSUME NEW t \in PaperSymbol, PlaceBuy(t) PROVE Reducing(s)
  <2>1. Allowed /\ Underweight(t)
    BY <1>0, <1>2 DEF PlaceBuy, Checked
  <2>2. receipt = "allow"
    BY <1>b, <2>1
  <2> QED BY <2>2 DEF Reducing
<1>3. ASSUME NEW t \in PaperSymbol, FillShare(t) \/ CancelOrder(t) PROVE Reducing(s)
  <2>1. /\ buying'[s] \in {buying[s], buying[s] - 1, 0}
        /\ selling'[s] \in {selling[s], selling[s] - 1, 0}
    BY <1>0, <1>3 DEF FillShare, CancelOrder, PaperTypeOK
  <2>2. buying'[s] <= buying[s] /\ selling'[s] <= selling[s] /\ selling'[s] \in Int
    BY <1>a, <2>1
  <2>3. ~(selling'[s] > selling[s])
    BY <1>a, <2>2
  <2> QED BY <2>2, <2>3 DEF Reducing
<1>4. ASSUME buying' = buying, selling' = selling PROVE Reducing(s)
  BY <1>a, <1>4 DEF Reducing
<1> QED
  BY <1>1, <1>2, <1>3, <1>4 DEF PaperNext, paperVars, ReadPaper, AdmitPaper, LookOrders,
     LookFills, EndSales, EndCycle, NextDay

\* Under a receipt that lets exposure only shrink no order of the cycle adds to it, and
\* where its session is told of orders and fills none goes into a short position, whatever
\* is filled or cancelled between its looks, for any symbols, quotes and targets.
THEOREM ReducingOrdersOnlyReduce == PaperSpec => ReducingOrdersReduce
<1>1. PaperInv /\ [PaperNext]_paperVars => [\A s \in PaperSymbol : Reducing(s)]_paperVars
  BY PlacedOrdersReduce
<1> QED
  BY <1>1, PaperInitInv, PaperStepInv, PTL DEF PaperSpec, ReducingOrdersReduce, Reducing

-----------------------------------------------------------------------------
(* The least and the greatest of two numbers. *)

LEMMA LeastOfTwo ==
  ASSUME NEW m \in Int, NEW n \in Int
  PROVE  /\ Min({m, n}) \in {m, n} /\ Min({m, n}) <= m /\ Min({m, n}) <= n
<1>1. \E y \in {m, n} : \A z \in {m, n} : y <= z
  BY SMT
<1>2. Min({m, n}) \in {m, n} /\ \A z \in {m, n} : Min({m, n}) <= z
  BY <1>1 DEF Min
<1> QED BY <1>2

LEMMA GreatestOfTwo ==
  ASSUME NEW m \in Int, NEW n \in Int
  PROVE  /\ Max({m, n}) \in {m, n} /\ Max({m, n}) >= m /\ Max({m, n}) >= n
<1>1. \E y \in {m, n} : \A z \in {m, n} : y >= z
  BY SMT
<1>2. Max({m, n}) \in {m, n} /\ \A z \in {m, n} : Max({m, n}) >= z
  BY <1>1 DEF Max
<1> QED BY <1>2

-----------------------------------------------------------------------------
(* The guard.  FailuresAreAlarmed speaks of the hours after a failure was  *)
(* logged; the invariant (Seen) says of every failure what has become of   *)
(* it by now: the guard has not looked since, or it has alarmed, or a      *)
(* later revision or too short an answer hid it for good.                  *)

\* A failure the guard has looked for since it reached the log has been alarmed, or was
\* hidden by a later revision or by a query that was too short.
Seen(e) ==
  \/ guarded <= e.seen
  \/ ready[e.service] > e.at
  \/ Cardinality(NoOlder(e)) > Limit
  \/ \E a \in rung : e.seen <= a /\ a <= e.seen + Every

GuardInv ==
  /\ GuardTypeOK
  /\ IsFiniteSet(entries)
  /\ \A e \in entries : e.failed => Seen(e)

\* Time does not outrun the guard: within Every slots of an entry it looked or will look.
LEMMA GuardInvImplies == GuardInv => FailuresAreAlarmed
<1> SUFFICES ASSUME GuardInv, NEW e \in entries, e.failed
             PROVE  \/ hour <= e.seen + Every \/ ready[e.service] > e.at
                    \/ Cardinality(NoOlder(e)) > Limit
                    \/ \E a \in rung : e.seen <= a /\ a <= e.seen + Every
  BY DEF FailuresAreAlarmed
<1>1. Seen(e)
  BY DEF GuardInv
<1>2. CASE guarded <= e.seen
  <2>1. hour \in Nat /\ guarded \in Nat /\ e.seen \in Nat /\ hour - guarded <= Every
    BY DEF GuardInv, GuardTypeOK, Hour, Entry
  <2>2. hour <= e.seen + Every
    BY <1>2, <2>1, GuardAssumption
  <2> QED BY <2>2
<1> QED BY <1>1, <1>2 DEF Seen

\* The answer of a query that leaves an entry out is full of entries that are no older.
LEMMA LeftOut ==
  ASSUME NEW matching, IsFiniteSet(matching),
         matching \subseteq entries, entries \subseteq Entry,
         NEW got \in Returned(matching),
         NEW e \in matching, e \notin got,
         IsFiniteSet(NoOlder(e)),
         \A f \in matching : f.kind = e.kind /\ (e.kind = "run" => f.service = e.service)
  PROVE  Cardinality(NoOlder(e)) > Limit
<1>1. got \subseteq matching /\ IsFiniteSet(got) /\ Cardinality(got) \in Nat
      /\ Cardinality(matching) \in Nat /\ Cardinality(NoOlder(e)) \in Nat
  BY FS_Subset, FS_CardinalityType DEF Returned
<1>2. Cardinality(got) < Cardinality(matching)
  <2>1. Cardinality(got) <= Cardinality(matching) /\ Cardinality(got) # Cardinality(matching)
    BY <1>1, FS_Subset
  <2> QED BY <1>1, <2>1
<1>3. Cardinality(got) = Limit
  <2>1. Cardinality(got) = Min({Limit, Cardinality(matching)})
    BY DEF Returned
  <2>2. Min({Limit, Cardinality(matching)}) \in {Limit, Cardinality(matching)}
    <3>1. Limit \in Int /\ Cardinality(matching) \in Int
      BY <1>1, GuardAssumption
    <3> QED BY <3>1, LeastOfTwo, Zenon
  <2> QED BY <1>1, <1>2, <2>1, <2>2
<1>4. got \cup {e} \subseteq NoOlder(e)
  <2>1. \A f \in got : f.at <= f.at /\ e.at <= f.at
    BY <1>1 DEF Returned, Entry, Hour
  <2>2. e.at >= e.at
    BY DEF Entry, Hour
  <2>3. \A f \in got : f \in entries /\ f.at \in Nat /\ e.at \in Nat
    BY <1>1 DEF Entry, Hour
  <2>4. \A f \in got : f \in NoOlder(e)
    BY <1>1, <2>1, <2>3 DEF NoOlder
  <2>5. e \in NoOlder(e)
    BY <2>2 DEF NoOlder
  <2> QED BY <2>4, <2>5
<1>5. Cardinality(got \cup {e}) = Limit + 1 /\ IsFiniteSet(got \cup {e})
  BY <1>1, <1>3, FS_AddElement
<1>6. Limit + 1 <= Cardinality(NoOlder(e))
  BY <1>4, <1>5, FS_Subset
<1> QED BY <1>1, <1>6, GuardAssumption

\* A guard that runs in time alarms a failure, unless it is hidden.
LEMMA GuardAlarms ==
  ASSUME GuardInv, NEW e \in entries, e.failed, guarded <= e.seen,
         ~ (ready[e.service] > e.at), ~ (Cardinality(NoOlder(e)) > Limit),
         NEW alarmed, Outcome(alarmed)
  PROVE  alarmed
<1> USE GuardAssumption
<1>1. PICK answered \in SUBSET GuardedService, jobsAnswered \in BOOLEAN,
           described \in BOOLEAN :
        \E got \in [answered -> SUBSET entries] :
          /\ \A s \in answered : got[s] \in Returned(RunEntries(s, described))
          /\ \E scheduler \in IF jobsAnswered THEN Returned(JobEntries) ELSE {{}} :
               alarmed = Issues(answered, jobsAnswered, UNION {got[s] : s \in answered},
                                scheduler, described)
  BY DEF Outcome
<1>2. PICK got \in [answered -> SUBSET entries] :
          /\ \A s \in answered : got[s] \in Returned(RunEntries(s, described))
          /\ \E scheduler \in IF jobsAnswered THEN Returned(JobEntries) ELSE {{}} :
               alarmed = Issues(answered, jobsAnswered, UNION {got[s] : s \in answered},
                                scheduler, described)
  BY <1>1
<1>3. PICK scheduler \in IF jobsAnswered THEN Returned(JobEntries) ELSE {{}} :
           alarmed = Issues(answered, jobsAnswered, UNION {got[s] : s \in answered},
                            scheduler, described)
  BY <1>2
<1> DEFINE runs == UNION {got[s] : s \in answered}
<1> SUFFICES Issues(answered, jobsAnswered, runs, scheduler, described)
  BY <1>3
<1>4. CASE answered # GuardedService \/ ~jobsAnswered
  BY <1>4 DEF Issues
<1>5. ASSUME answered = GuardedService, jobsAnswered
      PROVE  Issues(answered, jobsAnswered, runs, scheduler, described)
  <2>1. /\ e \in Entry /\ e.at \in Nat /\ e.seen \in Nat /\ e.service \in GuardedService
        /\ e.kind \in Kind
        /\ hour \in Nat /\ guarded \in Nat /\ hour - guarded <= Every
        /\ e.at <= e.seen /\ e.seen - e.at <= Late
        /\ ready[e.service] \in Nat /\ entries \subseteq Entry
    BY DEF GuardInv, GuardTypeOK, Hour, Entry
  <2>2. From \in Int /\ From <= e.at
    BY <2>1 DEF From
  <2>3. LogSince(e.service, described) \in Int /\ LogSince(e.service, described) <= e.at
    <3>1. CASE described
      <4>1. Max({From, ready[e.service]}) \in {From, ready[e.service]}
        <5>1. From \in Int /\ ready[e.service] \in Int
          BY <2>1, <2>2
        <5> QED BY <5>1, GreatestOfTwo, Zenon
      <4> QED BY <2>1, <2>2, <3>1, <4>1 DEF LogSince
    <3>2. CASE ~described
      BY <2>2, <3>2 DEF LogSince
    <3> QED BY <3>1, <3>2
  <2>5. /\ IsFiniteSet(NoOlder(e)) /\ IsFiniteSet(RunEntries(e.service, described))
        /\ IsFiniteSet(JobEntries)
    BY FS_Subset DEF GuardInv, NoOlder, RunEntries, JobEntries
  <2>6. CASE e.kind = "run"
    <3>1. e \in RunEntries(e.service, described)
      BY <2>1, <2>3, <2>6 DEF RunEntries
    <3>2. got[e.service] \in Returned(RunEntries(e.service, described))
      BY <1>2, <1>5, <2>1
    <3>3. e \in got[e.service]
      BY <2>1, <2>5, <2>6, <3>1, <3>2, LeftOut DEF RunEntries
    <3>4. e \in runs
      BY <1>5, <2>1, <3>3
    <3> QED BY <3>4 DEF Issues
  <2>7. CASE e.kind = "job"
    <3>1. e \in JobEntries
      BY <2>1, <2>2, <2>7 DEF JobEntries
    <3>2. scheduler \in Returned(JobEntries)
      BY <1>3, <1>5
    <3>3. e \in scheduler
      BY <2>1, <2>5, <2>7, <3>1, <3>2, LeftOut DEF JobEntries
    <3>4. e.at >= JobSince(e.service, described)
      BY <2>1, <2>3 DEF JobSince
    <3>5. CASE Duplicate(e, runs)
      BY <3>5 DEF Duplicate, Issues
    <3>6. CASE ~Duplicate(e, runs)
      BY <3>3, <3>4, <3>6 DEF Issues
    <3> QED BY <3>5, <3>6
  <2> QED BY <2>1, <2>6, <2>7 DEF Kind
<1> QED BY <1>4, <1>5

\* An entry keeps what came after it.
LEMMA NoOlderGrows ==
  ASSUME IsFiniteSet(entries'), entries \subseteq entries', NEW e,
         Cardinality(NoOlder(e)) > Limit
  PROVE  Cardinality(NoOlder(e)') > Limit
<1>1. NoOlder(e) \subseteq NoOlder(e)'
  BY DEF NoOlder
<1>2. IsFiniteSet(NoOlder(e)') /\ IsFiniteSet(NoOlder(e))
  BY <1>1, FS_Subset DEF NoOlder
<1>3. /\ Cardinality(NoOlder(e)) <= Cardinality(NoOlder(e)')
      /\ Cardinality(NoOlder(e)) \in Nat /\ Cardinality(NoOlder(e)') \in Nat
  BY <1>1, <1>2, FS_Subset, FS_CardinalityType
<1> QED BY <1>3, GuardAssumption

LEMMA GuardInvInit == GuardInit => GuardInv
<1> SUFFICES ASSUME GuardInit PROVE GuardInv
  OBVIOUS
<1>1. GuardTypeOK
  BY GuardAssumption DEF GuardInit, GuardTypeOK, Hour, Entry
<1>2. IsFiniteSet(entries) /\ entries = {}
  BY FS_EmptySet DEF GuardInit
<1> QED BY <1>1, <1>2 DEF GuardInv

LEMMA GuardInvStep == GuardInv /\ [GuardNext]_guardVars => GuardInv'
<1> SUFFICES ASSUME GuardInv, [GuardNext]_guardVars PROVE GuardInv'
  OBVIOUS
<1> USE GuardAssumption
<1>1. CASE Guard
  <2>1. /\ hour' = hour /\ guarded' = hour /\ entries' = entries /\ ready' = ready
        /\ rollouts' = rollouts
    BY <1>1 DEF Guard
  <2>2. PICK alarmed \in BOOLEAN :
          Outcome(alarmed) /\ rung' = IF alarmed THEN rung \cup {hour} ELSE rung
    BY <1>1 DEF Guard
  <2>3. GuardTypeOK'
    BY <2>1, <2>2 DEF GuardInv, GuardTypeOK, Hour
  <2>4. ASSUME NEW e \in entries, e.failed PROVE Seen(e)'
    <3>1. Seen(e)
      BY <2>4 DEF GuardInv
    <3>2. NoOlder(e)' = NoOlder(e)
      BY <2>1 DEF NoOlder
    <3>3. rung \subseteq rung'
      BY <2>2
    <3>4. CASE /\ guarded <= e.seen /\ ~ (ready[e.service] > e.at)
               /\ ~ (Cardinality(NoOlder(e)) > Limit)
      <4>1. alarmed
        BY <2>2, <2>4, <3>4, GuardAlarms
      <4>2. hour \in rung'
        BY <2>2, <4>1
      <4>3. /\ hour \in Nat /\ guarded \in Nat /\ e.seen \in Nat /\ hour - guarded <= Every
            /\ e.seen <= hour
        BY DEF GuardInv, GuardTypeOK, Hour, Entry
      <4>4. e.seen <= hour /\ hour <= e.seen + Every
        BY <3>4, <4>3
      <4> QED BY <4>2, <4>4 DEF Seen
    <3> QED BY <2>1, <3>1, <3>2, <3>3, <3>4 DEF Seen
  <2> QED BY <2>1, <2>3, <2>4 DEF GuardInv
<1>2. CASE Later
  <2>1. /\ hour' = hour + 1 /\ hour < MaxHour /\ hour - guarded < Every
        /\ UNCHANGED <<guarded, entries, ready, rollouts, rung>>
    BY <1>2 DEF Later
  <2>2. GuardTypeOK'
    <3>1. GuardTypeOK
      BY DEF GuardInv
    <3>2. hour' \in Hour /\ guarded' \in 0 .. hour' /\ hour' - guarded' <= Every
      BY <2>1, <3>1 DEF GuardTypeOK, Hour
    <3>3. 0 .. hour \subseteq 0 .. hour'
      BY <2>1, <3>1 DEF GuardTypeOK, Hour
    <3>4. \A e \in entries : e.at <= e.seen /\ e.seen <= hour' /\ e.seen - e.at <= Late
      BY <2>1, <3>1 DEF GuardTypeOK, Hour, Entry
    <3> QED BY <2>1, <3>1, <3>2, <3>3, <3>4 DEF GuardTypeOK
  <2>3. \A e : NoOlder(e)' = NoOlder(e)
    BY <2>1 DEF NoOlder
  <2>4. \A e \in entries : e.failed => Seen(e)'
    BY <2>1, <2>3 DEF GuardInv, Seen
  <2> QED BY <2>1, <2>2, <2>4 DEF GuardInv
<1>3. ASSUME NEW s \in GuardedService, Ingest(s) PROVE GuardInv'
  <2>1. PICK kind \in Kind, failed \in BOOLEAN, at \in Hour :
          /\ at <= hour /\ hour - at <= Late
          /\ entries' = entries \cup
            {[kind |-> kind, service |-> s, at |-> at, seen |-> hour, failed |-> failed]}
    BY <1>3 DEF Ingest
  <2>2. UNCHANGED <<hour, guarded, ready, rollouts, rung>>
    BY <1>3 DEF Ingest
  <2> DEFINE new == [kind |-> kind, service |-> s, at |-> at, seen |-> hour, failed |-> failed]
  <2>3. GuardTypeOK /\ IsFiniteSet(entries)
    BY DEF GuardInv
  <2>4. new \in Entry /\ new.at <= new.seen /\ new.seen <= hour /\ new.seen - new.at <= Late
    BY <2>1, <2>3 DEF Entry, GuardTypeOK, Hour
  <2>5. GuardTypeOK'
    BY <2>1, <2>2, <2>3, <2>4 DEF GuardTypeOK
  <2>6. IsFiniteSet(entries') /\ entries \subseteq entries'
    BY <2>1, <2>3, FS_AddElement
  <2>7. ASSUME NEW e \in entries', e.failed PROVE Seen(e)'
    <3>1. CASE e = new
      <4>1. guarded' <= e.seen
        BY <2>2, <2>3, <3>1 DEF GuardTypeOK, Hour
      <4> QED BY <4>1 DEF Seen
    <3>2. CASE e \in entries
      BY <2>2, <2>6, <2>7, <3>2, NoOlderGrows DEF GuardInv, Seen
    <3> QED BY <2>1, <3>1, <3>2
  <2> QED BY <2>5, <2>6, <2>7 DEF GuardInv
<1>4. ASSUME NEW s \in GuardedService, Rollout(s) PROVE GuardInv'
  <2>1. /\ rollouts < MaxRevisions /\ rollouts' = rollouts + 1
        /\ ready' = [ready EXCEPT ![s] = hour]
        /\ UNCHANGED <<hour, guarded, entries, rung>>
    BY <1>4 DEF Rollout
  <2>2. GuardTypeOK
    BY DEF GuardInv
  <2>3. GuardTypeOK'
    BY <2>1, <2>2 DEF GuardTypeOK, Hour
  <2>4. \A e : NoOlder(e)' = NoOlder(e)
    BY <2>1 DEF NoOlder
  <2>5. \A e \in entries : ready[e.service] > e.at => ready'[e.service] > e.at
    BY <2>1, <2>2 DEF GuardTypeOK, Hour, Entry
  <2>6. \A e \in entries : e.failed => Seen(e)'
    BY <2>1, <2>4, <2>5 DEF GuardInv, Seen
  <2> QED BY <2>1, <2>3, <2>6 DEF GuardInv
<1>5. CASE UNCHANGED guardVars
  <2>1. \A e : NoOlder(e)' = NoOlder(e)
    BY <1>5 DEF guardVars, NoOlder
  <2> QED BY <1>5, <2>1 DEF guardVars, GuardInv, GuardTypeOK, Seen
<1> QED BY <1>1, <1>2, <1>3, <1>4, <1>5 DEF GuardNext

\* Whatever the guard's queries see of the log (main of cloud_run_runtime_guard, the
\* window, the limit, the revision filter), a failed run or request of a guarded service is
\* alarmed within a period of being logged, unless a newer revision became ready after it
\* or more entries than the limit are at least as new.
THEOREM FailuresAlwaysAlarmed == GuardSpec => [](GuardTypeOK /\ FailuresAreAlarmed)
<1>1. GuardInv => GuardTypeOK
  BY DEF GuardInv
<1> QED BY <1>1, GuardInvInit, GuardInvStep, GuardInvImplies, PTL DEF GuardSpec

-----------------------------------------------------------------------------
(* The heartbeat.  MissedRunsAreReported speaks of the slots after a grace *)
(* period; the invariant (Answers) says of every due run, from the first   *)
(* look after its grace on, that it was reported or alarmed.               *)

\* A look that came after the grace of a due run alarmed it unless it had reported.
Answers(t, d) ==
  \/ d + Grace = 0 \/ looked < d + Grace
  \/ \E r \in reports : r.target = t /\ r.accepted /\ r.updated >= d
  \/ \E a \in alarms : d + Grace <= a /\ a <= d + Grace + Period

HeartbeatInv ==
  /\ HeartbeatTypeOK
  /\ IsFiniteSet(reports)
  /\ \A t \in Covered : \A d \in Cron[t] \cap OpenSlots(t) : Answers(t, d)

LEMMA CronIsSlots ==
  ASSUME NEW t \in Target, NEW d \in Cron[t]
  PROVE  d \in Slot /\ d \in Nat /\ d <= MaxSlot
BY HeartbeatAssumption DEF Slot

\* The heartbeat looks every Period slots at least.
LEMMA HeartbeatInvImplies == HeartbeatInv => MissedRunsAreReported
<1> SUFFICES ASSUME HeartbeatInv, NEW t \in Covered, NEW d \in Cron[t] \cap OpenSlots(t),
                    0 < d + Grace, d + Grace + Period <= now,
                    \A r \in reports : ~(r.target = t /\ r.accepted /\ r.updated >= d)
             PROVE  \E a \in alarms : d + Grace <= a /\ a <= d + Grace + Period
  BY DEF MissedRunsAreReported
<1>1. Answers(t, d)
  BY DEF HeartbeatInv
<1>2. d \in Nat
  BY CronIsSlots DEF Covered, Watched
<1>3. ~ (d + Grace = 0) /\ ~ (looked < d + Grace)
  BY <1>2, HeartbeatAssumption DEF HeartbeatInv, HeartbeatTypeOK, Slot
<1> QED BY <1>1, <1>3 DEF Answers

\* A target the workflow answers for that had a run due in the window is looked for.
LEMMA KeptWhenDue ==
  ASSUME NEW t \in Covered, NEW calendar \in BOOLEAN, NEW listing \in BOOLEAN,
         Required(t, calendar), DueSlots(t, Since, now) # {}
  PROVE  t \in Kept({y \in Watched : Required(y, calendar)}, listing)
<1> DEFINE targets == {y \in Watched : Required(y, calendar)}
<1>1. t \in targets
  BY DEF Covered
<1>2. t.service \in Answered(listing)
  <2>1. CASE Explicit # {}
    <3>1. t.service \in Explicit /\ t.service \notin Disabled
      BY <2>1 DEF Covered, Disabled, Services
    <3> QED BY <2>1, <3>1 DEF Answered
  <2>2. CASE Explicit = {}
    <3>1. DueService(t.service)
      BY DEF DueService, Covered, Watched, Inventory
    <3> QED BY <2>2, <3>1 DEF Answered, Covered, Services
  <2> QED BY <2>1, <2>2
<1>3. t.service \in Remaining(targets, listing)
  BY <1>1, <1>2 DEF Remaining, Services
<1> QED BY <1>1, <1>2, <1>3 DEF Kept

\* Every look after the grace of a due run, until the window ends, misses its report.
LEMMA LookMisses ==
  ASSUME HeartbeatTypeOK, NEW t \in Covered, NEW d \in Cron[t] \cap OpenSlots(t),
         d + Grace <= now, now <= d + Grace + Period,
         \A r \in reports : ~(r.target = t /\ r.accepted /\ r.updated >= d),
         NEW readable, readable \subseteq reports,
         NEW calendar \in BOOLEAN, NEW scheduler \in BOOLEAN, NEW listing \in BOOLEAN
  PROVE  Alarm(readable, calendar, scheduler, listing)
<1>1. d \in Slot /\ d \in Nat
  BY CronIsSlots DEF Covered, Watched
<1>2. now \in Nat /\ Since \in Int /\ Since <= d /\ d <= now - Grace /\ d <= now
  BY <1>1, HeartbeatAssumption DEF HeartbeatTypeOK, Slot, Since
<1>3. d \in Matured(t) /\ d \in DueSlots(t, Since, now)
  BY <1>1, <1>2 DEF Matured, DueSlots, Matches
<1>4. d \in Due(t, calendar)
  BY <1>3 DEF Due
<1>5. Required(t, calendar)
  BY <1>4 DEF Required
<1>6. t \in Kept({y \in Watched : Required(y, calendar)}, listing)
  BY <1>3, <1>5, KeptWhenDue
<1>7. \A r \in readable : ~ Suffices(r, t, calendar)
  <2>1. SUFFICES ASSUME NEW r \in readable, Suffices(r, t, calendar) PROVE FALSE
    OBVIOUS
  <2>2. r.target = t /\ r.accepted /\ d <= r.updated /\ r \in reports
    BY <1>4, <2>1 DEF Suffices, Meant
  <2>3. r.updated >= d
    BY <1>1, <2>2 DEF HeartbeatTypeOK, Report, Slot
  <2> QED BY <2>2, <2>3
<1> QED BY <1>6, <1>7 DEF Alarm, Missing

\* What a look comes to.
LEMMA LookEffect ==
  ASSUME Look
  PROVE  \E listed \in SUBSET InWindow, readable \in SUBSET reports,
            calendar \in BOOLEAN, scheduler \in BOOLEAN, listing \in BOOLEAN :
             verdict' = [alarm |-> Alarm(readable, calendar, scheduler, listing),
                         troubled |-> ~(/\ listed = InWindow
                                        /\ readable \in NewestReports(listed)
                                        /\ calendar /\ scheduler /\ listing)]
<1>1. \A listed \in SUBSET InWindow : \A readable \in ReadFrom(listed) : readable \in SUBSET reports
  BY DEF ReadFrom, NewestReports, InWindow
<1>2. PICK listed \in SUBSET InWindow : verdict' \in Verdicts(listed)
  BY DEF Look
<1> QED BY <1>1, <1>2 DEF Verdicts

LEMMA HeartbeatInvInit == HeartbeatInit => HeartbeatInv
<1> SUFFICES ASSUME HeartbeatInit PROVE HeartbeatInv
  OBVIOUS
<1>1. HeartbeatTypeOK
  BY HeartbeatAssumption DEF HeartbeatInit, HeartbeatTypeOK, Slot, Report
<1>2. IsFiniteSet(reports)
  BY FS_EmptySet DEF HeartbeatInit
<1>3. ASSUME NEW t \in Covered, NEW d \in Cron[t] \cap OpenSlots(t) PROVE Answers(t, d)
  <2>1. d \in Nat
    BY CronIsSlots DEF Covered, Watched
  <2>2. d + Grace = 0 \/ 0 < d + Grace
    BY <2>1, HeartbeatAssumption
  <2> QED BY <2>2 DEF HeartbeatInit, Answers
<1> QED BY <1>1, <1>2, <1>3 DEF HeartbeatInv

LEMMA HeartbeatInvStep == HeartbeatInv /\ [HeartbeatNext]_heartbeatVars => HeartbeatInv'
<1> SUFFICES ASSUME HeartbeatInv, [HeartbeatNext]_heartbeatVars PROVE HeartbeatInv'
  OBVIOUS
<1> USE HeartbeatAssumption
<1>0. HeartbeatTypeOK /\ now \in Nat /\ looked \in Nat /\ now - looked <= Period
  BY DEF HeartbeatInv, HeartbeatTypeOK, Slot
<1>1. CASE Look
  <2>1. looked' = now /\ now' = now /\ reports' = reports /\ alarms \subseteq alarms'
    BY <1>1 DEF Look
  <2>2. verdict' \in [alarm : BOOLEAN, troubled : BOOLEAN]
    <3>1. PICK listed \in SUBSET InWindow, readable \in SUBSET reports,
               calendar \in BOOLEAN, scheduler \in BOOLEAN, listing \in BOOLEAN :
             verdict' = [alarm |-> Alarm(readable, calendar, scheduler, listing),
                         troubled |-> ~(/\ listed = InWindow
                                        /\ readable \in NewestReports(listed)
                                        /\ calendar /\ scheduler /\ listing)]
      BY <1>1, LookEffect
    <3>2. Alarm(readable, calendar, scheduler, listing) \in BOOLEAN
      BY DEF Alarm, Unscheduled, Missing, Unheard
    <3> QED BY <3>1, <3>2
  <2>3. HeartbeatTypeOK'
    <3>1. alarms' \subseteq 0 .. now
      BY <1>0, <1>1 DEF HeartbeatTypeOK, Look, Slot
    <3> QED BY <1>0, <2>1, <2>2, <3>1 DEF HeartbeatTypeOK, Slot
  <2>4. ASSUME NEW t \in Covered, NEW d \in Cron[t] \cap OpenSlots(t) PROVE Answers(t, d)'
    <3>1. Answers(t, d)
      BY DEF HeartbeatInv
    <3>2. d \in Nat
      BY CronIsSlots DEF Covered, Watched
    <3>3. CASE /\ looked < d + Grace /\ d + Grace <= now
               /\ \A r \in reports : ~(r.target = t /\ r.accepted /\ r.updated >= d)
      <4>1. now <= d + Grace + Period
        BY <1>0, <3>2, <3>3
      <4>2. PICK listed \in SUBSET InWindow, readable \in SUBSET reports,
               calendar \in BOOLEAN, scheduler \in BOOLEAN, listing \in BOOLEAN :
             verdict' = [alarm |-> Alarm(readable, calendar, scheduler, listing),
                         troubled |-> ~(/\ listed = InWindow
                                        /\ readable \in NewestReports(listed)
                                        /\ calendar /\ scheduler /\ listing)]
        BY <1>1, LookEffect
      <4>3. Alarm(readable, calendar, scheduler, listing)
        BY <1>0, <3>3, <4>1, LookMisses
      <4>4. now \in alarms'
        BY <1>1, <4>2, <4>3 DEF Look
      <4> QED BY <3>3, <4>1, <4>4 DEF Answers
    <3>4. CASE now < d + Grace
      BY <2>1, <3>4 DEF Answers
    <3>5. d + Grace <= now \/ now < d + Grace
      BY <1>0, <3>2
    <3> QED BY <2>1, <3>1, <3>3, <3>4, <3>5 DEF Answers
  <2> QED BY <2>1, <2>3, <2>4 DEF HeartbeatInv
<1>2. CASE Pass
  <2>1. /\ now < MaxSlot /\ now - looked < Period /\ now' = now + 1
        /\ UNCHANGED <<looked, reports, alarms, verdict>>
    BY <1>2 DEF Pass
  <2>2. HeartbeatTypeOK'
    <3>1. now' \in Slot /\ looked' <= now' /\ now' - looked' <= Period
      BY <1>0, <2>1 DEF HeartbeatTypeOK, Slot
    <3>2. \A r \in reports : r.updated <= now'
      BY <1>0, <2>1 DEF HeartbeatTypeOK, Report, Slot
    <3>3. 0 .. now \subseteq 0 .. now'
      BY <1>0, <2>1
    <3> QED BY <1>0, <2>1, <3>1, <3>2, <3>3 DEF HeartbeatTypeOK
  <2>3. \A t \in Covered : \A d \in Cron[t] \cap OpenSlots(t) : Answers(t, d)'
    BY <2>1 DEF HeartbeatInv, Answers
  <2> QED BY <2>1, <2>2, <2>3 DEF HeartbeatInv
<1>3. ASSUME NEW u \in Source, Land(u) PROVE HeartbeatInv'
  <2>1. UNCHANGED <<now, looked, alarms, verdict>>
    BY <1>3 DEF Land
  <2>2. PICK ok \in BOOLEAN :
          reports' = reports \cup {[target |-> u, updated |-> now, accepted |-> ok]}
    BY <1>3 DEF Land
  <2>3. [target |-> u, updated |-> now, accepted |-> ok] \in Report
    BY <1>0 DEF Report, HeartbeatTypeOK
  <2>4. HeartbeatTypeOK'
    BY <1>0, <2>1, <2>2, <2>3 DEF HeartbeatTypeOK, Slot
  <2>5. IsFiniteSet(reports') /\ reports \subseteq reports'
    BY <2>2, FS_AddElement DEF HeartbeatInv
  <2>6. \A t \in Covered : \A d \in Cron[t] \cap OpenSlots(t) : Answers(t, d)'
    BY <2>1, <2>5 DEF HeartbeatInv, Answers
  <2> QED BY <2>4, <2>5, <2>6 DEF HeartbeatInv
<1>4. CASE UNCHANGED heartbeatVars
  BY <1>4 DEF heartbeatVars, HeartbeatInv, HeartbeatTypeOK, Answers
<1> QED BY <1>1, <1>2, <1>3, <1>4 DEF HeartbeatNext

LEMMA HeartbeatInvHolds == HeartbeatSpec => []HeartbeatInv
BY HeartbeatInvInit, HeartbeatInvStep, PTL DEF HeartbeatSpec

\* A run due on an open day that leaves no acceptable report is alarmed within a period of
\* the end of its grace, whatever fails in the looks meanwhile (main of
\* execution_report_heartbeat, _target_due_status, _report_meets_due_requirements).
THEOREM MissedRunsAlwaysReported == HeartbeatSpec => [](HeartbeatTypeOK /\ MissedRunsAreReported)
<1>1. HeartbeatInv => HeartbeatTypeOK
  BY DEF HeartbeatInv
<1> QED BY <1>1, HeartbeatInvImplies, HeartbeatInvHolds, PTL

\* An untroubled look that is allowed as many reports as there are reads all of the window.
LEMMA ReadsAll ==
  ASSUME IsFiniteSet(reports), NEW readable \in NewestReports(InWindow),
         ~ (Cardinality(reports) > Cap)
  PROVE  readable = InWindow
<1>1. /\ IsFiniteSet(InWindow) /\ Cardinality(InWindow) \in Nat /\ Cardinality(reports) \in Nat
      /\ Cardinality(InWindow) <= Cardinality(reports)
  <2>1. InWindow \subseteq reports
    BY DEF InWindow
  <2> QED BY <2>1, FS_Subset, FS_CardinalityType
<1>2. Cardinality(InWindow) <= Cap
  BY <1>1, HeartbeatAssumption
<1>3. readable \subseteq InWindow /\ Cardinality(readable) = Min({Cap, Cardinality(InWindow)})
  BY DEF NewestReports
<1>4. Min({Cap, Cardinality(InWindow)}) = Cardinality(InWindow)
  BY <1>1, <1>2, HeartbeatAssumption DEF Min
<1> QED BY <1>1, <1>3, <1>4, FS_Subset

\* A target that is looked for and not found had its time and has left no report since.
LEMMA MissingCause ==
  ASSUME HeartbeatInv, NEW t \in Watched, NEW calendar, calendar = TRUE,
         Required(t, calendar)
  PROVE  \E d \in Slot :
           /\ HadItsTime(t, d) /\ Since <= d
           /\ (\A r \in InWindow : ~ Suffices(r, t, calendar)) => NothingSince(t, d)
<1>1. Due(t, calendar) # {}
  BY DEF Required
<1>2. Due(t, calendar) \subseteq 0 .. MaxSlot
  BY DEF Due, Matured, DueSlots, Slot
<1>3. PICK d \in Due(t, calendar) : \A y \in Due(t, calendar) : y <= d
  BY <1>1, <1>2, GreatestOfBounded, HeartbeatAssumption
<1>4. d \in Cron[t] \cap OpenSlots(t) /\ d \in Nat /\ d \in Slot /\ Since <= d /\ d <= now - Grace
  BY <1>2 DEF Due, Matured, DueSlots, Matches, Slot
<1>5. d + Grace <= now
  BY <1>4, HeartbeatAssumption DEF HeartbeatInv, HeartbeatTypeOK, Slot
<1>6. ASSUME \A r \in InWindow : ~ Suffices(r, t, calendar), NEW r \in reports, r.target = t, r.accepted
      PROVE  r.updated < d
  <2>1. r.updated \in Nat /\ Since \in Int
    BY HeartbeatAssumption DEF HeartbeatInv, HeartbeatTypeOK, Report, Slot, Since
  <2>2. SUFFICES ASSUME d <= r.updated PROVE FALSE
    BY <1>4, <2>1
  <2>3. r \in InWindow
    BY <1>4, <2>1, <2>2 DEF InWindow
  <2>4. ASSUME NEW y \in Due(t, calendar) PROVE y <= r.updated
    <3>1. y \in 0 .. MaxSlot /\ y <= d
      BY <1>2, <1>3
    <3>2. y \in Int
      BY <3>1, HeartbeatAssumption
    <3> QED BY <1>4, <2>1, <2>2, <3>1, <3>2
  <2> QED BY <1>6, <2>3, <2>4 DEF Suffices, Meant
<1>7. (\A r \in InWindow : ~ Suffices(r, t, calendar)) => NothingSince(t, d)
  BY <1>6 DEF NothingSince
<1> QED BY <1>4, <1>5, <1>7 DEF HadItsTime

\* A service outside the inventory that is looked for and not found left no report in the window.
LEMMA UnheardCause ==
  ASSUME HeartbeatInv, NEW targets, NEW listing, Unheard(targets, listing, InWindow)
  PROVE  \E s \in Stray : NothingSince([service |-> s], Since)
<1>1. PICK s \in Remaining(targets, listing) \ Inventory :
        \A r \in InWindow : ~(r.target.service = s /\ r.accepted)
  BY DEF Unheard
<1>2. s \in Stray
  BY <1>1 DEF Remaining, Answered, Services, Watched, Inventory, Stray
<1>3. ASSUME NEW r \in reports, [service |-> s] = r.target, r.accepted PROVE r.updated < Since
  <2>1. r.updated \in Nat /\ Since \in Int
    BY HeartbeatAssumption DEF HeartbeatInv, HeartbeatTypeOK, Report, Slot, Since
  <2>2. r.target.service = s
    BY <1>3
  <2> QED BY <1>1, <1>3, <2>1, <2>2 DEF InWindow
<1> QED BY <1>2, <1>3 DEF NothingSince

LEMMA CauseStep ==
  ASSUME HeartbeatInv, Look, verdict'.alarm, ~ verdict'.troubled, ~ (Cardinality(reports) > Cap)
  PROVE  \/ \E t \in Watched : \E d \in Slot : HadItsTime(t, d) /\ NothingSince(t, d)
         \/ /\ \E t \in Watched : \E d \in Slot : HadItsTime(t, d) /\ Since <= d
            /\ \E s \in Stray : NothingSince([service |-> s], Since)
<1>1. PICK listed \in SUBSET InWindow, readable \in SUBSET reports,
           calendar \in BOOLEAN, scheduler \in BOOLEAN, listing \in BOOLEAN :
        verdict' = [alarm |-> Alarm(readable, calendar, scheduler, listing),
                    troubled |-> ~(/\ listed = InWindow
                                   /\ readable \in NewestReports(listed)
                                   /\ calendar /\ scheduler /\ listing)]
  BY LookEffect
<1>2. /\ Alarm(readable, calendar, scheduler, listing)
      /\ readable \in NewestReports(InWindow) /\ calendar = TRUE /\ scheduler
  BY <1>1
<1>3. readable = InWindow
  BY <1>2, ReadsAll DEF HeartbeatInv
<1> DEFINE targets == {y \in Watched : Required(y, calendar)}
<1>4. \/ Missing(Kept(targets, listing), InWindow, calendar)
      \/ Unheard(targets, listing, InWindow)
  BY <1>2, <1>3 DEF Alarm, Unscheduled
<1>5. CASE Missing(Kept(targets, listing), InWindow, calendar)
  <2>1. PICK t \in targets : \A r \in InWindow : ~ Suffices(r, t, calendar)
    BY <1>5 DEF Missing, Kept
  <2> QED BY <1>2, <2>1, MissingCause
<1>6. CASE Unheard(targets, listing, InWindow)
  <2>1. \E s \in Stray : NothingSince([service |-> s], Since)
    <3> HIDE DEF targets
    <3> QED BY <1>6, UnheardCause
  <2>2. PICK t \in targets : TRUE
    BY <1>6 DEF Unheard
  <2>3. \E d \in Slot : HadItsTime(t, d) /\ Since <= d
    BY <1>2, <2>2, MissingCause
  <2> QED BY <2>1, <2>2, <2>3
<1> QED BY <1>4, <1>5, <1>6

\* A look that met no failure and was allowed to read every report alarms only if a run due
\* on an open day is past its grace without an acceptable report, or if such a run is past
\* its grace and a service the environment names outside the inventory left no acceptable
\* report in the whole window (main, _load_required_service_candidates).
THEOREM AlarmsAlwaysHaveCause == HeartbeatSpec => AlarmsHaveCause
<1>1. HeartbeatInv /\ [HeartbeatNext]_heartbeatVars =>
        [<<alarms, verdict>>' # <<alarms, verdict>> /\ verdict'.alarm =>
           \/ verdict'.troubled
           \/ Cardinality(reports) > Cap
           \/ \E t \in Watched : \E d \in Slot : HadItsTime(t, d) /\ NothingSince(t, d)
           \/ /\ \E t \in Watched : \E d \in Slot : HadItsTime(t, d) /\ Since <= d
              /\ \E s \in Stray : NothingSince([service |-> s], Since)]_heartbeatVars
  <2> SUFFICES ASSUME HeartbeatInv, HeartbeatNext, <<alarms, verdict>>' # <<alarms, verdict>>,
                      verdict'.alarm, ~ verdict'.troubled, ~ (Cardinality(reports) > Cap)
               PROVE  \/ \E t \in Watched : \E d \in Slot : HadItsTime(t, d) /\ NothingSince(t, d)
                      \/ /\ \E t \in Watched : \E d \in Slot : HadItsTime(t, d) /\ Since <= d
                         /\ \E s \in Stray : NothingSince([service |-> s], Since)
    OBVIOUS
  <2>1. Look
    BY DEF HeartbeatNext, Pass, Land
  <2> QED BY <2>1, CauseStep
<1> QED BY <1>1, HeartbeatInvHolds, PTL DEF HeartbeatSpec, AlarmsHaveCause

-----------------------------------------------------------------------------
(* All of them.  A step is of one part; the others' variables stay.        *)

operationsVars == <<part, recoveryVars, heartbeatVars, guardVars, deploymentVars, paperVars>>

OperationsSpec == MCInit /\ [][MCNext]_operationsVars

OperationsInv ==
  /\ part \in Part
  /\ RecoveryInv /\ HeartbeatInv /\ GuardInv /\ DeploymentInv /\ PaperInv

LEMMA OperationsInvStep == OperationsInv /\ [MCNext]_operationsVars => OperationsInv'
<1> SUFFICES ASSUME OperationsInv, [MCNext]_operationsVars PROVE OperationsInv'
  OBVIOUS
<1>1. part' = part
  BY DEF MCNext, RecoveryRuns, HeartbeatRuns, GuardRuns, DeploymentRuns, PaperRuns,
         operationsVars
<1>2. /\ [RecoveryNext]_recoveryVars /\ [HeartbeatNext]_heartbeatVars
      /\ [GuardNext]_guardVars /\ [DeploymentNext]_deploymentVars /\ [PaperNext]_paperVars
  BY DEF MCNext, RecoveryRuns, HeartbeatRuns, GuardRuns, DeploymentRuns, PaperRuns,
         operationsVars
<1>3. RecoveryInv'
  BY <1>2, RecoveryStepInv DEF OperationsInv
<1>4. HeartbeatInv'
  BY <1>2, HeartbeatInvStep DEF OperationsInv
<1>5. GuardInv'
  BY <1>2, GuardInvStep DEF OperationsInv
<1>6. DeploymentInv'
  BY <1>2, DeploymentInvStep DEF OperationsInv
<1>7. PaperInv'
  BY <1>2, PaperStepInv DEF OperationsInv
<1> QED BY <1>1, <1>3, <1>4, <1>5, <1>6, <1>7 DEF OperationsInv

\* Every variable of the programs around the service keeps its type: the recovery files,
\* the reports and alarms, the log, the revisions and jobs of a deployment and the paper
\* account, whichever of the programs runs.
THEOREM OperationsTypes == OperationsSpec => []OperationsTypeOK
<1>1. MCInit => OperationsInv
  BY RecoveryInitInv, HeartbeatInvInit, GuardInvInit, DeploymentInvInit, PaperInitInv
     DEF MCInit, OperationsInv
<1>2. OperationsInv => OperationsTypeOK
  BY DEF OperationsInv, OperationsTypeOK, RecoveryInv, HeartbeatInv, GuardInv,
         DeploymentInv, PaperInv
<1> QED BY <1>1, <1>2, OperationsInvStep, PTL DEF OperationsSpec
=============================================================================
