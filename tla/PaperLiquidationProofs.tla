------------------------ MODULE PaperLiquidationProofs ------------------------
(***************************************************************************)
(* Proofs about PaperLiquidation.  A position can only be reversed if an   *)
(* intent is submitted on top of an order that still works.  So the        *)
(* invariant follows an intent from the reading to its submission: nothing *)
(* works for it (Alone) and it is for the whole position (Exact), and the  *)
(* orders of an account only point towards zero (Sided).                   *)
(***************************************************************************)
EXTENDS PaperLiquidation, TLAPS

Sided(s) ==
  /\ start[s] >= 0 => buying[s] = 0
  /\ start[s] <= 0 => selling[s] = 0

\* Nothing works while the positions are read, nor for an intent on the list.
Alone ==
  /\ pc \in {"read", "reread"} /\ ~dry => NothingWorks
  /\ \A s \in todo : selling[s] = 0 /\ buying[s] = 0

Exact ==
  /\ todo # {} => pc = "submit" /\ ~dry
  /\ pc = "submit" => ~dry
  /\ \A s \in todo : view[s] # 0 /\ view[s] = position[s]

\* What a liquidation has not been disturbed in has an order for every long
\* position, or an intent.
Served ==
  (pc = "submit" \/ (pc = "idle" /\ status = "submitted")) /\ ~missed /\ ~refused
    => \A s \in Symbol : position[s] > 0 => s \in todo \/ selling[s] = position[s]

\* Nothing works yet when nothing has been submitted.
Inert == pc = "submit" /\ submitted = {} => NothingWorks

Guarded == NoReversal /\ (\A s \in Symbol : Sided(s)) /\ Alone /\ Exact

LEMMA InitIInv == Init => TypeOK /\ Guarded /\ Served /\ Inert
<1> SUFFICES ASSUME Init PROVE TypeOK /\ Guarded /\ Served /\ Inert
  OBVIOUS
<1>1. start \in [Symbol -> Int]
  BY LiquidationAssumption DEF Init
<1>2. TypeOK
  <2>1. calls \in 0 .. MaxCalls
    BY LiquidationAssumption DEF Init
  <2>2. /\ position \in [Symbol -> Int] /\ view \in [Symbol -> Int]
        /\ selling \in [Symbol -> Nat] /\ buying \in [Symbol -> Nat]
    BY <1>1 DEF Init
  <2>3. todo \subseteq Symbol /\ submitted \subseteq Symbol
    BY DEF Init
  <2> QED
    BY <1>1, <2>1, <2>2, <2>3 DEF Init, TypeOK
<1>3. NoReversal /\ \A s \in Symbol : Sided(s)
  BY <1>1 DEF Init, NoReversal, Sided
<1> QED
  BY <1>2, <1>3 DEF Init, Guarded, Alone, Exact, Served, Inert, NothingWorks

-----------------------------------------------------------------------------
(* The broker's steps. *)

\* A quantity that fills leaves an order's sum with its position alone.
LEMMA SellFills ==
  ASSUME TypeOK, NEW s \in Symbol, FillSell(s)
  PROVE  /\ selling' \in [Symbol -> Nat] /\ position' \in [Symbol -> Int]
         /\ \A z \in Symbol : position'[z] - selling'[z] = position[z] - selling[z]
         /\ \A z \in Symbol : position'[z] <= position[z]
         /\ \A z \in Symbol : selling'[z] # selling[z] \/ position'[z] # position[z] =>
              z = s /\ selling[z] > 0
<1>1. PICK n \in {1, selling[s]} :
        /\ selling' = [selling EXCEPT ![s] = @ - n]
        /\ position' = [position EXCEPT ![s] = @ - n]
  BY DEF FillSell
<1>2. /\ selling \in [Symbol -> Nat] /\ position \in [Symbol -> Int] /\ selling[s] > 0
  BY DEF TypeOK, FillSell
<1>3. n \in Nat /\ n <= selling[s]
  BY <1>2
<1>4. selling[s] - n \in Nat /\ position[s] - n \in Int
  BY <1>2, <1>3
<1>5. ASSUME NEW z \in Symbol
      PROVE  /\ position'[z] - selling'[z] = position[z] - selling[z]
             /\ position'[z] <= position[z]
             /\ selling'[z] # selling[z] \/ position'[z] # position[z] => z = s /\ selling[z] > 0
  <2>1. CASE z = s
    BY <1>1, <1>2, <1>3, <2>1
  <2>2. CASE z # s
    BY <1>1, <1>2, <2>2
  <2> QED
    BY <2>1, <2>2
<1> QED
  BY <1>1, <1>2, <1>4, <1>5

LEMMA BuyFills ==
  ASSUME TypeOK, NEW s \in Symbol, FillBuy(s)
  PROVE  /\ buying' \in [Symbol -> Nat] /\ position' \in [Symbol -> Int]
         /\ \A z \in Symbol : position'[z] + buying'[z] = position[z] + buying[z]
         /\ \A z \in Symbol : position'[z] >= position[z]
         /\ \A z \in Symbol : buying'[z] # buying[z] \/ position'[z] # position[z] =>
              z = s /\ buying[z] > 0
<1>1. PICK n \in {1, buying[s]} :
        /\ buying' = [buying EXCEPT ![s] = @ - n]
        /\ position' = [position EXCEPT ![s] = @ + n]
  BY DEF FillBuy
<1>2. /\ buying \in [Symbol -> Nat] /\ position \in [Symbol -> Int] /\ buying[s] > 0
  BY DEF TypeOK, FillBuy
<1>3. n \in Nat /\ n <= buying[s]
  BY <1>2
<1>4. buying[s] - n \in Nat /\ position[s] + n \in Int
  BY <1>2, <1>3
<1>5. ASSUME NEW z \in Symbol
      PROVE  /\ position'[z] + buying'[z] = position[z] + buying[z]
             /\ position'[z] >= position[z]
             /\ buying'[z] # buying[z] \/ position'[z] # position[z] => z = s /\ buying[z] > 0
  <2>1. CASE z = s
    BY <1>1, <1>2, <1>3, <2>1
  <2>2. CASE z # s
    BY <1>1, <1>2, <2>2
  <2> QED
    BY <2>1, <2>2
<1> QED
  BY <1>1, <1>2, <1>4, <1>5

-----------------------------------------------------------------------------
(* Types. *)

\* The gate halves a purchase, or leaves it.
LEMMA ScaledBounds ==
  ASSUME NEW q \in Nat
  PROVE  Scaled(q) \in Nat /\ Scaled(q) <= q
  BY DEF Scaled

LEMMA PlaceType ==
  ASSUME TypeOK, NEW s \in Symbol, Place(s)
  PROVE  selling' \in [Symbol -> Nat] /\ buying' \in [Symbol -> Nat]
<1>1. /\ selling \in [Symbol -> Nat] /\ buying \in [Symbol -> Nat] /\ view[s] \in Int
  BY DEF TypeOK
<1>2. CASE view[s] > 0
  <2>1. selling[s] + view[s] \in Nat
    BY <1>1, <1>2
  <2> QED
    BY <1>1, <1>2, <2>1 DEF Place, Ordered, Quantity
<1>3. CASE ~(view[s] > 0)
  <2>1. -view[s] \in Nat
    BY <1>1, <1>3
  <2>2. buying[s] + Scaled(-view[s]) \in Nat
    BY <1>1, <2>1, ScaledBounds
  <2> QED
    BY <1>1, <1>3, <2>2 DEF Place, Ordered, Quantity
<1> QED
  BY <1>2, <1>3

LEMMA StepType == TypeOK /\ [Next]_vars => TypeOK'
<1> SUFFICES ASSUME TypeOK, [Next]_vars PROVE TypeOK'
  OBVIOUS
<1> calls \in 0 .. MaxCalls /\ MaxCalls \in Nat
  BY LiquidationAssumption DEF TypeOK
<1>1. CASE Rehearse
  <2>1. calls' \in 0 .. MaxCalls
    BY <1>1 DEF Rehearse, Call
  <2> QED
    BY <1>1, <2>1 DEF TypeOK, Rehearse, brokerVars, summaryVars
<1>2. CASE Liquidate
  <2>1. calls' \in 0 .. MaxCalls
    BY <1>2 DEF Liquidate, Call
  <2>2. dry' \in BOOLEAN
    BY <1>2 DEF Liquidate
  <2> QED
    BY <1>2, <2>1, <2>2 DEF TypeOK, Liquidate, brokerVars
<1>3. CASE Read
  <2>1. view' \in [Symbol -> Int] /\ missed' \in BOOLEAN
    BY <1>3 DEF TypeOK, Read
  <2>2. Intents(view') \subseteq Symbol
    BY DEF Intents
  <2>3. /\ pc' \in {"idle", "reread", "submit"}
        /\ todo' \subseteq Symbol /\ submitted' \subseteq Symbol
        /\ status' \in {status, "no_op", "dry_run", "executing"}
    BY <1>3, <2>2 DEF TypeOK, Read, Begin
  <2> QED
    BY <1>3, <2>1, <2>3 DEF TypeOK, Read, brokerVars
<1>4. CASE Conclude
  BY <1>4 DEF TypeOK, Conclude, brokerVars
<1>5. CASE Restart
  BY <1>5 DEF TypeOK, Restart, brokerVars
<1>6. CASE Expire
  <2>1. selling' \in [Symbol -> Nat] /\ buying' \in [Symbol -> Nat]
    BY <1>6 DEF Expire
  <2> QED
    BY <1>6, <2>1 DEF TypeOK, Expire
<1>7. CASE Rest
  BY <1>7 DEF TypeOK, Rest, vars, brokerVars, summaryVars
<1>8. ASSUME NEW s \in Symbol, Submit(s) PROVE TypeOK'
  <2>1. selling' \in [Symbol -> Nat] /\ buying' \in [Symbol -> Nat]
    BY <1>8, PlaceType DEF TypeOK, Submit
  <2>2. /\ todo' \subseteq Symbol /\ submitted' \subseteq Symbol
        /\ pc' \in {pc, "idle"} /\ status' \in {status, "error"}
    BY <1>8 DEF TypeOK, Submit
  <2>3. refused' \in BOOLEAN
    <3>1. CASE refused' = (refused \/ ~GateRejects(s))
      BY <3>1, Zenon DEF TypeOK
    <3>2. CASE refused' \in {refused, TRUE}
      BY <3>2 DEF TypeOK
    <3> QED
      BY <1>8, <3>1, <3>2 DEF Submit
  <2> QED
    BY <1>8, <2>1, <2>2, <2>3 DEF TypeOK, Submit
<1>9. ASSUME NEW s \in Symbol, FillSell(s) PROVE TypeOK'
  BY <1>9, SellFills DEF TypeOK, FillSell, summaryVars
<1>10. ASSUME NEW s \in Symbol, FillBuy(s) PROVE TypeOK'
  BY <1>10, BuyFills DEF TypeOK, FillBuy, summaryVars
<1>11. CASE UNCHANGED vars
  BY <1>11 DEF TypeOK, vars, brokerVars, summaryVars
<1> QED
  BY <1>1, <1>2, <1>3, <1>4, <1>5, <1>6, <1>7, <1>8, <1>9, <1>10, <1>11 DEF Next

-----------------------------------------------------------------------------
(* The broker's steps keep the invariant. *)

LEMMA FillSellGuarded ==
  ASSUME TypeOK, TypeOK', Guarded, NEW s \in Symbol, FillSell(s)
  PROVE  Guarded'
<1>1. /\ \A z \in Symbol : position'[z] - selling'[z] = position[z] - selling[z]
      /\ \A z \in Symbol : position'[z] <= position[z]
      /\ \A z \in Symbol : selling'[z] # selling[z] \/ position'[z] # position[z] =>
           z = s /\ selling[z] > 0
  BY SellFills
<1>2. UNCHANGED <<start, buying, pc, dry, view, todo>>
  BY DEF FillSell
<1>3. \A z \in Symbol : /\ position[z] \in Int /\ position'[z] \in Int /\ start[z] \in Int
                        /\ selling[z] \in Nat /\ selling'[z] \in Nat /\ buying[z] \in Nat
  BY DEF TypeOK
<1>4. ASSUME NEW z \in Symbol PROVE Sided(z)'
  BY <1>1, <1>2, <1>3 DEF Guarded, Sided
<1>5. NoReversal'
  BY <1>1, <1>2, <1>3 DEF Guarded, NoReversal, Sided
<1>6. Alone'
  BY <1>1, <1>2, <1>3 DEF TypeOK, Guarded, Alone, NothingWorks
<1>7. Exact'
  BY <1>1, <1>2, <1>3 DEF TypeOK, Guarded, Exact, Alone
<1> QED
  BY <1>4, <1>5, <1>6, <1>7 DEF Guarded

LEMMA FillBuyGuarded ==
  ASSUME TypeOK, TypeOK', Guarded, NEW s \in Symbol, FillBuy(s)
  PROVE  Guarded'
<1>1. /\ \A z \in Symbol : position'[z] + buying'[z] = position[z] + buying[z]
      /\ \A z \in Symbol : position'[z] >= position[z]
      /\ \A z \in Symbol : buying'[z] # buying[z] \/ position'[z] # position[z] =>
           z = s /\ buying[z] > 0
  BY BuyFills
<1>2. UNCHANGED <<start, selling, pc, dry, view, todo>>
  BY DEF FillBuy
<1>3. \A z \in Symbol : /\ position[z] \in Int /\ position'[z] \in Int /\ start[z] \in Int
                        /\ buying[z] \in Nat /\ buying'[z] \in Nat /\ selling[z] \in Nat
  BY DEF TypeOK
<1>4. ASSUME NEW z \in Symbol PROVE Sided(z)'
  BY <1>1, <1>2, <1>3 DEF Guarded, Sided
<1>5. NoReversal'
  BY <1>1, <1>2, <1>3 DEF Guarded, NoReversal, Sided
<1>6. Alone'
  BY <1>1, <1>2, <1>3 DEF TypeOK, Guarded, Alone, NothingWorks
<1>7. Exact'
  BY <1>1, <1>2, <1>3 DEF TypeOK, Guarded, Exact, Alone
<1> QED
  BY <1>4, <1>5, <1>6, <1>7 DEF Guarded

\* What works is cancelled.
LEMMA ExpireGuarded ==
  ASSUME TypeOK, TypeOK', Guarded, Expire
  PROVE  Guarded'
<1>1. /\ \A z \in Symbol : selling'[z] = 0 /\ buying'[z] = 0
      /\ UNCHANGED <<start, position, pc, dry, view, todo>>
  BY DEF Expire
<1>2. \A z \in Symbol : /\ position[z] \in Int /\ start[z] \in Int
                        /\ selling[z] \in Nat /\ buying[z] \in Nat
  BY DEF TypeOK
<1>3. NoReversal'
  BY <1>1, <1>2 DEF Guarded, NoReversal
<1> QED
  BY <1>1, <1>3 DEF TypeOK, Guarded, Sided, Alone, Exact, NothingWorks

-----------------------------------------------------------------------------
(* The program's steps keep it. *)

\* An intent is for the whole position, and its order is alone.
LEMMA PlaceGuarded ==
  ASSUME TypeOK, Guarded, NEW s \in todo, Place(s), UNCHANGED <<start, position>>
  PROVE  /\ NoReversal' /\ \A z \in Symbol : Sided(z)'
         /\ \A z \in Symbol \ {s} : selling'[z] = selling[z] /\ buying'[z] = buying[z]
         /\ position[s] > 0 => selling'[s] = position[s]
<1>1. /\ s \in Symbol /\ view[s] = position[s] /\ position[s] # 0 /\ position[s] \in Int
      /\ start[s] \in Int /\ selling[s] = 0 /\ buying[s] = 0
  BY DEF TypeOK, Guarded, Exact, Alone
<1>2. selling \in [Symbol -> Nat] /\ buying \in [Symbol -> Nat]
  BY DEF TypeOK
<1>3. ASSUME NEW z \in Symbol \ {s}
      PROVE  selling'[z] = selling[z] /\ buying'[z] = buying[z]
  BY <1>2, <1>3 DEF Place
<1>4. CASE position[s] > 0
  <2>1. selling'[s] = position[s] /\ buying'[s] = 0
    BY <1>1, <1>2, <1>4 DEF Place, Ordered, Quantity
  <2>2. start[s] > 0 /\ position[s] <= start[s]
    BY <1>1, <1>4 DEF Guarded, NoReversal
  <2> QED
    BY <1>1, <1>3, <1>4, <2>1, <2>2 DEF Guarded, NoReversal, Sided
<1>5. CASE position[s] < 0
  <2>1. -position[s] \in Nat
    BY <1>1, <1>5
  <2>2. Scaled(-view[s]) \in Nat /\ Scaled(-view[s]) <= -position[s]
    BY <1>1, <2>1, ScaledBounds
  <2>3. selling'[s] = 0 /\ buying'[s] = Scaled(-view[s])
    BY <1>1, <1>2, <1>5, <2>2 DEF Place, Ordered, Quantity
  <2>4. start[s] < 0 /\ position[s] >= start[s]
    BY <1>1, <1>5 DEF Guarded, NoReversal
  <2>5. position[s] + buying'[s] <= 0
    BY <1>1, <2>2, <2>3
  <2> QED
    BY <1>1, <1>3, <1>5, <2>3, <2>4, <2>5 DEF Guarded, NoReversal, Sided
<1> QED
  BY <1>1, <1>4, <1>5

LEMMA SubmitGuarded ==
  ASSUME TypeOK, Guarded, NEW s \in Symbol, Submit(s)
  PROVE  Guarded'
<1>1. /\ pc = "submit" /\ s \in todo /\ todo' \subseteq todo \ {s}
      /\ pc' \in {"submit", "idle"} /\ (pc' = "idle" => todo' = {})
      /\ UNCHANGED <<start, position, dry, view>>
  BY DEF Submit
<1>2. Exact'
  BY <1>1 DEF Guarded, Exact
<1>3. CASE Place(s)
  <2>1. /\ NoReversal' /\ \A z \in Symbol : Sided(z)'
        /\ \A z \in Symbol \ {s} : selling'[z] = selling[z] /\ buying'[z] = buying[z]
    BY <1>1, <1>3, PlaceGuarded
  <2>2. Alone'
    BY <1>1, <2>1 DEF TypeOK, Guarded, Alone
  <2> QED
    BY <1>2, <2>1, <2>2 DEF Guarded
<1>4. CASE UNCHANGED <<selling, buying>>
  BY <1>1, <1>2, <1>4 DEF Guarded, NoReversal, Sided, Alone
<1> QED
  BY <1>3, <1>4 DEF Submit

LEMMA ReadGuarded ==
  ASSUME TypeOK, Guarded, Read
  PROVE  Guarded'
<1>1. /\ UNCHANGED <<start, position, selling, buying, dry>>
      /\ pc \in {"read", "reread"} /\ todo = {}
  BY DEF Read, brokerVars, Guarded, Exact
<1>2. \A z \in Symbol : view'[z] # 0 => view'[z] = position[z]
  BY DEF Read
<1>3. \/ pc' \in {"idle", "reread"} /\ todo' = {}
      \/ pc' = "submit" /\ ~dry /\ todo' = Intents(view')
  BY <1>1 DEF Read, Begin
<1>4. Exact'
  BY <1>1, <1>2, <1>3 DEF Exact, Intents
<1>5. Alone'
  BY <1>1, <1>3 DEF Guarded, Alone, NothingWorks, Intents
<1> QED
  BY <1>1, <1>4, <1>5 DEF Guarded, NoReversal, Sided

LEMMA StepGuarded ==
  ASSUME Patient
  PROVE  TypeOK /\ TypeOK' /\ Guarded /\ [Next]_vars => Guarded'
<1> SUFFICES ASSUME TypeOK, TypeOK', Guarded, [Next]_vars PROVE Guarded'
  OBVIOUS
<1>1. CASE Rehearse
  BY <1>1 DEF Guarded, NoReversal, Sided, Alone, Exact, NothingWorks, Rehearse, brokerVars
<1>2. CASE Liquidate
  <2>1. todo' = {} /\ pc' = "read" /\ (~dry' => NothingWorks)
    BY <1>2 DEF Guarded, Exact, Liquidate, Call
  <2> QED
    BY <1>2, <2>1 DEF Guarded, NoReversal, Sided, Alone, Exact, NothingWorks, Liquidate, brokerVars
<1>3. CASE Read
  BY <1>3, ReadGuarded
<1>4. CASE Conclude
  BY <1>4 DEF Guarded, NoReversal, Sided, Alone, Exact, NothingWorks, Conclude, brokerVars
<1>5. CASE Restart
  BY <1>5 DEF Guarded, NoReversal, Sided, Alone, Exact, NothingWorks, Restart, brokerVars
<1>6. CASE Expire
  BY <1>6, ExpireGuarded
<1>7. CASE UNCHANGED vars
  BY <1>7 DEF Guarded, NoReversal, Sided, Alone, Exact, NothingWorks, vars, brokerVars
<1>8. ASSUME NEW s \in Symbol, Submit(s) \/ FillSell(s) \/ FillBuy(s) PROVE Guarded'
  BY <1>8, SubmitGuarded, FillSellGuarded, FillBuyGuarded
<1> QED
  BY <1>1, <1>2, <1>3, <1>4, <1>5, <1>6, <1>7, <1>8 DEF Next, Rest

-----------------------------------------------------------------------------
(* What a liquidation has done when it answers. *)

\* A long position has its order or its intent: an accepted sale is for the whole.
LEMMA SubmitServed ==
  ASSUME TypeOK, Guarded, Served, NEW s \in Symbol, Submit(s)
  PROVE  Served'
<1> SUFFICES ASSUME pc' = "submit", ~missed', ~refused', NEW z \in Symbol, position'[z] > 0,
                    z \notin todo'
             PROVE  selling'[z] = position'[z]
  BY DEF Served, Submit
<1>1. /\ pc = "submit" /\ s \in todo /\ ~missed /\ position' = position /\ start' = start
      /\ todo' = todo \ {s}
  BY DEF Submit
<1>2. position \in [Symbol -> Int]
  BY DEF TypeOK
<1>3. CASE Place(s) /\ refused' = refused
  <2>1. /\ \A y \in Symbol \ {s} : selling'[y] = selling[y]
        /\ position[s] > 0 => selling'[s] = position[s]
    BY <1>1, <1>3, PlaceGuarded
  <2> QED
    BY <1>1, <1>3, <2>1 DEF Served
<1>4. CASE selling' = selling /\ refused' = (refused \/ ~GateRejects(s))
  <2>1. ~refused /\ GateRejects(s)
    BY <1>4
  <2>2. position[s] < 0
    BY <1>1, <2>1 DEF GateRejects, Guarded, Exact
  <2>3. z # s
    BY <1>1, <1>2, <2>2
  <2> QED
    BY <1>1, <1>4, <2>1, <2>3 DEF Served
<1>5. ~(pc' = "idle")
  OBVIOUS
<1> QED
  BY <1>3, <1>4, <1>5 DEF Submit

LEMMA StepServed ==
  ASSUME Patient
  PROVE  TypeOK /\ TypeOK' /\ Guarded /\ Served /\ [Next]_vars => Served'
<1> SUFFICES ASSUME TypeOK, TypeOK', Guarded, Served, [Next]_vars PROVE Served'
  OBVIOUS
<1>0. \A z \in Symbol : /\ position[z] \in Int /\ position'[z] \in Int /\ start[z] \in Int
                        /\ selling[z] \in Nat /\ selling'[z] \in Nat
                        /\ buying[z] \in Nat /\ buying'[z] \in Nat
  BY DEF TypeOK
<1>1. CASE Rehearse
  BY <1>1 DEF Served, Rehearse, brokerVars, summaryVars
<1>2. CASE Liquidate
  BY <1>2 DEF Served, Liquidate
<1>3. CASE Read
  <2>1. CASE pc' # "submit"
    BY <1>3, <2>1 DEF Served, Read, Begin
  <2>2. CASE pc' = "submit"
    <3>1. todo' = Intents(view') /\ position' = position
      BY <1>3, <2>2 DEF Read, Begin, brokerVars
    <3>2. ~missed' => \A z \in Symbol : position[z] # 0 => view'[z] = position[z]
      BY <1>3 DEF Read
    <3> QED
      BY <1>0, <2>2, <3>1, <3>2 DEF Served, Intents
  <2> QED
    BY <2>1, <2>2
<1>4. CASE Conclude
  BY <1>4 DEF Served, Conclude, brokerVars
<1>5. CASE Restart
  BY <1>5 DEF Served, Guarded, Exact, Restart, brokerVars
<1>6. CASE Expire
  BY <1>6 DEF Served, Expire
<1>7. CASE UNCHANGED vars
  BY <1>7 DEF Served, vars, brokerVars, summaryVars
<1>8. ASSUME NEW s \in Symbol, Submit(s) PROVE Served'
  BY <1>8, SubmitServed
<1>9. ASSUME NEW s \in Symbol, FillSell(s) PROVE Served'
  <2>1. /\ \A z \in Symbol : position'[z] - selling'[z] = position[z] - selling[z]
        /\ \A z \in Symbol : position'[z] <= position[z]
    BY <1>9, SellFills
  <2>2. UNCHANGED <<pc, todo, missed, refused, status>>
    BY <1>9 DEF FillSell, summaryVars
  <2> QED
    BY <1>0, <2>1, <2>2 DEF Served
<1>10. ASSUME NEW s \in Symbol, FillBuy(s) PROVE Served'
  <2>1. \A z \in Symbol : buying'[z] # buying[z] \/ position'[z] # position[z] =>
          z = s /\ buying[z] > 0
    BY <1>10, BuyFills
  <2>2. UNCHANGED <<start, selling, pc, todo, missed, refused, status>>
    BY <1>10 DEF FillBuy, summaryVars
  <2>3. buying[s] > 0 => start[s] < 0
    BY <1>0 DEF Guarded, Sided
  <2>4. Guarded'
    BY <1>10, FillBuyGuarded
  <2>5. start[s] < 0 => position'[s] <= 0
    BY <1>0, <2>2, <2>4 DEF Guarded, NoReversal
  <2>6. \A z \in Symbol : position'[z] > 0 => position'[z] = position[z]
    BY <1>0, <2>1, <2>3, <2>5
  <2> QED
    BY <1>0, <2>2, <2>6 DEF Served
<1> QED
  BY <1>1, <1>2, <1>3, <1>4, <1>5, <1>6, <1>7, <1>8, <1>9, <1>10 DEF Next, Rest

LEMMA StepInert ==
  ASSUME Patient
  PROVE  TypeOK /\ Guarded /\ Inert /\ [Next]_vars => Inert'
<1> SUFFICES ASSUME TypeOK, Guarded, Inert, [Next]_vars PROVE Inert'
  OBVIOUS
<1>1. CASE Rehearse
  BY <1>1 DEF Inert, NothingWorks, Rehearse, brokerVars, summaryVars
<1>2. CASE Liquidate \/ Conclude \/ Restart
  BY <1>2 DEF Inert, Liquidate, Conclude, Restart
<1>3. CASE Read
  BY <1>3 DEF Inert, Guarded, Alone, NothingWorks, Read, Begin, brokerVars
<1>4. CASE Expire
  BY <1>4 DEF Inert, NothingWorks, Expire
<1>5. CASE UNCHANGED vars
  BY <1>5 DEF Inert, NothingWorks, vars, brokerVars, summaryVars
<1>6. ASSUME NEW s \in Symbol, Submit(s) PROVE Inert'
  BY <1>6 DEF Inert, NothingWorks, Submit
<1>7. ASSUME NEW s \in Symbol, FillSell(s) \/ FillBuy(s) PROVE Inert'
  <2>1. UNCHANGED <<pc, submitted>> /\ ~NothingWorks
    BY <1>7 DEF NothingWorks, FillSell, FillBuy, summaryVars, TypeOK
  <2> QED
    BY <2>1 DEF Inert
<1> QED
  BY <1>1, <1>2, <1>3, <1>4, <1>5, <1>6, <1>7 DEF Next, Rest

-----------------------------------------------------------------------------
(* Theorems. *)

\* Every variable keeps its type (application/paper_liquidation_service.py).
THEOREM TypeCorrect == Spec => []TypeOK
  BY InitIInv, StepType, PTL DEF Spec

LEMMA Inductive == Patient => (Spec => [](TypeOK /\ Guarded /\ Served /\ Inert))
<1>1. ASSUME Patient
      PROVE  TypeOK /\ Guarded /\ Served /\ Inert /\ [Next]_vars
               => TypeOK' /\ Guarded' /\ Served' /\ Inert'
  BY <1>1, StepType, StepGuarded, StepServed, StepInert
<1>2. ASSUME Patient PROVE Spec => [](TypeOK /\ Guarded /\ Served /\ Inert)
  <2>1. TypeOK /\ Guarded /\ Served /\ Inert /\ [Next]_vars
          => TypeOK' /\ Guarded' /\ Served' /\ Inert'
    BY <1>1, <1>2
  <2> QED
    BY InitIInv, <2>1, PTL DEF Spec
<1> QED
  BY <1>2

\* An account that is cleared only when nothing is working is taken towards zero,
\* never past it (execute_paper_liquidation, paper_liquidation_service.py:58).
THEOREM NeverReversed == Patient => (Spec => []NoReversal)
<1>1. Guarded => NoReversal
  BY DEF Guarded
<1> QED
  BY Inductive, <1>1, PTL

\* A liquidation that saw every position, and none of whose orders failed, leaves
\* no long position unsold (execute_paper_liquidation).
THEOREM LongsAreSold == Patient => (Spec => []LongsLeave)
<1>1. TypeOK /\ Guarded /\ Served => LongsLeave
  BY DEF LongsLeave, Undisturbed, Served, Guarded, Exact
<1> QED
  BY Inductive, <1>1, PTL

\* A liquidation that answers "blocked" has left nothing in the market
\* (paper_liquidation_service.py:107).
THEOREM BlockedLeavesNothing == Patient => (Spec => BlockedIsInert)
<1>1. /\ TypeOK /\ Inert /\ [Next]_vars
      => [pc # "idle" /\ pc' = "idle" /\ status' = "blocked" /\ Patient => NothingWorks]_vars
  <2> SUFFICES ASSUME Inert, Next, pc # "idle", pc' = "idle", status' = "blocked"
               PROVE  NothingWorks
    OBVIOUS
  <2>1. CASE Conclude
    BY <2>1 DEF Conclude, Inert, TypeOK
  <2>2. CASE Rehearse \/ Liquidate \/ Expire \/ Rest
    BY <2>2 DEF Rehearse, Call, Liquidate, Expire, Rest
  <2>3. CASE Read \/ Restart
    BY <2>3 DEF Read, Begin, Restart
  <2>4. ASSUME NEW s \in Symbol, Submit(s) \/ FillSell(s) \/ FillBuy(s) PROVE FALSE
    BY <2>4 DEF Submit, FillSell, FillBuy
  <2> QED
    BY <2>1, <2>2, <2>3, <2>4 DEF Next
<1> QED
  BY Inductive, <1>1, PTL DEF Spec, BlockedIsInert
=============================================================================
