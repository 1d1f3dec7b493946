------------------------------ MODULE PaperAdmission ------------------------------
(***************************************************************************)
(* Cycles of a paper service whose orders need the risk receipt of an      *)
(* execution command (application/paper_execution_admission.py and where   *)
(* execute_rebalance calls it).  Cycles come one after the other; days     *)
(* pass between them, and orders of earlier cycles fill when the broker    *)
(* likes.  A cycle looks at orders and fills in the cache of its own       *)
(* session, which the gateway need not tell about those of other clients.  *)
(*                                                                         *)
(* Values are in units of a dollar: differences of up to a cent, and the   *)
(* threshold of the rebalance, are no difference.  How many shares are     *)
(* bought or sold, and the safe haven that is sold and bought back in one  *)
(* cycle, are RebalanceOrders' matter.  The gate on a receipt, in an       *)
(* external package, is taken at its most generous.                        *)
(***************************************************************************)
EXTENDS Integers

CONSTANTS
  PaperSymbol,
  MaxShares,    \* bound: of a position or an order
  PaperQuote,   \* bound: quotes; 0 is a missing one
  PaperTarget   \* bound: target values

ASSUME PaperAssumption ==
  /\ MaxShares \in Nat
  /\ PaperQuote \subseteq Nat /\ 0 \in PaperQuote
  /\ PaperTarget \subseteq Nat /\ 0 \in PaperTarget

VARIABLES
  stock,     \* the account's positions, a short one below 0
  buying,    \* of each symbol the shares of working purchases
  selling,   \* and of working sales
  fills,     \* the symbols with fills of today
  stage,     \* of the cycle
  sight,     \* the positions it has read,
  quote,     \* the quotes,
  aim,       \* target_mv,
  receipt,   \* the disposition of the risk receipt; "halted" without a valid one
  hidden,    \* the symbols whose orders and fills its session may not be told of
  dated,     \* the trade date of the signal is today
  todo       \* the symbols the cycle has not placed an order for

brokerVars == <<stock, buying, selling, fills>>
readVars == <<sight, quote, aim, receipt, hidden, dated>>
paperVars == <<brokerVars, stage, readVars, todo>>

Nothing == [s \in PaperSymbol |-> 0]

\* Of the receipt, or of its absence: without a valid command of this service, account
\* and session nothing is placed.
Disposition == {"allow", "reducing", "halted"}

PaperTypeOK ==
  /\ stock \in [PaperSymbol -> -MaxShares .. MaxShares]
  /\ buying \in [PaperSymbol -> 0 .. 2 * MaxShares]
  /\ selling \in [PaperSymbol -> 0 .. 2 * MaxShares]
  /\ fills \subseteq PaperSymbol
  /\ stage \in {"idle", "read", "admitted", "looked", "selling", "buying"}
  /\ sight \in [PaperSymbol -> -MaxShares .. MaxShares]
  /\ stage \in {"idle", "read"} \/ sight \in [PaperSymbol -> 0 .. MaxShares]
  /\ quote \in [PaperSymbol -> PaperQuote] /\ aim \in [PaperSymbol -> PaperTarget]
  /\ receipt \in Disposition
  /\ hidden \subseteq PaperSymbol /\ dated \in BOOLEAN
  /\ todo \subseteq PaperSymbol

PaperInit ==
  /\ stock \in [PaperSymbol -> 0 .. MaxShares] /\ buying = Nothing /\ selling = Nothing
  /\ fills = {} /\ stage = "idle" /\ todo = {}
  /\ sight = Nothing /\ quote = Nothing /\ aim = Nothing
  /\ receipt = "halted" /\ hidden = {} /\ dated = FALSE

-----------------------------------------------------------------------------
(* The admission. *)

Current(s) == sight[s] * quote[s]

\* _exposure_facts: by position and quote, whatever side an order would have.
Effect(s) ==
  CASE aim[s] > Current(s) -> "increases"
    [] aim[s] < Current(s) -> "reduces"
    [] OTHER -> "neutral"

\* Mutant of Valued: a short position is no finding.
ValuedByQuote == \A s \in PaperSymbol : quote[s] > 0

\* A symbol without a quote, or with a short position, is a finding.
Valued == \A s \in PaperSymbol : quote[s] > 0 /\ sight[s] >= 0

\* evaluate_runtime_command_gate
Gate(effect) == receipt = "allow" \/ (receipt = "reducing" /\ effect # "increases")

\* Mutant of Allowed: one receipt of the gate is enough.
AllowedOnce == Valued /\ \E s \in PaperSymbol : Gate(Effect(s))

\* broker_write_allowed
Allowed == Valued /\ \A s \in PaperSymbol : Gate(Effect(s))

-----------------------------------------------------------------------------
(* A cycle. *)

\* What a cycle has read ends with it.
Stop ==
  /\ stage' = "idle" /\ todo' = {}
  /\ sight' = Nothing /\ quote' = Nothing /\ aim' = Nothing
  /\ receipt' = "halted" /\ hidden' = {} /\ dated' = FALSE

\* Positions, quotes, targets and the command of the signal, in a session of its own.
ReadPaper ==
  /\ stage = "idle" /\ stage' = "read" /\ sight' = stock
  /\ quote' \in [PaperSymbol -> PaperQuote] /\ aim' \in [PaperSymbol -> PaperTarget]
  /\ receipt' \in Disposition
  /\ hidden' \in SUBSET PaperSymbol /\ dated' \in BOOLEAN
  /\ UNCHANGED <<brokerVars, todo>>

AdmitPaper ==
  /\ stage = "read"
  /\ IF Allowed THEN stage' = "admitted" /\ UNCHANGED <<readVars, todo>> ELSE Stop
  /\ UNCHANGED brokerVars

Working == {s \in PaperSymbol : buying[s] > 0 \/ selling[s] > 0}

\* pending_orders_detected: of what the session is surely told.  Told of more, the cycle
\* ends here too (EndCycle).
LookOrders ==
  /\ stage = "admitted"
  /\ IF Working \subseteq hidden
     THEN stage' = "looked" /\ UNCHANGED <<readVars, todo>> ELSE Stop
  /\ UNCHANGED brokerVars

\* Mutant of Untouched: as if no fill could come between the reading and the look.
UntouchedAlways == TRUE

\* _collect_same_day_filled_symbols: without the date of the fills none is found.
Untouched == dated => fills \subseteq hidden

LookFills ==
  /\ stage = "looked"
  /\ IF Untouched THEN stage' = "selling" /\ todo' = PaperSymbol /\ UNCHANGED readVars ELSE Stop
  /\ UNCHANGED brokerVars

Overweight(s) == aim[s] < Current(s)
Underweight(s) == Current(s) < aim[s]

\* An overweight symbol; or, when there is none, the safe haven to fund a purchase.
Sold(s) ==
  \/ Overweight(s)
  \/ /\ \A t \in PaperSymbol : ~Overweight(t)
     /\ \E t \in PaperSymbol \ {s} : Underweight(t)

\* bound: what a position can become when its working orders fill.
Bounded(s) == stock[s] - selling[s] >= -MaxShares /\ stock[s] + buying[s] <= MaxShares

\* What the position read allows.
PlaceSale(s) ==
  /\ stage = "selling" /\ s \in todo /\ Sold(s)
  /\ \E n \in 1 .. sight[s] : selling' = [selling EXCEPT ![s] = @ + n]
  /\ todo' = todo \ {s}
  /\ UNCHANGED <<stock, buying, fills, stage, readVars>>
  /\ Bounded(s)'

EndSales ==
  /\ stage = "selling" /\ stage' = "buying"
  /\ UNCHANGED <<brokerVars, readVars, todo>>

PlaceBuy(s) ==
  /\ stage = "buying" /\ s \in todo /\ Underweight(s)
  /\ \E n \in 1 .. 2 * MaxShares : buying' = [buying EXCEPT ![s] = @ + n]
  /\ todo' = todo \ {s}
  /\ UNCHANGED <<stock, selling, fills, stage, readVars>>
  /\ Bounded(s)'

\* Also an error, or the end of the process.
EndCycle == stage # "idle" /\ Stop /\ UNCHANGED brokerVars

-----------------------------------------------------------------------------
(* The broker. *)

\* One share of a working order.
FillShare(s) ==
  /\ \/ /\ buying[s] > 0 /\ buying' = [buying EXCEPT ![s] = @ - 1]
        /\ stock' = [stock EXCEPT ![s] = @ + 1] /\ UNCHANGED selling
     \/ /\ selling[s] > 0 /\ selling' = [selling EXCEPT ![s] = @ - 1]
        /\ stock' = [stock EXCEPT ![s] = @ - 1] /\ UNCHANGED buying
  /\ fills' = fills \cup {s}
  /\ UNCHANGED <<stage, readVars, todo>>

\* The purchases of a symbol, or its sales.
CancelOrder(s) ==
  /\ \/ buying[s] > 0 /\ buying' = [buying EXCEPT ![s] = 0] /\ UNCHANGED selling
     \/ selling[s] > 0 /\ selling' = [selling EXCEPT ![s] = 0] /\ UNCHANGED buying
  /\ UNCHANGED <<stock, fills, stage, readVars, todo>>

\* Not in the middle of a cycle, which takes minutes.
NextDay ==
  /\ stage = "idle" /\ fills # {} /\ fills' = {}
  /\ UNCHANGED <<stock, buying, selling, stage, readVars, todo>>

PaperNext ==
  \/ ReadPaper \/ AdmitPaper \/ LookOrders \/ LookFills \/ EndSales \/ EndCycle \/ NextDay
  \/ \E s \in PaperSymbol : PlaceSale(s) \/ PlaceBuy(s) \/ FillShare(s) \/ CancelOrder(s)

PaperSpec == PaperInit /\ [][PaperNext]_paperVars

-----------------------------------------------------------------------------
(* Properties. *)

\* Under a receipt that lets exposure only shrink the cycle buys nothing, and sells only
\* what is above its target.  Where its session is told of the symbol's orders and fills,
\* and its signal is of today, the sale is of shares the account still holds, whatever was
\* filled since the cycle read the positions: no sale into a short position
\* (evaluate_ibkr_paper_execution_admission and the looks that follow it).
ReducingOrdersReduce ==
  [][\A s \in PaperSymbol : receipt # "allow" =>
       /\ buying'[s] <= buying[s]
       /\ selling'[s] > selling[s] =>
            /\ receipt = "reducing" /\ Effect(s) = "reduces"
            /\ dated /\ s \notin hidden => stock[s] - selling'[s] >= 0]_paperVars
=============================================================================
