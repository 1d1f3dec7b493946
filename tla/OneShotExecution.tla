-------------------------- MODULE OneShotExecution --------------------------
(***************************************************************************)
(* What the execution claim promises, with the lock files, the owner fence *)
(* and the containers left out: every execution key is given at most once, *)
(* to one cycle, and only that cycle places orders for it.  A key can also *)
(* be used up by nobody, by a claim whose answer was lost or by a dry run. *)
(***************************************************************************)
CONSTANTS
  Cycle,    \* the cycles that compete
  Key,      \* execution keys
  Symbol,   \* what a cycle can trade
  Nobody,   \* the holder of a key that is still free
  Burnt     \* the holder of a key used up without an executing cycle

VARIABLES
  holder,   \* who holds each key
  placed    \* the orders placed, as <<cycle, symbol>>

Init ==
  /\ holder = [k \in Key |-> Nobody]
  /\ placed = {}

Award(k, c) ==
  /\ holder[k] = Nobody
  /\ \A j \in Key : holder[j] # c
  /\ holder' = [holder EXCEPT ![k] = c]
  /\ UNCHANGED placed

Burn(k) ==
  /\ holder[k] = Nobody
  /\ holder' = [holder EXCEPT ![k] = Burnt]
  /\ UNCHANGED placed

Place(k, c, x) ==
  /\ holder[k] = c
  /\ <<c, x>> \notin placed
  /\ placed' = placed \cup {<<c, x>>}
  /\ UNCHANGED holder

Next ==
  \E k \in Key :
    \/ Burn(k)
    \/ \E c \in Cycle :
         \/ Award(k, c)
         \/ \E x \in Symbol : Place(k, c, x)

Spec == Init /\ [][Next]_<<holder, placed>>
=============================================================================
