---------------------------- MODULE MatchingEngine ----------------------------
(***************************************************************************)
(* MatchingEngine::match (src/matching_engine.cpp) on the order book, one  *)
(* step per iteration of its inner loop.  The two branches of match mirror *)
(* each other and are one set of actions here, parameterised by the side.  *)
(* match and cancel_order are called from the processing thread only, so   *)
(* a cancel never runs inside a match.                                     *)
(***************************************************************************)
EXTENDS OrderBook

CONSTANTS
  None,         \* no order is being matched
  ReuseIds      \* whether a new order may carry the id of a resting one

ASSUME EngineAssumption == None \notin Order /\ ReuseIds \in BOOLEAN

VARIABLES
  taker,        \* match's argument
  remaining,    \* remaining_quantity
  trades,       \* the trades pushed to match's result so far
  result,       \* what the last match or cancel_order gave its caller
  before        \* history: levels when the match in progress began

engineVars == <<taker, remaining, trades, result, before>>
vars == <<bookVars, engineVars>>

Trade == [price : Prices, maker : OrderIds, quantity : Quantities]

Matched(ts) == [op |-> "match", trades |-> ts, throws |-> FALSE]
Cancelled(throws) == [op |-> "cancel", trades |-> <<>>, throws |-> throws]

-----------------------------------------------------------------------------

Init ==
  /\ BookInit
  /\ taker = None /\ remaining = 0 /\ trades = <<>>
  /\ result = Matched(<<>>)
  /\ before = None

(* A limit order matches up to its price, a market order at any price.     *)
CrossesStrictly(o, p) ==
  o.orderType = "LIMIT" => Better(o.side, o.price, p)
Crosses(o, p) ==
  o.orderType = "LIMIT" => ~Better(o.side, p, o.price)

(* The condition of the outer loop, with its break.                        *)
CanFill ==
  LET s == Opposite(taker.side)
  IN  /\ remaining > 0
      /\ DOMAIN levels[s] # {}
      /\ Crosses(taker, BestPrice(s))

(* match is called with an order its constructor has validated.            *)
Match(o) ==
  /\ taker = None
  /\ FreeNodes # {}
  /\ ReuseIds \/ \A s \in Sides : \A p \in DOMAIN levels[s] :
                   \A k \in DOMAIN levels[s][p] : levels[s][p][k].id # o.id
  /\ taker' = o
  /\ remaining' = o.quantity
  /\ before' = levels
  /\ UNCHANGED <<bookVars, trades, result>>

(* What a fill of the front order leaves of its list and of order_map_.    *)
ListNeverPopped(list, filled) ==
  <<[Head(list) EXCEPT !.quantity = @ - filled]>> \o Tail(list)
ListAfterFill(list, filled) ==
  IF Head(list).quantity = filled
  THEN Tail(list)
  ELSE <<[Head(list) EXCEPT !.quantity = @ - filled]>> \o Tail(list)

IndexKept(front, filled) == order_map
IndexAlwaysErased(front, filled) == Erase(order_map, front.id)
IndexAfterFill(front, filled) ==
  IF front.quantity = filled THEN Erase(order_map, front.id) ELSE order_map

(* One iteration of the inner loop: the order at the front of the best     *)
(* level trades.  When it is filled it leaves the list and order_map_, and *)
(* the last one of a level takes the level with it.                        *)
FillFront ==
  LET s == Opposite(taker.side)
      p == BestPrice(s)
      list == levels[s][p]
      front == Head(list)
      filled == IF front.quantity < remaining THEN front.quantity ELSE remaining
  IN  /\ levels' = WithLevel(s, p, ListAfterFill(list, filled))
      /\ order_map' = IndexAfterFill(front, filled)
      /\ remaining' = remaining - filled
      /\ trades' = Append(trades, [price |-> p, maker |-> front.id, quantity |-> filled])
      /\ UNCHANGED <<clashed, taker, result, before>>

Fill ==
  /\ taker # None
  /\ CanFill
  /\ FillFront

(* The loop has ended: what is left of a limit order rests in the book,    *)
(* what is left of a market order is dropped.                              *)
Finish ==
  /\ taker # None
  /\ ~CanFill
  /\ IF remaining > 0 /\ taker.orderType = "LIMIT"
     THEN add_order(taker, remaining)
     ELSE UNCHANGED bookVars
  /\ result' = Matched(trades)
  /\ taker' = None /\ remaining' = 0 /\ trades' = <<>>
  /\ before' = None

Cancel(id) ==
  /\ taker = None
  /\ cancel_order(id)
  /\ result' = Cancelled(FALSE)
  /\ UNCHANGED <<taker, remaining, trades, before>>

CancelUnknown(id) ==
  /\ taker = None
  /\ id \notin DOMAIN order_map
  /\ result' = Cancelled(TRUE)
  /\ UNCHANGED <<bookVars, taker, remaining, trades, before>>

Next ==
  \/ \E o \in Order : Match(o)
  \/ Fill
  \/ Finish
  \/ \E id \in OrderIds : Cancel(id) \/ CancelUnknown(id)

Spec == Init /\ [][Next]_vars

-----------------------------------------------------------------------------
(* The book is well typed and a match never holds more than a quantity:    *)
(* the unsigned remaining_quantity does not wrap below zero.               *)
TypeOK ==
  /\ BookTypeOK
  /\ taker \in Order \cup {None}
  /\ remaining \in 0..MaxQuantity
  /\ trades \in Seq(Trade)
=============================================================================
