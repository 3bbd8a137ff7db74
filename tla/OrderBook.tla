------------------------------- MODULE OrderBook -------------------------------
(***************************************************************************)
(* The limit order book (src/orderbook.cpp, include/orderbook.hpp): price  *)
(* levels on two sides, each a list of orders in arrival order, and the    *)
(* index from order ids to the orders' places.                             *)
(*                                                                         *)
(* bids_ and asks_ are functions whose domain is the set of prices that    *)
(* have a level, so that a level left behind empty is a visible state.     *)
(* A list iterator is the list node it points to.  The allocator may hand  *)
(* out the node of an erased order again, so an entry of order_map_ that   *)
(* outlives its order may come to point at another one.                    *)
(***************************************************************************)
EXTENDS Integers, Sequences

CONSTANTS
  OrderIds,     \* the values of OrderId
  MaxPrice,     \* the largest Price
  MaxQuantity,  \* the largest Quantity
  Nodes         \* the list nodes: at most this many orders rest at a time

ASSUME BookAssumption ==
  /\ MaxPrice \in Nat \ {0}
  /\ MaxQuantity \in Nat \ {0}

VARIABLES
  levels,       \* bids_ and asks_: side -> price -> list of orders
  order_map,    \* order_map_: id -> OrderLocation
  clashed       \* history: the ids added while order_map_ had an entry for them

bookVars == <<levels, order_map, clashed>>

Sides == {"BID", "ASK"}
Prices == 1..MaxPrice
Quantities == 1..MaxQuantity

Order ==
  [id : OrderIds, side : Sides, orderType : {"LIMIT"}, price : Prices, quantity : Quantities]
    \cup
  [id : OrderIds, side : Sides, orderType : {"MARKET"}, price : {0}, quantity : Quantities]

Resting == [id : OrderIds, quantity : Quantities, node : Nodes]
OrderLocation == [side : Sides, price : Prices, node : Nodes]

Opposite(s) == IF s = "BID" THEN "ASK" ELSE "BID"

(* The comparators of the two maps: bids descend, asks ascend.             *)
BetterAscending(s, p, q) == p < q
Better(s, p, q) == IF s = "BID" THEN p > q ELSE p < q

(* begin()->first of a side that is not empty.                             *)
BestPrice(s) ==
  CHOOSE p \in DOMAIN levels[s] : \A q \in DOMAIN levels[s] : ~Better(s, q, p)

-----------------------------------------------------------------------------
(* The containers.                                                         *)

Put(f, k, v) == [x \in DOMAIN f \cup {k} |-> IF x = k THEN v ELSE f[x]]
Erase(f, k) == [x \in DOMAIN f \ {k} |-> f[x]]

(* The list nodes no resting order occupies.                               *)
FreeNodes ==
  {n \in Nodes : \A s \in Sides : \A p \in DOMAIN levels[s] :
                   \A k \in DOMAIN levels[s][p] : levels[s][p][k].node # n}

(* A list written back: its level is erased with its last order.           *)
WithLevelKept(s, p, list) == [levels EXCEPT ![s] = Put(@, p, list)]
WithLevel(s, p, list) ==
  [levels EXCEPT ![s] = IF list = <<>> THEN Erase(@, p) ELSE Put(@, p, list)]

(* push_back, and erase of the node an iterator points to.                 *)
PushFront(list, r) == <<r>> \o list
PushBack(list, r) == Append(list, r)

PopFront(list, n) == Tail(list)
EraseAt(list, k) == SubSeq(list, 1, k - 1) \o SubSeq(list, k + 1, Len(list))
EraseNode(list, n) == EraseAt(list, CHOOSE k \in DOMAIN list : list[k].node = n)

-----------------------------------------------------------------------------

BookInit ==
  /\ levels = [s \in Sides |-> <<>>]
  /\ order_map = <<>>
  /\ clashed = {}

(* add_order, which the matching engine calls for limit orders only:       *)
(* operator[] creates the level if there is none.                          *)
add_order(o, quantity) ==
  \E n \in FreeNodes :
    LET list == IF o.price \in DOMAIN levels[o.side] THEN levels[o.side][o.price] ELSE <<>>
        r == [id |-> o.id, quantity |-> quantity, node |-> n]
    IN  /\ levels' = [levels EXCEPT ![o.side] = Put(@, o.price, PushBack(list, r))]
        /\ order_map' = Put(order_map, o.id, [side |-> o.side, price |-> o.price, node |-> n])
        /\ clashed' = IF o.id \in DOMAIN order_map THEN clashed \cup {o.id} ELSE clashed

(* cancel_order of an id in order_map_; of any other id it throws.         *)
cancel_order(id) ==
  /\ id \in DOMAIN order_map
  /\ LET loc == order_map[id]
     IN  levels' = WithLevel(loc.side, loc.price,
                             EraseNode(levels[loc.side][loc.price], loc.node))
  /\ order_map' = Erase(order_map, id)
  /\ UNCHANGED clashed

-----------------------------------------------------------------------------
(* The containers hold what their types say, and no resting order has      *)
(* quantity zero.                                                          *)
BookTypeOK ==
  /\ DOMAIN levels = Sides
  /\ \A s \in Sides : /\ DOMAIN levels[s] \subseteq Prices
                       /\ \A p \in DOMAIN levels[s] : levels[s][p] \in Seq(Resting)
  /\ DOMAIN order_map \subseteq OrderIds
  /\ \A id \in DOMAIN order_map : order_map[id] \in OrderLocation
  /\ clashed \subseteq OrderIds

(* "we erase the level if it is empty ... we can always gaurantee an order *)
(* exists on a given price level": neither match nor cancel_order leaves   *)
(* an empty level behind, also in the middle of a match.                   *)
NoEmptyLevel ==
  \A s \in Sides : \A p \in DOMAIN levels[s] : levels[s][p] # <<>>

(* No bid in the book meets an ask: what could trade has traded before the *)
(* rest of an order is added.                                              *)
NotCrossed ==
  \A b \in DOMAIN levels["BID"], a \in DOMAIN levels["ASK"] : b < a

(* An iterator in order_map_ never dangles: it points at an order of its   *)
(* own id in the list of its side and price, even when clients reuse ids   *)
(* and the allocator reuses nodes.                                         *)
IndexSound ==
  \A id \in DOMAIN order_map :
    LET loc == order_map[id]
    IN  /\ loc.price \in DOMAIN levels[loc.side]
        /\ \E k \in DOMAIN levels[loc.side][loc.price] :
              LET r == levels[loc.side][loc.price][k] IN r.node = loc.node /\ r.id = id

Indexed(id, s, p, n) ==
  id \in DOMAIN order_map /\ order_map[id] = [side |-> s, price |-> p, node |-> n]

(* Every resting order can be cancelled, unless its id was added again     *)
(* while the index held an entry for it.                                   *)
IndexComplete ==
  \A s \in Sides : \A p \in DOMAIN levels[s] : \A k \in DOMAIN levels[s][p] :
    levels[s][p][k].id \notin clashed =>
      Indexed(levels[s][p][k].id, s, p, levels[s][p][k].node)

(* No list node holds two orders.                                          *)
NodesDistinct ==
  \A s, t \in Sides : \A p \in DOMAIN levels[s], q \in DOMAIN levels[t] :
    \A k \in DOMAIN levels[s][p], j \in DOMAIN levels[t][q] :
      levels[s][p][k].node = levels[t][q][j].node => s = t /\ p = q /\ k = j

(* Together they are preserved by every operation on the book.             *)
BookInv ==
  BookTypeOK /\ NoEmptyLevel /\ NotCrossed /\ NodesDistinct /\ IndexSound /\ IndexComplete
=============================================================================
