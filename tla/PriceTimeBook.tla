----------------------------- MODULE PriceTimeBook -----------------------------
(***************************************************************************)
(* What the book and the matching engine promise: an incoming order trades *)
(* at once, as a whole, against the orders it crosses, each of which gets  *)
(* what the orders ahead of it leave.  Ahead of an order are the orders at *)
(* a better price and the earlier ones at its own.                         *)
(***************************************************************************)
EXTENDS Integers, SequencesExt

CONSTANTS OrderIds, MaxPrice, MaxQuantity

VARIABLES
  depth,      \* side -> price -> the orders there, earliest first
  clashed,    \* the ids added while an order with the id was resting
  result      \* what the last operation gave its caller

Sides == {"BID", "ASK"}
Prices == 1..MaxPrice

Order ==
  {o \in [id : OrderIds, side : Sides, orderType : {"LIMIT", "MARKET"}, price : 0..MaxPrice,
          quantity : 1..MaxQuantity] : o.orderType = "MARKET" <=> o.price = 0}

(* p is a better price than q for whoever trades with side s.              *)
Beats(s, p, q) == IF s = "BID" THEN p > q ELSE p < q

(* The orders on side s, as pairs of price and place in the queue.         *)
Queue(s) == UNION {{p} \X DOMAIN depth[s][p] : p \in Prices}
Quantity(s, x) == depth[s][x[1]][x[2]].quantity
IsAhead(s, x, y) == Beats(s, x[1], y[1]) \/ (x[1] = y[1] /\ x[2] < y[2])

Against(o) == IF o.side = "BID" THEN "ASK" ELSE "BID"

Tradable(o) ==
  {x \in Queue(Against(o)) : o.orderType = "MARKET" \/ ~Beats(o.side, x[1], o.price)}

(* The quantity of o that order x takes.                                   *)
Taken(o, x) ==
  LET s == Against(o)
      ahead == MapThenSumSet(LAMBDA y : Quantity(s, y), {y \in Queue(s) : IsAhead(s, y, x)})
  IN  IF x \in Tradable(o) THEN Max({0, Min({Quantity(s, x), o.quantity - ahead})}) ELSE 0

Trades(o) ==
  LET s == Against(o)
      taken == SetToSortSeq({x \in Tradable(o) : Taken(o, x) > 0},
                            LAMBDA x, y : IsAhead(s, x, y))
  IN  [i \in DOMAIN taken |-> [price |-> taken[i][1],
                               maker |-> depth[s][taken[i][1]][taken[i][2]].id,
                               quantity |-> Taken(o, taken[i])]]

Unfilled(o) ==
  o.quantity - MapThenSumSet(LAMBDA x : Taken(o, x), Tradable(o))

(* The book once o has traded: what is filled leaves it.                   *)
Traded(o) ==
  [s \in Sides |-> [p \in Prices |->
     IF s = o.side THEN depth[s][p]
     ELSE SelectSeq([k \in DOMAIN depth[s][p] |->
                       [depth[s][p][k] EXCEPT !.quantity = @ - Taken(o, <<p, k>>)]],
                    LAMBDA r : r.quantity > 0)]]

(* The ids of the orders of a book.                                        *)
Ids(book) ==
  {r.id : r \in UNION {Range(book[s][p]) : s \in Sides, p \in Prices}}

Rests(o) == o.orderType = "LIMIT" /\ Unfilled(o) > 0

-----------------------------------------------------------------------------

Init ==
  /\ depth = [s \in Sides |-> [p \in Prices |-> <<>>]]
  /\ clashed = {}
  /\ result = [op |-> "match", trades |-> <<>>, throws |-> FALSE]

Match(o) ==
  /\ result' = [op |-> "match", trades |-> Trades(o), throws |-> FALSE]
  /\ IF Rests(o)
     THEN /\ depth' = [Traded(o) EXCEPT ![o.side][o.price] =
                         Append(@, [id |-> o.id, quantity |-> Unfilled(o)])]
          /\ clashed' = clashed \cup ({o.id} \cap Ids(Traded(o)))
     ELSE depth' = Traded(o) /\ clashed' = clashed

Cancel(id) ==
  /\ \E s \in Sides : \E x \in Queue(s) :
       /\ depth[s][x[1]][x[2]].id = id
       /\ depth' = [depth EXCEPT ![s][x[1]] = RemoveAt(@, x[2])]
  /\ result' = [op |-> "cancel", trades |-> <<>>, throws |-> FALSE]
  /\ UNCHANGED clashed

(* A cancel may miss only an order whose id was used for two at a time.    *)
CancelUnknown(id) ==
  /\ id \notin Ids(depth) \/ id \in clashed
  /\ result' = [op |-> "cancel", trades |-> <<>>, throws |-> TRUE]
  /\ UNCHANGED <<depth, clashed>>

Next ==
  \/ \E id \in OrderIds : Cancel(id) \/ CancelUnknown(id)
  \/ \E o \in Order : Match(o)

Spec == Init /\ [][Next]_<<depth, clashed, result>>
=============================================================================
