----------------------------- MODULE RoutingProofs -----------------------------
(***************************************************************************)
(* While no two live orders share an id, the processing thread reports     *)
(* every fill to the client that sent the order it fills.                  *)
(***************************************************************************)
EXTENDS OrderProcessorProofs

(* An order with this id rests in this list node.                          *)
In(list, i, n) == \E k \in 1..Len(list) : list[k].id = i /\ list[k].node = n
Rests(l, i, n) == \E s \in Sides : \E p \in DOMAIN l[s] : In(l[s][p], i, n)

(* What rests after a level was written back.                              *)
LEMMA RestsWritten ==
  ASSUME DOMAIN levels = Sides, NEW s \in Sides, NEW p, NEW list,
         levels' = WithLevel(s, p, list), NEW i, NEW n, Rests(levels', i, n)
  PROVE  \/ In(list, i, n)
         \/ \E t \in Sides : \E q \in DOMAIN levels[t] :
              ~(t = s /\ q = p) /\ In(levels[t][q], i, n)
  <1>1. PICK t \in Sides : \E q \in DOMAIN levels'[t] : In(levels'[t][q], i, n)
    BY DEF Rests
  <1>2. PICK q \in DOMAIN levels'[t] : In(levels'[t][q], i, n)
    BY <1>1
  <1>3. CASE t = s /\ q = p
    <2>1. levels'[s] = IF list = <<>> THEN Erase(levels[s], p) ELSE Put(levels[s], p, list)
      BY DEF WithLevel
    <2>2. levels'[t][q] = list
      BY <1>3, <2>1 DEF Erase, Put
    <2> QED
      BY <1>2, <2>2
  <1>4. CASE ~(t = s /\ q = p)
    <2>1. q \in DOMAIN levels[t] /\ levels'[t][q] = levels[t][q]
      BY <1>4 DEF WithLevel, Erase, Put
    <2> QED
      BY <1>2, <1>4, <2>1
  <1> QED
    BY <1>3, <1>4

LEMMA OccupiedRests ==
  ASSUME NEW l, \A s \in Sides : \A p \in DOMAIN l[s] : l[s][p] \in Seq(Resting), NEW n
  PROVE  n \in Occupied(l) <=> \E i : Rests(l, i, n)
  <1>1. n \in Occupied(l) <=>
          \E s \in Sides : \E p \in DOMAIN l[s] : \E k \in DOMAIN l[s][p] : l[s][p][k].node = n
    BY DEF Occupied
  <1>2. \A s \in Sides : \A p \in DOMAIN l[s] : DOMAIN l[s][p] = 1..Len(l[s][p])
    OBVIOUS
  <1> QED
    BY <1>1, <1>2 DEF Rests, In

-----------------------------------------------------------------------------
(* A fill takes an order out of the book or leaves its id and node; the    *)
(* order filled is one that rests.                                         *)
LEMMA FillRests ==
  ASSUME EngineInv, Fill
  PROVE  LET s == Opposite(taker.side)
             front == Head(levels[s][BestPrice(s)])
         IN  /\ \A i, n : Rests(levels', i, n) => Rests(levels, i, n)
             /\ Rests(levels, front.id, front.node) /\ front.id \in OrderIds
             /\ \E q : trades' = Append(trades, [price |-> BestPrice(s), maker |-> front.id,
                                                 quantity |-> q])
             /\ taker' = taker /\ trades' \in Seq(Trade)
  <1> DEFINE s == Opposite(taker.side)
             p == BestPrice(s)
             list == levels[s][p]
             front == Head(list)
             filled == IF front.quantity < remaining THEN front.quantity ELSE remaining
             new == ListAfterFill(list, filled)
  <1>1. taker \in Order /\ s \in Sides
    BY DEF EngineInv, TypeOK, Fill, Opposite, Sides
  <1>2. DOMAIN levels[s] # {} /\ DOMAIN levels[s] \subseteq Prices
    BY <1>1 DEF Fill, CanFill, EngineInv, BookInv, BookTypeOK
  <1>3. p \in DOMAIN levels[s]
    BY <1>1, <1>2, BestPriceIsBest
  <1>4. list \in Seq(Resting) /\ list # <<>> /\ DOMAIN levels = Sides
    BY <1>1, <1>3 DEF EngineInv, BookInv, BookTypeOK, NoEmptyLevel
  <1>5. /\ levels' = WithLevel(s, p, new) /\ taker' = taker
        /\ trades' = Append(trades, [price |-> p, maker |-> front.id, quantity |-> filled])
    BY ZenonT(30) DEF Fill, FillFront
  <1>6. trades' \in Seq(Trade)
    BY FillKeepsEngine DEF EngineInv, TypeOK
  <1> HIDE DEF s, p, filled
  <1>7. front \in Resting /\ front = list[1] /\ 1 \in 1..Len(list)
    BY <1>4
  <1>8. Rests(levels, front.id, front.node) /\ front.id \in OrderIds
    BY <1>1, <1>3, <1>7 DEF Rests, In, Resting
  <1>9. ASSUME NEW i, NEW n, In(new, i, n) PROVE In(list, i, n)
    <2> HIDE DEF list
    <2>1. PICK k \in 1..Len(new) : new[k].id = i /\ new[k].node = n
      BY <1>9 DEF In
    <2>2. CASE new = Tail(list)
      <3>1. k + 1 \in 1..Len(list) /\ new[k] = list[k + 1]
        BY <1>4, <2>2
      <3> QED
        BY <2>1, <3>1 DEF In
    <2>3. CASE new = <<[Head(list) EXCEPT !.quantity = @ - filled]>> \o Tail(list)
      <3> DEFINE e == [Head(list) EXCEPT !.quantity = @ - filled]
      <3>1. e.id = list[1].id /\ e.node = list[1].node
        BY <1>7 DEF Resting
      <3> HIDE DEF e
      <3>2. new = <<e>> \o Tail(list)
        BY <2>3 DEF e
      <3> HIDE DEF new
      <3>3. Len(new) = Len(list) /\ new[k] = IF k = 1 THEN e ELSE list[k]
        BY <1>4, <2>1, <3>2
      <3> QED
        BY <2>1, <3>1, <3>3 DEF In
    <2> QED
      BY <2>2, <2>3 DEF ListAfterFill
  <1>10. ASSUME NEW i, NEW n, Rests(levels', i, n) PROVE Rests(levels, i, n)
    <2> HIDE DEF new
    <2>1. CASE In(new, i, n)
      BY <1>1, <1>3, <1>9, <2>1 DEF Rests
    <2>2. CASE ~In(new, i, n)
      BY <1>1, <1>4, <1>5, <1>10, <2>2, RestsWritten DEF Rests
    <2> QED
      BY <2>1, <2>2
  <1> QED
    BY <1>5, <1>6, <1>8, <1>10, Zenon DEF s, p

(* The end of a match adds at most the taker, in a node that was free.     *)
LEMMA FinishRests ==
  ASSUME EngineInv, Finish
  PROVE  \E x : \A i, n : Rests(levels', i, n) =>
           Rests(levels, i, n) \/ (i = taker.id /\ n = x /\ \A j : ~Rests(levels, j, x))
  <1>1. CASE ~(remaining > 0 /\ taker.orderType = "LIMIT")
    <2>1. levels' = levels
      BY <1>1 DEF Finish, bookVars
    <2> QED
      BY <2>1 DEF Rests
  <1>2. CASE remaining > 0 /\ taker.orderType = "LIMIT"
    <2> DEFINE s == taker.side
               p == taker.price
               list == IF p \in DOMAIN levels[s] THEN levels[s][p] ELSE <<>>
    <2>1. taker \in Order /\ s \in Sides /\ DOMAIN levels = Sides
      BY DEF EngineInv, TypeOK, Finish, Order, BookInv, BookTypeOK
    <2>2. PICK x \in FreeNodes :
            levels' = [levels EXCEPT ![s] =
                        Put(@, p, Append(list, [id |-> taker.id, quantity |-> remaining, node |-> x]))]
      BY <1>2 DEF Finish, add_order, PushBack
    <2> DEFINE r == [id |-> taker.id, quantity |-> remaining, node |-> x]
    <2>3. list \in Seq(Resting)
      BY <2>1 DEF EngineInv, BookInv, BookTypeOK
    <2>4. r \in Resting
      BY <1>2, <2>1, BookAssumption DEF Resting, FreeNodes, EngineInv, TypeOK, Order, Quantities
    <2>5. ASSUME NEW j PROVE ~Rests(levels, j, x)
      <3> SUFFICES ASSUME NEW t \in Sides, NEW q \in DOMAIN levels[t],
                          NEW k \in 1..Len(levels[t][q]), levels[t][q][k].node = x
                   PROVE  FALSE
        BY DEF Rests, In
      <3>1. levels[t][q] \in Seq(Resting)
        BY DEF EngineInv, BookInv, BookTypeOK
      <3>2. k \in DOMAIN levels[t][q]
        BY <3>1
      <3> QED
        BY <3>2 DEF FreeNodes
    <2>6. ASSUME NEW i, NEW n, Rests(levels', i, n)
          PROVE  Rests(levels, i, n) \/ (i = taker.id /\ n = x)
      <3>1. PICK t \in Sides : \E q \in DOMAIN levels'[t] : In(levels'[t][q], i, n)
        BY <2>6 DEF Rests
      <3>2. PICK q \in DOMAIN levels'[t] : In(levels'[t][q], i, n)
        BY <3>1
      <3>3. CASE t = s /\ q = p
        <4>1. levels'[t][q] = Append(list, r)
          BY <2>1, <2>2, <3>3 DEF Put
        <4> HIDE DEF r, list
        <4>2. PICK k \in 1..Len(Append(list, r)) :
                Append(list, r)[k].id = i /\ Append(list, r)[k].node = n
          BY <3>2, <4>1 DEF In
        <4>3. CASE k = Len(list) + 1
          <5>1. Append(list, r)[k] = r
            BY <2>3, <2>4, <4>3
          <5> QED
            BY <4>2, <5>1 DEF r
        <4>4. CASE k # Len(list) + 1
          <5>1. k \in 1..Len(list) /\ Append(list, r)[k] = list[k]
            BY <2>3, <2>4, <4>2, <4>4
          <5>2. In(list, i, n)
            BY <4>2, <5>1 DEF In
          <5>3. p \in DOMAIN levels[s] /\ list = levels[s][p]
            BY <5>1 DEF list
          <5> QED
            BY <2>1, <5>2, <5>3 DEF Rests
        <4> QED
          BY <4>3, <4>4
      <3>4. CASE ~(t = s /\ q = p)
        <4>1. q \in DOMAIN levels[t] /\ levels'[t][q] = levels[t][q]
          BY <2>1, <2>2, <3>4 DEF Put
        <4> QED
          BY <3>2, <4>1 DEF Rests
      <3> QED
        BY <3>3, <3>4
    <2> QED
      BY <2>5, <2>6
  <1> QED
    BY <1>1, <1>2

(* While ids are unique, a cancel takes the one order with the id away.    *)
LEMMA CancelRests ==
  ASSUME EngineInv, NEW id \in OrderIds, cancel_order(id),
         \A i, m, n : Rests(levels, i, m) /\ Rests(levels, i, n) => m = n
  PROVE  \A i, n : Rests(levels', i, n) => Rests(levels, i, n) /\ i # id
  <1> DEFINE loc == order_map[id]
             s == loc.side
             p == loc.price
             list == levels[s][p]
             j == CHOOSE k \in DOMAIN list : list[k].node = loc.node
             new == EraseAt(list, j)
  <1>1. s \in Sides /\ p \in DOMAIN levels[s] /\ DOMAIN levels = Sides
    BY DEF cancel_order, EngineInv, BookInv, BookTypeOK, OrderLocation, IndexSound
  <1>2. list \in Seq(Resting)
    BY <1>1 DEF EngineInv, BookInv, BookTypeOK
  <1>3. \E k \in DOMAIN list : list[k].node = loc.node /\ list[k].id = id
    BY DEF cancel_order, EngineInv, BookInv, IndexSound
  <1>4. j \in DOMAIN list /\ list[j].node = loc.node
    BY <1>3, ZenonT(30)
  <1>5. levels' = WithLevel(s, p, new)
    BY DEF cancel_order, EraseNode
  <1> HIDE DEF j
  <1>6. j \in 1..Len(list)
    BY <1>2, <1>4
  <1>7. /\ Len(new) = Len(list) - 1
        /\ \A k \in 1..Len(list) - 1 : new[k] = IF k < j THEN list[k] ELSE list[k + 1]
    BY <1>2, <1>6, EraseAtFacts, ZenonT(30)
  <1> HIDE DEF new
  <1>8. ASSUME NEW t \in Sides, NEW q \in DOMAIN levels[t], NEW k \in 1..Len(levels[t][q]),
               ~(t = s /\ q = p /\ k = j)
        PROVE  /\ Rests(levels, levels[t][q][k].id, levels[t][q][k].node)
               /\ levels[t][q][k].id # id
    <2>1. levels[t][q] \in Seq(Resting)
      BY DEF EngineInv, BookInv, BookTypeOK
    <2>2. k \in DOMAIN levels[t][q]
      BY <2>1
    <2>3. levels[t][q][k].node # list[j].node
      BY <1>1, <1>4, <1>8, <2>2 DEF EngineInv, BookInv, NodesDistinct
    <2>4. Rests(levels, levels[t][q][k].id, levels[t][q][k].node)
      BY DEF Rests, In
    <2>5. Rests(levels, id, list[j].node)
      <3>1. PICK h \in DOMAIN list : list[h].node = loc.node /\ list[h].id = id
        BY <1>3
      <3>2. h \in 1..Len(list) /\ list[h].node = list[j].node
        BY <1>2, <1>4, <3>1
      <3>3. In(list, id, list[j].node)
        BY <3>1, <3>2 DEF In
      <3> QED
        BY <1>1, <3>3 DEF Rests
    <2> QED
      BY <2>3, <2>4, <2>5
  <1>9. ASSUME NEW i, NEW n, Rests(levels', i, n) PROVE Rests(levels, i, n) /\ i # id
    <2>1. CASE In(new, i, n)
      <3>1. PICK k \in 1..Len(new) : new[k].id = i /\ new[k].node = n
        BY <2>1 DEF In
      <3>2. PICK h \in 1..Len(list) : h # j /\ list[h] = new[k]
        <4>1. CASE k < j
          BY <1>2, <1>6, <1>7, <4>1
        <4>2. CASE ~(k < j)
          <5>1. k + 1 \in 1..Len(list) /\ k + 1 # j /\ list[k + 1] = new[k]
            BY <1>2, <1>6, <1>7, <4>2
          <5> QED
            BY <5>1
        <4> QED
          BY <4>1, <4>2
      <3> QED
        BY <1>1, <1>8, <3>1, <3>2
    <2>2. CASE ~In(new, i, n)
      <3>1. PICK t \in Sides : \E q \in DOMAIN levels[t] :
                ~(t = s /\ q = p) /\ In(levels[t][q], i, n)
        BY <1>1, <1>5, <1>9, <2>2, RestsWritten
      <3>2. PICK q \in DOMAIN levels[t] : ~(t = s /\ q = p) /\ In(levels[t][q], i, n)
        BY <3>1
      <3> QED
        BY <1>8, <3>2 DEF In
    <2> QED
      BY <2>1, <2>2
  <1> QED
    BY <1>9

-----------------------------------------------------------------------------
(* Ids are unique among the resting orders and the one in match; what      *)
(* rests is routed to its owner, and so are the trades not yet reported.   *)
IdsUnique ==
  /\ \A i, m, n : Rests(levels, i, m) /\ Rests(levels, i, n) => m = n
  /\ taker # None => \A n : ~Rests(levels, taker.id, n)
OwnersInv ==
  /\ DOMAIN owner = Occupied(levels)
  /\ \A n \in DOMAIN owner : owner[n] \in Fds
  /\ \A i, n : Rests(levels, i, n) => i \in DOMAIN routes /\ routes[i] = owner[n]
Routed(ts) ==
  /\ Len(makers) = Len(ts)
  /\ \A k \in 1..Len(ts) : ts[k].maker \in DOMAIN routes /\ routes[ts[k].maker] = makers[k]
MakersInv ==
  /\ makers \in Seq(Fds)
  /\ taker = None => trades = <<>>
  /\ proc \notin {"match", "report"} => makers = <<>>
  /\ proc = "match" => Routed(trades) /\ \A k \in 1..Len(trades) : trades[k].maker # taker.id
  /\ proc = "report" => Routed(result.trades)
RoutingInv == IdsUnique /\ OwnersInv /\ MakersInv

LEMMA OccupiedNow ==
  ASSUME EngineInv, NEW n
  PROVE  n \in Occupied(levels) <=> \E i : Rests(levels, i, n)
  BY OccupiedRests DEF EngineInv, BookInv, BookTypeOK

LEMMA OccupiedNext ==
  ASSUME EngineInv', NEW n
  PROVE  n \in Occupied(levels') <=> \E i : Rests(levels', i, n)
  <1>1. \A s \in Sides : \A p \in DOMAIN levels'[s] : levels'[s][p] \in Seq(Resting)
    BY DEF EngineInv, BookInv, BookTypeOK
  <1> QED
    BY <1>1, OccupiedRests

(* The owners when nothing new rests, and the routes of what rests are     *)
(* kept.                                                                   *)
LEMMA OwnersShrink ==
  ASSUME EngineInv, EngineInv', OwnersInv, TrackOwners,
         \A i, n : Rests(levels', i, n) =>
           Rests(levels, i, n) /\ i \in DOMAIN routes' /\ routes'[i] = routes[i]
  PROVE  OwnersInv'
  <1>1. \A n \in Occupied(levels') : n \in DOMAIN owner
    BY OccupiedNow, OccupiedNext DEF OwnersInv
  <1>2. DOMAIN owner' = Occupied(levels') /\ \A n \in Occupied(levels') : owner'[n] = owner[n]
    BY <1>1 DEF TrackOwners
  <1>3. ASSUME NEW i, NEW n, Rests(levels', i, n)
        PROVE  i \in DOMAIN routes' /\ routes'[i] = owner'[n]
    <2>1. n \in Occupied(levels')
      BY <1>3, OccupiedNext
    <2> QED
      BY <1>2, <1>3, <2>1 DEF OwnersInv
  <1> QED
    BY <1>1, <1>2, <1>3 DEF OwnersInv

LEMMA InitRouting == ProcessorInit => RoutingInv
  <1> SUFFICES ASSUME ProcessorInit PROVE RoutingInv
    OBVIOUS
  <1>1. ASSUME NEW i, NEW n PROVE ~Rests(levels, i, n)
    BY DEF ProcessorInit, Init, BookInit, Rests
  <1>2. IdsUnique
    BY <1>1 DEF IdsUnique
  <1>3. OwnersInv
    <2>1. EngineInv
      BY InitEngine DEF ProcessorInit
    <2>2. Occupied(levels) = {} /\ DOMAIN owner = {}
      BY <1>1, <2>1, OccupiedNow DEF ProcessorInit
    <2> QED
      BY <1>1, <2>2 DEF OwnersInv
  <1>4. MakersInv
    BY DEF ProcessorInit, Init, MakersInv
  <1> QED
    BY <1>2, <1>3, <1>4 DEF RoutingInv

(* A fill: the order filled rests, so it is routed to its owner, and its   *)
(* id is not the taker's.                                                  *)
LEMMA FillRouted ==
  ASSUME ProcessorInv, EngineInv', RoutingInv, MatchFill
  PROVE  RoutingInv'
  <1> DEFINE s == Opposite(taker.side)
             front == Head(levels[s][BestPrice(s)])
  <1>1. /\ \A i, n : Rests(levels', i, n) => Rests(levels, i, n)
        /\ Rests(levels, front.id, front.node)
        /\ taker' = taker /\ trades' \in Seq(Trade)
    BY FillRests DEF MatchFill, ProcessorInv
  <1>2. PICK q : trades' = Append(trades, [price |-> BestPrice(s), maker |-> front.id, quantity |-> q])
    BY FillRests DEF MatchFill, ProcessorInv
  <1>3. /\ makers' = Append(makers, owner[front.node])
        /\ proc = "match" /\ proc' = "match" /\ routes' = routes /\ TrackOwners
    BY DEF MatchFill
  <1>4. taker # None /\ trades \in Seq(Trade)
    BY DEF MatchFill, Fill, ProcessorInv, EngineInv, TypeOK
  <1> HIDE DEF s, front
  <1>5. IdsUnique'
    BY <1>1 DEF RoutingInv, IdsUnique
  <1>6. OwnersInv'
    BY <1>1, <1>3, OwnersShrink DEF RoutingInv, OwnersInv, ProcessorInv
  <1>7. MakersInv'
    <2>1. front.node \in DOMAIN owner /\ owner[front.node] \in Fds
      BY <1>1, OccupiedNow DEF RoutingInv, OwnersInv, ProcessorInv
    <2>2. /\ front.id \in DOMAIN routes /\ routes[front.id] = owner[front.node]
          /\ front.id # taker.id
      BY <1>1, <1>4 DEF RoutingInv, OwnersInv, IdsUnique
    <2>3. makers \in Seq(Fds) /\ Routed(trades) /\ \A k \in 1..Len(trades) : trades[k].maker # taker.id
      BY <1>3 DEF RoutingInv, MakersInv
    <2>4. makers' \in Seq(Fds) /\ Len(makers') = Len(trades') /\ Len(trades') = Len(trades) + 1
      BY <1>2, <1>3, <1>4, <2>1, <2>3 DEF Routed
    <2>5. ASSUME NEW k \in 1..Len(trades')
          PROVE  /\ trades'[k].maker \in DOMAIN routes /\ routes[trades'[k].maker] = makers'[k]
                 /\ trades'[k].maker # taker.id
      <3>1. CASE k = Len(trades) + 1
        <4>1. trades'[k].maker = front.id /\ makers'[k] = owner[front.node]
          BY <1>2, <1>3, <1>4, <2>1, <2>3, <3>1 DEF Routed
        <4> QED
          BY <2>2, <4>1
      <3>2. CASE k # Len(trades) + 1
        <4>1. k \in 1..Len(trades) /\ trades'[k] = trades[k] /\ makers'[k] = makers[k]
          BY <1>2, <1>3, <1>4, <2>1, <2>3, <2>4, <3>2 DEF Routed
        <4> QED
          BY <2>3, <4>1 DEF Routed
      <3> QED
        BY <3>1, <3>2
    <2> QED
      BY <1>1, <1>3, <1>4, <2>4, <2>5 DEF MakersInv, Routed
  <1> QED
    BY <1>5, <1>6, <1>7 DEF RoutingInv

(* The end of a match: the taker's entry is its own, whatever entry an     *)
(* order filled earlier left under the id, and touches no other order's.   *)
LEMMA FinishRouted ==
  ASSUME ProcessorInv, EngineInv', RoutingInv, MatchFinish
  PROVE  RoutingInv'
  <1> DEFINE id == taker.id
  <1>1. PICK x : \A i, n : Rests(levels', i, n) =>
                   Rests(levels, i, n) \/ (i = id /\ n = x /\ \A j : ~Rests(levels, j, x))
    BY FinishRests DEF MatchFinish, ProcessorInv
  <1>2. /\ taker # None /\ taker' = None /\ result'.trades = trades /\ trades' = <<>>
        /\ proc = "match" /\ proc' = "report" /\ makers' = makers /\ TrackOwners
        /\ trades \in Seq(Trade)
    BY DEF MatchFinish, Finish, Matched, ProcessorInv, EngineInv, TypeOK
  <1>3. routes' = Put(routes, id, i_message.fd) /\ i_message.fd \in Fds
    BY <1>2, Payloads DEF MatchFinish, Register, ProcessorInv, RequestInv
  <1>4. id \in DOMAIN routes' /\ routes'[id] = i_message.fd
        /\ \A i \in DOMAIN routes : i # id => i \in DOMAIN routes' /\ routes'[i] = routes[i]
    BY <1>3 DEF Put
  <1>5. \A n : ~Rests(levels, id, n)
    BY <1>2 DEF RoutingInv, IdsUnique
  <1> HIDE DEF id
  <1>6. IdsUnique'
    BY <1>1, <1>2, <1>5 DEF RoutingInv, IdsUnique
  <1>7. OwnersInv'
    <2>1. DOMAIN owner' = Occupied(levels')
          /\ \A n \in Occupied(levels') :
               owner'[n] = IF n \in DOMAIN owner THEN owner[n] ELSE i_message.fd
      BY <1>2 DEF TrackOwners
    <2>2. \A n \in DOMAIN owner' : owner'[n] \in Fds
      BY <1>3, <2>1 DEF RoutingInv, OwnersInv
    <2>3. ASSUME NEW i, NEW n, Rests(levels', i, n)
          PROVE  i \in DOMAIN routes' /\ routes'[i] = owner'[n]
      <3>1. n \in Occupied(levels')
        BY <2>3, OccupiedNext
      <3>2. CASE Rests(levels, i, n)
        <4>1. n \in DOMAIN owner /\ i \in DOMAIN routes /\ routes[i] = owner[n] /\ i # id
          BY <1>5, <3>2, OccupiedNow DEF RoutingInv, OwnersInv, ProcessorInv
        <4> QED
          BY <1>4, <2>1, <3>1, <4>1
      <3>3. CASE ~Rests(levels, i, n)
        <4>1. i = id /\ n \notin DOMAIN owner
          BY <1>1, <2>3, <3>3, OccupiedNow DEF RoutingInv, OwnersInv, ProcessorInv
        <4> QED
          BY <1>4, <2>1, <3>1, <4>1
      <3> QED
        BY <3>2, <3>3
    <2> QED
      BY <2>1, <2>2, <2>3 DEF OwnersInv
  <1>8. MakersInv'
    <2>1. makers \in Seq(Fds) /\ Routed(trades) /\ \A k \in 1..Len(trades) : trades[k].maker # id
      BY <1>2 DEF RoutingInv, MakersInv, id
    <2> QED
      BY <1>2, <1>4, <2>1 DEF MakersInv, Routed
  <1> QED
    BY <1>6, <1>7, <1>8 DEF RoutingInv

(* A cancel erases the entry of the order it takes away.                   *)
LEMMA CancelRouted ==
  ASSUME ProcessorInv, EngineInv', RoutingInv, TakeCancel
  PROVE  RoutingInv'
  <1> DEFINE id == Head(inbound).payload
  <1>1. id \in OrderIds
    BY TakenRequest, Payloads DEF TakeCancel, ProcessorInv
  <1>2. /\ cancel_order(id) /\ routes' = Erase(routes, id) /\ TrackOwners
        /\ proc = "pop" /\ proc' = "reply" /\ makers' = makers
        /\ taker = None /\ taker' = None /\ trades' = trades
    BY DEF TakeCancel, Take, Cancel
  <1> HIDE DEF id
  <1>3. \A i, n : Rests(levels', i, n) => Rests(levels, i, n) /\ i # id
    BY <1>1, <1>2, CancelRests DEF ProcessorInv, RoutingInv, IdsUnique
  <1>4. IdsUnique'
    BY <1>2, <1>3 DEF RoutingInv, IdsUnique
  <1>5. \A i, n : Rests(levels', i, n) =>
          Rests(levels, i, n) /\ i \in DOMAIN routes' /\ routes'[i] = routes[i]
    BY <1>2, <1>3 DEF RoutingInv, OwnersInv, Erase
  <1>6. OwnersInv'
    BY <1>2, <1>5, OwnersShrink DEF RoutingInv, ProcessorInv
  <1>7. MakersInv'
    BY <1>2 DEF RoutingInv, MakersInv
  <1> QED
    BY <1>4, <1>6, <1>7 DEF RoutingInv

(* A new order has an id that no resting order has.                        *)
LEMMA OrderRouted ==
  ASSUME ~ReuseIds, ProcessorInv, RoutingInv, TakeOrder
  PROVE  RoutingInv'
  <1> DEFINE o == Head(inbound).payload
  <1>1. /\ taker = None /\ taker' = o /\ UNCHANGED <<levels, trades, routes, owner, makers>>
        /\ proc = "pop" /\ proc' = "match"
        /\ \A s \in Sides : \A p \in DOMAIN levels[s] : \A k \in DOMAIN levels[s][p] :
             levels[s][p][k].id # o.id
    BY DEF TakeOrder, Take, Match, bookVars, historyVars
  <1> HIDE DEF o
  <1>2. ASSUME NEW n, Rests(levels, o.id, n) PROVE FALSE
    <2>1. \A s \in Sides : \A p \in DOMAIN levels[s] : DOMAIN levels[s][p] = 1..Len(levels[s][p])
      BY DEF ProcessorInv, EngineInv, BookInv, BookTypeOK
    <2> QED
      BY <1>1, <1>2, <2>1 DEF Rests, In
  <1>3. IdsUnique'
    BY <1>1, <1>2 DEF RoutingInv, IdsUnique
  <1>4. OwnersInv'
    BY <1>1 DEF RoutingInv, OwnersInv
  <1>5. MakersInv'
    BY <1>1 DEF RoutingInv, MakersInv, Routed
  <1> QED
    BY <1>3, <1>4, <1>5 DEF RoutingInv

(* The lookup of a counterparty finds it, and so changes no entry.         *)
LEMMA ReportRouted ==
  ASSUME ProcessorInv, RoutingInv, Report
  PROVE  RoutingInv'
  <1> DEFINE trade == result.trades[reported + 1]
  <1>1. /\ proc = "report" /\ proc' = "report"
        /\ UNCHANGED <<levels, taker, trades, result, owner, makers>>
        /\ routes' = Put(routes, trade.maker, Counterparty(trade))
    BY DEF Report, vars, bookVars, engineVars, historyVars
  <1>2. reported + 1 \in 1..Len(result.trades)
    BY DEF Report, ProcessorInv, ReplyInv
  <1>3. trade.maker \in DOMAIN routes
    BY <1>1, <1>2 DEF RoutingInv, MakersInv, Routed
  <1>4. DOMAIN routes' = DOMAIN routes /\ \A i \in DOMAIN routes : routes'[i] = routes[i]
    BY <1>1, <1>3 DEF Put, Counterparty
  <1>5. IdsUnique'
    BY <1>1 DEF RoutingInv, IdsUnique
  <1>6. OwnersInv'
    BY <1>1, <1>4 DEF RoutingInv, OwnersInv
  <1>7. MakersInv'
    BY <1>1, <1>4 DEF RoutingInv, MakersInv, Routed
  <1> QED
    BY <1>5, <1>6, <1>7 DEF RoutingInv

(* The steps that touch neither the book nor the routing.                  *)
LEMMA RestRouted ==
  ASSUME ProcessorInv, RoutingInv,
         \/ TakeInvalid \/ TakeCancelUnknown \/ TakeUnknown \/ Acknowledge \/ PushReply
         \/ Deliver \/ (\E m \in Requests : Submit(m)) \/ UNCHANGED allVars
  PROVE  RoutingInv'
  <1>1. UNCHANGED <<levels, taker, trades, routes, owner>>
    BY DEF TakeInvalid, TakeCancelUnknown, CancelUnknown, TakeUnknown, Acknowledge, PushReply,
           Deliver, Submit, allVars, processorVars, vars, bookVars, engineVars, historyVars
  <1>2. IdsUnique'
    BY <1>1 DEF RoutingInv, IdsUnique
  <1>3. OwnersInv'
    BY <1>1 DEF RoutingInv, OwnersInv
  <1>4. MakersInv'
    <2>1. CASE UNCHANGED <<proc, makers, result>>
      BY <1>1, <2>1 DEF RoutingInv, MakersInv, Routed
    <2>2. CASE ~UNCHANGED <<proc, makers, result>>
      <3>1. proc' \notin {"match", "report"} /\ makers' = <<>>
        BY <2>2 DEF TakeInvalid, TakeCancelUnknown, TakeUnknown, Take, Acknowledge, PushReply,
                    Deliver, Submit, allVars, processorVars, vars, engineVars, historyVars,
                    RoutingInv, MakersInv
      <3> QED
        BY <1>1, <3>1 DEF RoutingInv, MakersInv
    <2> QED
      BY <2>1, <2>2
  <1> QED
    BY <1>2, <1>3, <1>4 DEF RoutingInv

LEMMA StepRouting ==
  ASSUME ~ReuseIds, ProcessorInv, ProcessorInv', RoutingInv, [ProcessorNext]_allVars
  PROVE  RoutingInv'
  <1>1. EngineInv'
    BY DEF ProcessorInv
  <1> QED
    BY <1>1, OrderRouted, CancelRouted, FillRouted, FinishRouted, ReportRouted, RestRouted
    DEF ProcessorNext, process

-----------------------------------------------------------------------------
(* While no order is sent under the id of a live one, every resting order  *)
(* has the entry of its own client in order_to_client_fd_, also after the  *)
(* order that had the id before it was filled and left its entry behind.   *)
THEOREM OrdersRouted ==
  ASSUME ~ReuseIds
  PROVE  ProcessorSpec => []RestingRouted
  <1>1. ProcessorInv /\ ProcessorInv' /\ RoutingInv /\ [ProcessorNext]_allVars => RoutingInv'
    BY StepRouting
  <1>2. ProcessorInv /\ RoutingInv => RestingRouted
    <2> SUFFICES ASSUME ProcessorInv, RoutingInv, NEW s \in Sides, NEW p \in DOMAIN levels[s],
                        NEW k \in DOMAIN levels[s][p]
                 PROVE  LET r == levels[s][p][k]
                        IN  r.id \in DOMAIN routes /\ routes[r.id] = owner[r.node]
      BY DEF RestingRouted
    <2>1. DOMAIN levels[s][p] = 1..Len(levels[s][p])
      BY DEF ProcessorInv, EngineInv, BookInv, BookTypeOK
    <2>2. Rests(levels, levels[s][p][k].id, levels[s][p][k].node)
      BY <2>1 DEF Rests, In
    <2> QED
      BY <2>2 DEF RoutingInv, OwnersInv
  <1> QED
    BY <1>1, <1>2, InitRouting, ProcessorAlways, PTL DEF ProcessorSpec

(* And every fill is reported to the client that sent the order it fills:  *)
(* no other request, report or cancel between the match and the lookup     *)
(* changes the entry.                                                      *)
THEOREM FillsReachOwners ==
  ASSUME ~ReuseIds
  PROVE  ProcessorSpec => []FillsRouted
  <1>1. ProcessorInv /\ ProcessorInv' /\ RoutingInv /\ [ProcessorNext]_allVars => RoutingInv'
    BY StepRouting
  <1>2. ProcessorInv /\ RoutingInv => FillsRouted
    BY DEF ProcessorInv, ReplyInv, RoutingInv, MakersInv, Routed, FillsRouted
  <1> QED
    BY <1>1, <1>2, InitRouting, ProcessorAlways, PTL DEF ProcessorSpec
=============================================================================
