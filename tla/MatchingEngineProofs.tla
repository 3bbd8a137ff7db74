------------------------- MODULE MatchingEngineProofs -------------------------
(***************************************************************************)
(* The book stays uncrossed and its index stays sound and complete, for    *)
(* every set of ids, prices, quantities and nodes.                         *)
(***************************************************************************)
EXTENDS MatchingEngine, WellFoundedInduction, SequenceTheorems, TLAPS

(* Every non-empty set of prices has a least and a greatest element.       *)
LEMMA MinExists ==
  ASSUME NEW T, T \subseteq Nat, T # {}
  PROVE  \E x \in T : \A y \in T : x <= y
  <1>1. PICK x \in T : \A y \in T : ~(<<y, x>> \in OpToRel(<, Nat))
    BY NatLessThanWellFounded, WFMin
  <1>2. \A y \in T : ~(y < x)
    BY <1>1 DEF OpToRel
  <1> QED
    BY <1>2

LEMMA MaxExists ==
  ASSUME NEW M \in Nat, NEW T, T \subseteq 0..M, T # {}
  PROVE  \E x \in T : \A y \in T : x >= y
  <1> DEFINE D == {n \in Nat : M - n \in T}
  <1>1. PICK t \in T : TRUE
    OBVIOUS
  <1>2. M - t \in D
    BY <1>1
  <1>3. PICK d \in D : \A e \in D : d <= e
    <2> HIDE DEF D
    <2>1. D \subseteq Nat
      BY DEF D
    <2> QED
      BY <1>2, <2>1, MinExists
  <1>4. \A y \in T : M - y \in D
    OBVIOUS
  <1> QED
    BY <1>3, <1>4

(* begin() of a non-empty side is its best level.                          *)
LEMMA BestPriceIsBest ==
  ASSUME NEW s \in Sides, DOMAIN levels[s] \subseteq Prices, DOMAIN levels[s] # {}
  PROVE  /\ BestPrice(s) \in DOMAIN levels[s]
         /\ \A q \in DOMAIN levels[s] : ~Better(s, q, BestPrice(s))
  <1> DEFINE P == DOMAIN levels[s]
  <1>1. P \subseteq 0..MaxPrice /\ MaxPrice \in Nat /\ P # {} /\ P \subseteq Nat
    BY BookAssumption DEF Prices
  <1>2. \E p \in P : \A q \in P : ~Better(s, q, p)
    <2> HIDE DEF P
    <2>1. CASE s = "BID"
      <3>1. PICK p \in P : \A q \in P : p >= q
        BY <1>1, MaxExists
      <3> QED
        BY <1>1, <2>1, <3>1 DEF Better
    <2>2. CASE s = "ASK"
      <3>1. PICK p \in P : \A q \in P : p <= q
        BY <1>1, MinExists
      <3> QED
        BY <1>1, <2>2, <3>1 DEF Better
    <2> QED
      BY <2>1, <2>2 DEF Sides
  <1> QED
    BY <1>2 DEF BestPrice

(* Erasing position j of a list shifts the later ones.                     *)
LEMMA EraseAtFacts ==
  ASSUME NEW S, NEW list \in Seq(S), NEW j \in 1..Len(list)
  PROVE  /\ EraseAt(list, j) \in Seq(S)
         /\ Len(EraseAt(list, j)) = Len(list) - 1
         /\ \A k \in 1..Len(list) - 1 :
              EraseAt(list, j)[k] = IF k < j THEN list[k] ELSE list[k + 1]
  <1> DEFINE a == SubSeq(list, 1, j - 1)
             b == SubSeq(list, j + 1, Len(list))
  <1>1. a \in Seq(S) /\ Len(a) = j - 1 /\ \A k \in 1..j - 1 : a[k] = list[k]
    OBVIOUS
  <1>2. /\ b \in Seq(S) /\ Len(b) = Len(list) - j
        /\ \A k \in 1..Len(list) - j : b[k] = list[j + k]
    OBVIOUS
  <1>3. EraseAt(list, j) = a \o b
    BY DEF EraseAt
  <1> HIDE DEF a, b
  <1>4. EraseAt(list, j) \in Seq(S) /\ Len(EraseAt(list, j)) = Len(list) - 1
    BY <1>1, <1>2, <1>3
  <1>5. ASSUME NEW k \in 1..Len(list) - 1
        PROVE  EraseAt(list, j)[k] = IF k < j THEN list[k] ELSE list[k + 1]
    <2>1. CASE k < j
      BY <1>1, <1>2, <1>3, <2>1
    <2>2. CASE ~(k < j)
      <3>1. EraseAt(list, j)[k] = b[k - (j - 1)]
        BY <1>1, <1>2, <1>3, <2>2
      <3>2. k - (j - 1) \in 1..Len(list) - j /\ j + (k - (j - 1)) = k + 1
        BY <2>2
      <3> QED
        BY <1>2, <2>2, <3>1, <3>2
    <2> QED
      BY <2>1, <2>2
  <1> QED
    BY <1>4, <1>5

LEMMA TailIsEraseAt ==
  ASSUME NEW S, NEW list \in Seq(S), list # <<>>
  PROVE  Tail(list) = EraseAt(list, 1)
  <1>1. Tail(list) \in Seq(S) /\ Len(Tail(list)) = Len(list) - 1 /\ 1 \in 1..Len(list)
    OBVIOUS
  <1>2. \A k \in 1..Len(Tail(list)) : Tail(list)[k] = EraseAt(list, 1)[k]
    BY <1>1, EraseAtFacts
  <1> QED
    BY <1>1, <1>2, EraseAtFacts, SeqEqual

-----------------------------------------------------------------------------
(* A step that leaves the book alone keeps its invariant.                  *)
LEMMA SameBook ==
  ASSUME BookInv, UNCHANGED bookVars
  PROVE  BookInv'
  <1>1. levels' = levels /\ order_map' = order_map /\ clashed' = clashed
    BY DEF bookVars
  <1>2. BookTypeOK'
    BY <1>1 DEF BookInv, BookTypeOK
  <1>3. NoEmptyLevel' /\ NotCrossed'
    BY <1>1 DEF BookInv, NoEmptyLevel, NotCrossed
  <1>4. NodesDistinct'
    BY <1>1 DEF BookInv, NodesDistinct
  <1>5. IndexSound'
    BY <1>1 DEF BookInv, IndexSound
  <1>6. IndexComplete'
    BY <1>1 DEF BookInv, IndexComplete, Indexed
  <1> QED
    BY <1>2, <1>3, <1>4, <1>5, <1>6 DEF BookInv

(* Taking the order at place j of a level out of the book and out of the   *)
(* index, as a full fill and a cancel do, preserves the invariant.         *)
LEMMA RemoveKeepsBook ==
  ASSUME BookInv, NEW s \in Sides, NEW p \in DOMAIN levels[s], NEW j \in 1..Len(levels[s][p]),
         NEW new \in Seq(Resting), Len(new) = Len(levels[s][p]) - 1,
         \A k \in 1..Len(new) : new[k] = IF k < j THEN levels[s][p][k] ELSE levels[s][p][k + 1],
         levels' = WithLevel(s, p, new),
         order_map' = Erase(order_map, levels[s][p][j].id),
         clashed' = clashed
  PROVE  BookInv'
  <1> DEFINE old == levels[s][p]
             Was(t, q, k) == IF t = s /\ q = p /\ k >= j THEN k + 1 ELSE k
             Is(t, q, k) == IF t = s /\ q = p /\ k > j THEN k - 1 ELSE k
  <1>1. /\ old \in Seq(Resting) /\ Len(old) \in Nat /\ j \in 1..Len(old)
        /\ new \in Seq(Resting) /\ Len(new) = Len(old) - 1
        /\ \A k \in 1..Len(old) - 1 : new[k] = IF k < j THEN old[k] ELSE old[k + 1]
        /\ new = <<>> <=> Len(old) = 1
    <2>1. old \in Seq(Resting) /\ j \in 1..Len(old) /\ Len(new) = Len(old) - 1
      BY DEF BookInv, BookTypeOK
    <2>2. \A k \in 1..Len(new) : new[k] = IF k < j THEN old[k] ELSE old[k + 1]
      OBVIOUS
    <2> HIDE DEF old
    <2>3. Len(old) \in Nat
      BY <2>1
    <2>4. new = <<>> <=> Len(new) = 0
      BY EmptySeq, ZenonT(30)
    <2>5. \A k \in 1..Len(old) - 1 : new[k] = IF k < j THEN old[k] ELSE old[k + 1]
      BY <2>1, <2>2, Zenon
    <2>6. new = <<>> <=> Len(old) = 1
      BY <2>1, <2>3, <2>4
    <2> QED
      BY <2>1, <2>3, <2>5, <2>6
  <1>2. /\ DOMAIN levels' = Sides
        /\ \A t \in Sides : t # s => levels'[t] = levels[t]
        /\ DOMAIN levels'[s] = IF new = <<>> THEN DOMAIN levels[s] \ {p} ELSE DOMAIN levels[s] \cup {p}
        /\ \A q \in DOMAIN levels'[s] : levels'[s][q] = IF q = p THEN new ELSE levels[s][q]
    <2>1. DOMAIN levels = Sides
      BY DEF BookInv, BookTypeOK
    <2> QED
      BY <2>1 DEF WithLevel, Put, Erase
  <1> HIDE DEF old
  <1>3. /\ DOMAIN order_map' = DOMAIN order_map \ {old[j].id}
        /\ \A id \in DOMAIN order_map' : order_map'[id] = order_map[id]
    BY DEF Erase, old
  <1>4. ASSUME NEW t \in Sides, NEW q \in DOMAIN levels'[t], NEW k \in DOMAIN levels'[t][q]
        PROVE  /\ q \in DOMAIN levels[t] /\ Was(t, q, k) \in DOMAIN levels[t][q]
               /\ levels'[t][q][k] = levels[t][q][Was(t, q, k)]
               /\ ~(t = s /\ q = p /\ Was(t, q, k) = j)
    <2>1. CASE t = s /\ q = p
      <3>1. levels'[t][q] = new /\ levels[t][q] = old /\ k \in 1..Len(new)
        BY <1>1, <1>2, <2>1 DEF old
      <3>2. k \in 1..Len(old) - 1 /\ Was(t, q, k) \in 1..Len(old) /\ Was(t, q, k) # j
        BY <1>1, <2>1, <3>1
      <3>3. new[k] = old[Was(t, q, k)]
        BY <1>1, <2>1, <3>2
      <3> QED
        BY <1>1, <2>1, <3>1, <3>2, <3>3
    <2>2. CASE ~(t = s /\ q = p)
      BY <1>2, <2>2
    <2> QED
      BY <2>1, <2>2
  <1>5. ASSUME NEW t \in Sides, NEW q \in DOMAIN levels[t], NEW k \in DOMAIN levels[t][q],
               ~(t = s /\ q = p /\ k = j)
        PROVE  /\ q \in DOMAIN levels'[t] /\ Is(t, q, k) \in DOMAIN levels'[t][q]
               /\ levels'[t][q][Is(t, q, k)] = levels[t][q][k]
    <2>1. CASE t = s /\ q = p
      <3>1. k \in 1..Len(old) /\ k # j
        BY <1>1, <1>5, <2>1 DEF old
      <3>2. new # <<>> /\ Is(s, p, k) \in 1..Len(new) /\ new[Is(s, p, k)] = old[k]
        <4>1. CASE k < j
          <5>1. Is(s, p, k) = k /\ k \in 1..Len(old) - 1
            BY <1>1, <3>1, <4>1
          <5>2. new[k] = old[k]
            BY <1>1, <4>1, <5>1
          <5> QED
            BY <1>1, <5>1, <5>2
        <4>2. CASE k > j
          <5>1. Is(s, p, k) = k - 1 /\ k - 1 \in 1..Len(old) - 1 /\ ~(k - 1 < j) /\ k - 1 + 1 = k
            BY <3>1, <4>2, <1>1
          <5>2. new[k - 1] = old[k]
            BY <1>1, <5>1
          <5> QED
            BY <1>1, <5>1, <5>2
        <4> QED
          BY <1>1, <3>1, <4>1, <4>2
      <3>3. p \in DOMAIN levels'[s] /\ levels'[s][p] = new
        BY <1>2, <3>2
      <3> QED
        BY <1>1, <2>1, <3>2, <3>3 DEF old
    <2>2. CASE ~(t = s /\ q = p)
      BY <1>2, <2>2
    <2> QED
      BY <2>1, <2>2
  <1>6. ASSUME NEW t \in Sides, NEW q \in DOMAIN levels'[t],
               NEW k \in DOMAIN levels'[t][q], NEW i \in DOMAIN levels'[t][q],
               Was(t, q, k) = Was(t, q, i)
        PROVE  k = i
    BY <1>1, <1>2, <1>6 DEF BookInv, BookTypeOK
  <1> HIDE DEF Was, Is
  <1>7. BookTypeOK'
    <2>1. ASSUME NEW t \in Sides
          PROVE  /\ DOMAIN levels'[t] \subseteq Prices
                 /\ \A q \in DOMAIN levels'[t] : levels'[t][q] \in Seq(Resting)
      <3>1. /\ DOMAIN levels[t] \subseteq Prices
            /\ \A q \in DOMAIN levels[t] : levels[t][q] \in Seq(Resting)
        BY DEF BookInv, BookTypeOK
      <3>2. CASE t # s
        BY <1>2, <3>1, <3>2
      <3>3. CASE t = s
        BY <1>1, <1>2, <3>1, <3>3
      <3> QED
        BY <3>2, <3>3
    <2>2. \A id \in DOMAIN order_map' : order_map'[id] \in OrderLocation
      BY <1>3 DEF BookInv, BookTypeOK
    <2> QED
      BY <1>2, <1>3, <2>1, <2>2 DEF BookInv, BookTypeOK
  <1>8. NoEmptyLevel'
    BY <1>1, <1>2 DEF BookInv, NoEmptyLevel
  <1>9. NotCrossed'
    BY <1>2 DEF BookInv, NotCrossed, Sides
  <1>10. NodesDistinct'
    <2> SUFFICES ASSUME NEW t \in Sides, NEW u \in Sides,
                        NEW q \in DOMAIN levels'[t], NEW r \in DOMAIN levels'[u],
                        NEW k \in DOMAIN levels'[t][q], NEW i \in DOMAIN levels'[u][r],
                        levels'[t][q][k].node = levels'[u][r][i].node
                 PROVE  t = u /\ q = r /\ k = i
      BY DEF NodesDistinct
    <2>1. t = u /\ q = r /\ Was(t, q, k) = Was(u, r, i)
      <3>1. /\ q \in DOMAIN levels[t] /\ Was(t, q, k) \in DOMAIN levels[t][q]
            /\ levels'[t][q][k] = levels[t][q][Was(t, q, k)]
        BY <1>4
      <3>2. /\ r \in DOMAIN levels[u] /\ Was(u, r, i) \in DOMAIN levels[u][r]
            /\ levels'[u][r][i] = levels[u][r][Was(u, r, i)]
        BY <1>4
      <3> QED
        BY <3>1, <3>2 DEF BookInv, NodesDistinct
    <2> QED
      BY <1>6, <2>1
  <1>11. IndexSound'
    <2> SUFFICES ASSUME NEW id \in DOMAIN order_map'
                 PROVE  LET loc == order_map'[id]
                        IN  /\ loc.price \in DOMAIN levels'[loc.side]
                            /\ \E k \in DOMAIN levels'[loc.side][loc.price] :
                                 LET r == levels'[loc.side][loc.price][k]
                                 IN  r.node = loc.node /\ r.id = id
      BY ZenonT(30) DEF IndexSound
    <2> DEFINE loc == order_map[id]
    <2>1. order_map'[id] = loc /\ id # old[j].id /\ id \in DOMAIN order_map
      BY <1>3
    <2>2. loc.side \in Sides
      BY <2>1 DEF BookInv, BookTypeOK, OrderLocation
    <2>3. /\ loc.price \in DOMAIN levels[loc.side]
          /\ \E k \in DOMAIN levels[loc.side][loc.price] :
                levels[loc.side][loc.price][k].node = loc.node /\ levels[loc.side][loc.price][k].id = id
      BY <2>1 DEF BookInv, IndexSound
    <2> HIDE DEF loc
    <2>4. PICK k \in DOMAIN levels[loc.side][loc.price] :
            levels[loc.side][loc.price][k].node = loc.node /\ levels[loc.side][loc.price][k].id = id
      BY <2>3
    <2>5. ~(loc.side = s /\ loc.price = p /\ k = j)
      BY <2>1, <2>4 DEF old
    <2>6. /\ loc.price \in DOMAIN levels'[loc.side]
          /\ Is(loc.side, loc.price, k) \in DOMAIN levels'[loc.side][loc.price]
          /\ levels'[loc.side][loc.price][Is(loc.side, loc.price, k)] = levels[loc.side][loc.price][k]
      BY <1>5, <2>2, <2>3, <2>5
    <2> QED
      BY <2>1, <2>4, <2>6, ZenonT(30)
  <1>12. IndexComplete'
    <2> SUFFICES ASSUME NEW t \in Sides, NEW q \in DOMAIN levels'[t], NEW k \in DOMAIN levels'[t][q],
                        levels'[t][q][k].id \notin clashed'
                 PROVE  Indexed(levels[t][q][k].id, t, q, levels[t][q][k].node)'
      BY DEF IndexComplete
    <2> DEFINE i == Was(t, q, k)
               r == levels[t][q][i]
    <2>1. /\ q \in DOMAIN levels[t] /\ i \in DOMAIN levels[t][q]
          /\ levels'[t][q][k] = r /\ ~(t = s /\ q = p /\ i = j) /\ r.id \notin clashed
      BY <1>4
    <2>2. Indexed(r.id, t, q, r.node)
      BY <2>1 DEF BookInv, IndexComplete
    <2>3. r.id # old[j].id
      <3> SUFFICES ASSUME r.id = old[j].id PROVE FALSE
        OBVIOUS
      <3>1. j \in DOMAIN levels[s][p] /\ old[j] = levels[s][p][j]
        BY <1>1 DEF old
      <3>2. Indexed(old[j].id, s, p, old[j].node)
        BY <2>1, <3>1 DEF BookInv, IndexComplete
      <3>3. t = s /\ q = p /\ r.node = old[j].node
        BY <2>2, <3>2 DEF Indexed
      <3>4. i = j
        BY <2>1, <3>1, <3>3 DEF BookInv, NodesDistinct
      <3> QED
        BY <2>1, <3>3, <3>4
    <2> QED
      BY <1>3, <2>1, <2>2, <2>3 DEF Indexed
  <1> QED
    BY <1>7, <1>8, <1>9, <1>10, <1>11, <1>12 DEF BookInv

(* What a partial fill leaves of a list.                                   *)
LEMMA ReducedList ==
  ASSUME NEW list \in Seq(Resting), list # <<>>,
         NEW filled \in Nat, filled > 0, filled < Head(list).quantity
  PROVE  LET new == <<[Head(list) EXCEPT !.quantity = @ - filled]>> \o Tail(list)
         IN  /\ new \in Seq(Resting) /\ Len(new) = Len(list)
             /\ \A k \in 1..Len(new) : new[k].id = list[k].id /\ new[k].node = list[k].node
  <1> DEFINE front == [Head(list) EXCEPT !.quantity = @ - filled]
             new == <<front>> \o Tail(list)
  <1>1. front \in Resting /\ front.node = list[1].node /\ front.id = list[1].id
    <2>1. Head(list) \in Resting /\ Head(list) = list[1]
      OBVIOUS
    <2>2. Head(list).quantity - filled \in Quantities
      BY <2>1, BookAssumption DEF Resting, Quantities
    <2> QED
      BY <2>1, <2>2 DEF Resting
  <1> HIDE DEF front
  <1>2. /\ new \in Seq(Resting) /\ Len(new) = Len(list)
        /\ \A k \in 1..Len(list) : new[k] = IF k = 1 THEN front ELSE list[k]
    BY <1>1
  <1> HIDE DEF new
  <1>3. \A k \in 1..Len(new) : new[k].id = list[k].id /\ new[k].node = list[k].node
    BY <1>1, <1>2
  <1> QED
    BY <1>2, <1>3, SMTT(30) DEF new, front

(* Changing quantities alone, as a partial fill does, preserves the        *)
(* invariant.                                                              *)
LEMMA ReduceKeepsBook ==
  ASSUME BookInv, NEW s \in Sides, NEW p \in DOMAIN levels[s],
         NEW new \in Seq(Resting), Len(new) = Len(levels[s][p]),
         \A k \in 1..Len(new) :
           new[k].id = levels[s][p][k].id /\ new[k].node = levels[s][p][k].node,
         levels' = WithLevel(s, p, new), order_map' = order_map, clashed' = clashed
  PROVE  BookInv'
  <1> DEFINE old == levels[s][p]
  <1>1. /\ old \in Seq(Resting) /\ old # <<>> /\ DOMAIN levels = Sides
    BY DEF BookInv, BookTypeOK, NoEmptyLevel
  <1>2. Len(new) = Len(old) /\ Len(old) \in Nat /\ new # <<>>
    BY <1>1
  <1>3. DOMAIN new = DOMAIN old /\ DOMAIN new = 1..Len(new)
    BY <1>1, <1>2
  <1>4. /\ DOMAIN levels' = Sides
        /\ \A t \in Sides : t # s => levels'[t] = levels[t]
        /\ DOMAIN levels'[s] = DOMAIN levels[s]
        /\ \A q \in DOMAIN levels'[s] : levels'[s][q] = IF q = p THEN new ELSE levels[s][q]
    BY <1>1, <1>2, ZenonT(30) DEF WithLevel, Put
  <1> HIDE DEF old
  <1>5. ASSUME NEW t \in Sides
        PROVE  DOMAIN levels'[t] = DOMAIN levels[t]
    BY <1>4
  <1>6. ASSUME NEW t \in Sides, NEW q \in DOMAIN levels[t]
        PROVE  /\ DOMAIN levels'[t][q] = DOMAIN levels[t][q]
               /\ levels'[t][q] \in Seq(Resting)
               /\ levels'[t][q] # <<>>
    <2>1. levels[t][q] \in Seq(Resting) /\ levels[t][q] # <<>>
      BY DEF BookInv, BookTypeOK, NoEmptyLevel
    <2> QED
      BY <1>2, <1>3, <1>4, <2>1 DEF old
  <1>7. ASSUME NEW t \in Sides, NEW q \in DOMAIN levels[t], NEW k \in DOMAIN levels[t][q]
        PROVE  /\ levels'[t][q][k].node = levels[t][q][k].node
               /\ levels'[t][q][k].id = levels[t][q][k].id
    <2>1. CASE t = s /\ q = p
      BY <1>3, <1>4, <2>1 DEF old
    <2>2. CASE ~(t = s /\ q = p)
      BY <1>4, <2>2
    <2> QED
      BY <2>1, <2>2
  <1>8. BookTypeOK'
    BY <1>4, <1>5, <1>6 DEF BookInv, BookTypeOK
  <1>9. NoEmptyLevel'
    BY <1>5, <1>6 DEF NoEmptyLevel
  <1>10. NotCrossed'
    BY <1>5 DEF BookInv, NotCrossed, Sides
  <1>11. NodesDistinct'
    <2> SUFFICES ASSUME NEW t \in Sides, NEW u \in Sides,
                        NEW q \in DOMAIN levels'[t], NEW w \in DOMAIN levels'[u],
                        NEW k \in DOMAIN levels'[t][q], NEW i \in DOMAIN levels'[u][w],
                        levels'[t][q][k].node = levels'[u][w][i].node
                 PROVE  t = u /\ q = w /\ k = i
      BY DEF NodesDistinct
    <2>1. /\ q \in DOMAIN levels[t] /\ k \in DOMAIN levels[t][q]
          /\ w \in DOMAIN levels[u] /\ i \in DOMAIN levels[u][w]
      BY <1>5, <1>6
    <2>2. levels[t][q][k].node = levels[u][w][i].node
      BY <1>7, <2>1
    <2>3. NodesDistinct
      BY DEF BookInv
    <2> QED
      BY <2>1, <2>2, <2>3 DEF NodesDistinct
  <1>12. IndexSound'
    <2> SUFFICES ASSUME NEW id \in DOMAIN order_map
                 PROVE  /\ order_map[id].price \in DOMAIN levels'[order_map[id].side]
                        /\ \E k \in DOMAIN levels'[order_map[id].side][order_map[id].price] :
                             /\ levels'[order_map[id].side][order_map[id].price][k].node
                                  = order_map[id].node
                             /\ levels'[order_map[id].side][order_map[id].price][k].id = id
      BY DEF IndexSound
    <2>1. order_map[id].side \in Sides
      BY DEF BookInv, BookTypeOK, OrderLocation
    <2>2. /\ order_map[id].price \in DOMAIN levels[order_map[id].side]
          /\ \E k \in DOMAIN levels[order_map[id].side][order_map[id].price] :
               /\ levels[order_map[id].side][order_map[id].price][k].node = order_map[id].node
               /\ levels[order_map[id].side][order_map[id].price][k].id = id
      BY DEF BookInv, IndexSound
    <2> QED
      BY <1>5, <1>6, <1>7, <2>1, <2>2, ZenonT(30)
  <1>13. IndexComplete'
    <2> SUFFICES ASSUME NEW t \in Sides, NEW q \in DOMAIN levels'[t], NEW k \in DOMAIN levels'[t][q],
                        levels'[t][q][k].id \notin clashed'
                 PROVE  Indexed(levels[t][q][k].id, t, q, levels[t][q][k].node)'
      BY DEF IndexComplete
    <2>1. q \in DOMAIN levels[t] /\ k \in DOMAIN levels[t][q]
      BY <1>5, <1>6
    <2>2. Indexed(levels[t][q][k].id, t, q, levels[t][q][k].node)
      BY <1>7, <2>1 DEF BookInv, IndexComplete
    <2> QED
      BY <1>7, <2>1, <2>2 DEF Indexed
  <1> QED
    BY <1>8, <1>9, <1>10, <1>11, <1>12, <1>13 DEF BookInv

(* Adding what is left of a limit order that crosses nothing preserves the *)
(* invariant.                                                              *)
LEMMA AddKeepsBook ==
  ASSUME BookInv, NEW o \in Order, o.orderType = "LIMIT", NEW quantity \in Quantities,
         add_order(o, quantity),
         \A q \in DOMAIN levels[Opposite(o.side)] : ~Crosses(o, q)
  PROVE  BookInv'
  <1> DEFINE s == o.side
             p == o.price
             old == IF p \in DOMAIN levels[s] THEN levels[s][p] ELSE <<>>
  <1>1. s \in Sides /\ p \in Prices /\ o.id \in OrderIds
    BY DEF Order
  <1>2. PICK n \in FreeNodes :
          /\ levels' = [levels EXCEPT ![s] =
                         Put(@, p, Append(old, [id |-> o.id, quantity |-> quantity, node |-> n]))]
          /\ order_map' = Put(order_map, o.id, [side |-> s, price |-> p, node |-> n])
          /\ clashed' = IF o.id \in DOMAIN order_map THEN clashed \cup {o.id} ELSE clashed
    BY ZenonT(30) DEF add_order, PushBack
  <1> DEFINE r == [id |-> o.id, quantity |-> quantity, node |-> n]
             new == Append(old, r)
  <1>3. /\ old \in Seq(Resting) /\ r \in Resting /\ Len(old) \in Nat
        /\ r.id = o.id /\ r.node = n
    <2>1. old \in Seq(Resting)
      BY <1>1 DEF BookInv, BookTypeOK
    <2>2. r \in Resting /\ r.id = o.id /\ r.node = n
      BY <1>1 DEF Resting, FreeNodes
    <2> QED
      BY <2>1, <2>2
  <1>4. DOMAIN levels = Sides /\ levels' = [levels EXCEPT ![s] = Put(@, p, new)]
    BY <1>2 DEF BookInv, BookTypeOK
  <1> HIDE DEF r, old
  <1>5. /\ new \in Seq(Resting) /\ Len(new) = Len(old) + 1 /\ new # <<>>
        /\ \A k \in 1..Len(old) : new[k] = old[k]
        /\ new[Len(old) + 1] = r
    BY <1>3
  <1> HIDE DEF new
  <1>6. /\ DOMAIN levels' = Sides
        /\ \A t \in Sides : t # s => levels'[t] = levels[t]
        /\ DOMAIN levels'[s] = DOMAIN levels[s] \cup {p}
        /\ \A q \in DOMAIN levels'[s] : levels'[s][q] = IF q = p THEN new ELSE levels[s][q]
    BY <1>1, <1>4 DEF Put
  <1>7. /\ DOMAIN order_map' = DOMAIN order_map \cup {o.id}
        /\ order_map'[o.id] = [side |-> s, price |-> p, node |-> n]
        /\ \A id \in DOMAIN order_map : id # o.id => order_map'[id] = order_map[id]
    BY <1>2 DEF Put
  <1>8. ASSUME NEW t \in Sides, NEW q \in DOMAIN levels'[t], NEW k \in DOMAIN levels'[t][q],
               ~(t = s /\ q = p /\ k = Len(old) + 1)
        PROVE  /\ q \in DOMAIN levels[t] /\ k \in DOMAIN levels[t][q]
               /\ levels'[t][q][k] = levels[t][q][k]
               /\ levels[t][q][k].node # n
    <2>1. CASE t = s /\ q = p
      <3>1. k \in 1..Len(old) + 1 /\ levels'[t][q] = new
        BY <1>3, <1>5, <1>6, <2>1
      <3>2. k \in 1..Len(old) /\ new[k] = old[k]
        BY <1>3, <1>5, <1>8, <2>1, <3>1
      <3>3. p \in DOMAIN levels[s] /\ old = levels[s][p]
        BY <3>2 DEF old
      <3> QED
        BY <1>1, <1>3, <2>1, <3>1, <3>2, <3>3 DEF FreeNodes
    <2>2. CASE ~(t = s /\ q = p)
      BY <1>1, <1>6, <2>2 DEF FreeNodes
    <2> QED
      BY <2>1, <2>2
  <1>9. ASSUME NEW t \in Sides, NEW q \in DOMAIN levels[t], NEW k \in DOMAIN levels[t][q]
        PROVE  /\ q \in DOMAIN levels'[t] /\ k \in DOMAIN levels'[t][q]
               /\ levels'[t][q][k] = levels[t][q][k]
    <2>1. CASE t = s /\ q = p
      <3>1. old = levels[t][q] /\ levels'[t][q] = new /\ q \in DOMAIN levels'[t]
        BY <1>6, <2>1 DEF old
      <3>2. k \in 1..Len(old) /\ k \in 1..Len(new)
        BY <1>3, <1>5, <3>1
      <3> QED
        BY <1>3, <1>5, <3>1, <3>2
    <2>2. CASE ~(t = s /\ q = p)
      BY <1>6, <2>2
    <2> QED
      BY <2>1, <2>2
  <1>10. p \in DOMAIN levels'[s] /\ levels'[s][p] = new /\ Len(old) + 1 \in DOMAIN new
    BY <1>3, <1>5, <1>6
  <1>11. BookTypeOK'
    <2>1. ASSUME NEW t \in Sides
          PROVE  /\ DOMAIN levels'[t] \subseteq Prices
                 /\ \A q \in DOMAIN levels'[t] : levels'[t][q] \in Seq(Resting)
      <3>1. /\ DOMAIN levels[t] \subseteq Prices
            /\ \A q \in DOMAIN levels[t] : levels[t][q] \in Seq(Resting)
        BY DEF BookInv, BookTypeOK
      <3>2. CASE t # s
        BY <1>6, <3>1, <3>2
      <3>3. CASE t = s
        BY <1>1, <1>5, <1>6, <3>1, <3>3
      <3> QED
        BY <3>2, <3>3
    <2>2. \A id \in DOMAIN order_map' : order_map'[id] \in OrderLocation
      BY <1>1, <1>7 DEF BookInv, BookTypeOK, OrderLocation, FreeNodes
    <2> QED
      BY <1>1, <1>2, <1>6, <1>7, <2>1, <2>2 DEF BookInv, BookTypeOK
  <1>12. NoEmptyLevel'
    BY <1>5, <1>6 DEF BookInv, NoEmptyLevel
  <1>13. NotCrossed'
    <2>1. \A q \in DOMAIN levels[Opposite(s)] : Better(s, q, p)
      BY DEF Crosses
    <2>2. CASE s = "BID"
      BY <1>6, <2>1, <2>2 DEF BookInv, NotCrossed, Sides, Better, Opposite
    <2>3. CASE s = "ASK"
      BY <1>6, <2>1, <2>3 DEF BookInv, NotCrossed, Sides, Better, Opposite
    <2> QED
      BY <1>1, <2>2, <2>3 DEF Sides
  <1>14. NodesDistinct'
    <2> SUFFICES ASSUME NEW t \in Sides, NEW u \in Sides,
                        NEW q \in DOMAIN levels'[t], NEW w \in DOMAIN levels'[u],
                        NEW k \in DOMAIN levels'[t][q], NEW i \in DOMAIN levels'[u][w],
                        levels'[t][q][k].node = levels'[u][w][i].node
                 PROVE  t = u /\ q = w /\ k = i
      BY DEF NodesDistinct
    <2>1. CASE ~(t = s /\ q = p /\ k = Len(old) + 1) /\ ~(u = s /\ w = p /\ i = Len(old) + 1)
      BY <1>8, <2>1 DEF BookInv, NodesDistinct
    <2>2. CASE t = s /\ q = p /\ k = Len(old) + 1
      BY <1>3, <1>5, <1>8, <1>10, <2>2
    <2>3. CASE u = s /\ w = p /\ i = Len(old) + 1
      BY <1>3, <1>5, <1>8, <1>10, <2>3
    <2> QED
      BY <2>1, <2>2, <2>3
  <1>15. IndexSound'
    <2> SUFFICES ASSUME NEW id \in DOMAIN order_map'
                 PROVE  /\ order_map'[id].price \in DOMAIN levels'[order_map'[id].side]
                        /\ \E k \in DOMAIN levels'[order_map'[id].side][order_map'[id].price] :
                             /\ levels'[order_map'[id].side][order_map'[id].price][k].node
                                  = order_map'[id].node
                             /\ levels'[order_map'[id].side][order_map'[id].price][k].id = id
      BY DEF IndexSound
    <2>1. CASE id = o.id
      <3>1. order_map'[id].side = s /\ order_map'[id].price = p /\ order_map'[id].node = n
        BY <1>7, <2>1
      <3>2. /\ p \in DOMAIN levels'[s] /\ Len(old) + 1 \in DOMAIN levels'[s][p]
            /\ levels'[s][p][Len(old) + 1].node = n /\ levels'[s][p][Len(old) + 1].id = id
        BY <1>3, <1>5, <1>10, <2>1
      <3> QED
        BY <3>1, <3>2, Zenon
    <2>2. CASE id # o.id
      <3>1. id \in DOMAIN order_map /\ order_map'[id] = order_map[id] /\ order_map[id].side \in Sides
        BY <1>7, <2>2 DEF BookInv, BookTypeOK, OrderLocation
      <3>2. /\ order_map[id].price \in DOMAIN levels[order_map[id].side]
            /\ \E k \in DOMAIN levels[order_map[id].side][order_map[id].price] :
                 /\ levels[order_map[id].side][order_map[id].price][k].node = order_map[id].node
                 /\ levels[order_map[id].side][order_map[id].price][k].id = id
        BY <3>1 DEF BookInv, IndexSound
      <3> QED
        BY <1>9, <3>1, <3>2, ZenonT(30)
    <2> QED
      BY <2>1, <2>2
  <1>16. IndexComplete'
    <2> SUFFICES ASSUME NEW t \in Sides, NEW q \in DOMAIN levels'[t], NEW k \in DOMAIN levels'[t][q],
                        levels'[t][q][k].id \notin clashed'
                 PROVE  Indexed(levels[t][q][k].id, t, q, levels[t][q][k].node)'
      BY DEF IndexComplete
    <2>1. CASE t = s /\ q = p /\ k = Len(old) + 1
      BY <1>3, <1>5, <1>7, <1>10, <2>1 DEF Indexed
    <2>2. CASE ~(t = s /\ q = p /\ k = Len(old) + 1)
      <3>1. /\ q \in DOMAIN levels[t] /\ k \in DOMAIN levels[t][q]
            /\ levels'[t][q][k] = levels[t][q][k]
        BY <1>8, <2>2
      <3> DEFINE id == levels[t][q][k].id
      <3>2. id \notin clashed /\ ~(id = o.id /\ id \in DOMAIN order_map)
        BY <1>2, <3>1
      <3>3. Indexed(id, t, q, levels[t][q][k].node)
        BY <3>1, <3>2 DEF BookInv, IndexComplete
      <3>4. id # o.id
        BY <3>2, <3>3 DEF Indexed
      <3> QED
        BY <1>7, <3>1, <3>3, <3>4 DEF Indexed
    <2> QED
      BY <2>1, <2>2
  <1> QED
    BY <1>11, <1>12, <1>13, <1>14, <1>15, <1>16 DEF BookInv

-----------------------------------------------------------------------------
(* The invariant of the engine.                                            *)
EngineInv == TypeOK /\ BookInv

LEMMA InitEngine == Init => EngineInv
  <1> SUFFICES ASSUME Init PROVE EngineInv
    OBVIOUS
  <1>1. DOMAIN levels = Sides /\ \A s \in Sides : DOMAIN levels[s] = {}
    BY DEF Init, BookInit
  <1>2. DOMAIN order_map = {} /\ clashed = {}
    BY DEF Init, BookInit
  <1>3. BookTypeOK
    BY <1>1, <1>2 DEF BookTypeOK
  <1>4. TypeOK
    BY <1>3, BookAssumption DEF TypeOK, Init
  <1>5. NoEmptyLevel /\ NodesDistinct /\ IndexComplete
    BY <1>1 DEF NoEmptyLevel, NodesDistinct, IndexComplete
  <1>6. NotCrossed
    BY <1>1 DEF NotCrossed, Sides
  <1>7. IndexSound
    BY <1>2 DEF IndexSound
  <1> QED
    BY <1>3, <1>4, <1>5, <1>6, <1>7 DEF EngineInv, BookInv

LEMMA CancelKeepsBook ==
  ASSUME EngineInv, NEW id \in OrderIds, cancel_order(id)
  PROVE  BookInv'
  <1> DEFINE loc == order_map[id]
             list == levels[loc.side][loc.price]
             j == CHOOSE k \in DOMAIN list : list[k].node = loc.node
  <1>1. id \in DOMAIN order_map /\ loc.side \in Sides /\ loc.price \in DOMAIN levels[loc.side]
    BY DEF cancel_order, EngineInv, BookInv, BookTypeOK, OrderLocation, IndexSound
  <1>2. list \in Seq(Resting)
    BY <1>1 DEF EngineInv, BookInv, BookTypeOK
  <1>3. \E k \in DOMAIN list : list[k].node = loc.node /\ list[k].id = id
    BY <1>1 DEF EngineInv, BookInv, IndexSound
  <1>4. j \in DOMAIN list /\ list[j].node = loc.node
    BY <1>3, ZenonT(30)
  <1>5. list[j].id = id
    <2> HIDE DEF j, loc
    <2>1. PICK k \in DOMAIN list : list[k].node = loc.node /\ list[k].id = id
      BY <1>3
    <2>2. k = j
      BY <1>1, <1>4, <2>1 DEF EngineInv, BookInv, NodesDistinct
    <2> QED
      BY <2>1, <2>2
  <1>6. /\ levels' = WithLevel(loc.side, loc.price, EraseAt(list, j))
        /\ order_map' = Erase(order_map, id) /\ clashed' = clashed
    BY DEF cancel_order, EraseNode
  <1> DEFINE new == EraseAt(list, j)
  <1> HIDE DEF j, loc
  <1>7. j \in 1..Len(list)
    BY <1>2, <1>4
  <1>8. /\ new \in Seq(Resting) /\ Len(new) = Len(list) - 1
        /\ \A k \in 1..Len(list) - 1 : new[k] = IF k < j THEN list[k] ELSE list[k + 1]
    BY <1>2, <1>7, EraseAtFacts, ZenonT(30)
  <1> HIDE DEF new
  <1>9. \A k \in 1..Len(new) : new[k] = IF k < j THEN list[k] ELSE list[k + 1]
    BY <1>8
  <1> QED
    BY <1>1, <1>5, <1>6, <1>7, <1>8, <1>9, RemoveKeepsBook, ZenonT(30) DEF new, EngineInv

(* One iteration of the inner loop.                                        *)
LEMMA FillKeepsEngine ==
  ASSUME EngineInv, Fill
  PROVE  EngineInv'
  <1> DEFINE s == Opposite(taker.side)
             p == BestPrice(s)
             list == levels[s][p]
             front == Head(list)
             filled == IF front.quantity < remaining THEN front.quantity ELSE remaining
  <1>1. taker \in Order /\ s \in Sides
    BY DEF EngineInv, TypeOK, Fill, Opposite, Sides
  <1>2. /\ remaining \in Nat /\ remaining > 0 /\ remaining <= MaxQuantity
        /\ DOMAIN levels[s] # {} /\ DOMAIN levels[s] \subseteq Prices
    BY <1>1, BookAssumption DEF Fill, CanFill, EngineInv, TypeOK, BookInv, BookTypeOK
  <1>3. p \in DOMAIN levels[s] /\ p \in Prices
    BY <1>1, <1>2, BestPriceIsBest
  <1>4. list \in Seq(Resting) /\ list # <<>>
    BY <1>1, <1>3 DEF EngineInv, BookInv, BookTypeOK, NoEmptyLevel
  <1>5. /\ levels' = WithLevel(s, p, ListAfterFill(list, filled))
        /\ order_map' = IndexAfterFill(front, filled)
        /\ remaining' = remaining - filled
        /\ trades' = Append(trades, [price |-> p, maker |-> front.id, quantity |-> filled])
        /\ clashed' = clashed /\ taker' = taker
    BY ZenonT(30) DEF Fill, FillFront
  <1> HIDE DEF s, p
  <1>6. front \in Resting /\ front = list[1] /\ 1 \in 1..Len(list)
    BY <1>4
  <1> HIDE DEF list
  <1>7. front.quantity \in Quantities /\ front.id \in OrderIds
    BY <1>6 DEF Resting
  <1> HIDE DEF front
  <1>8. /\ filled \in Nat /\ filled > 0 /\ filled \in Quantities
        /\ filled <= front.quantity /\ filled <= remaining
    BY <1>2, <1>7, BookAssumption DEF Quantities
  <1> HIDE DEF filled
  <1>9. BookInv'
    <2>1. CASE front.quantity = filled
      <3>1. /\ levels' = WithLevel(s, p, EraseAt(list, 1))
            /\ order_map' = Erase(order_map, list[1].id)
        BY <1>4, <1>5, <1>6, <2>1, TailIsEraseAt, ZenonT(30) DEF ListAfterFill, IndexAfterFill, front
      <3> DEFINE new == EraseAt(list, 1)
      <3>2. /\ new \in Seq(Resting) /\ Len(new) = Len(list) - 1
            /\ \A k \in 1..Len(list) - 1 : new[k] = IF k < 1 THEN list[k] ELSE list[k + 1]
        BY <1>4, <1>6, EraseAtFacts
      <3>3. levels' = WithLevel(s, p, new)
        BY <3>1
      <3> HIDE DEF new
      <3>4. \A k \in 1..Len(new) : new[k] = IF k < 1 THEN list[k] ELSE list[k + 1]
        BY <3>2
      <3> QED
        BY <1>1, <1>3, <1>5, <1>6, <3>1, <3>2, <3>3, <3>4, RemoveKeepsBook, SMTT(30) DEF list, EngineInv
    <2>2. CASE front.quantity # filled
      <3> DEFINE new == <<[Head(list) EXCEPT !.quantity = @ - filled]>> \o Tail(list)
      <3>1. levels' = WithLevel(s, p, new) /\ order_map' = order_map
        BY <1>5, <2>2 DEF ListAfterFill, IndexAfterFill, front
      <3>2. filled < Head(list).quantity
        BY <1>7, <1>8, <2>2 DEF front, Quantities
      <3>3. /\ new \in Seq(Resting) /\ Len(new) = Len(list)
            /\ \A k \in 1..Len(new) : new[k].id = list[k].id /\ new[k].node = list[k].node
        BY <1>4, <1>8, <3>2, ReducedList
      <3> HIDE DEF new
      <3> QED
        BY <1>1, <1>3, <1>5, <3>1, <3>3, ReduceKeepsBook DEF list, EngineInv
    <2> QED
      BY <2>1, <2>2
  <1>10. TypeOK'
    <2>1. [price |-> p, maker |-> front.id, quantity |-> filled] \in Trade
      BY <1>3, <1>7, <1>8 DEF Trade
    <2>2. trades' \in Seq(Trade)
      BY <1>5, <2>1 DEF EngineInv, TypeOK
    <2>3. remaining' \in 0..MaxQuantity
      BY <1>2, <1>5, <1>8, BookAssumption
    <2> QED
      BY <1>5, <1>9, <2>2, <2>3 DEF EngineInv, TypeOK, BookInv
  <1> QED
    BY <1>9, <1>10 DEF EngineInv

(* The end of a match, with the rest of the order added or dropped.        *)
LEMMA FinishKeepsEngine ==
  ASSUME EngineInv, Finish
  PROVE  EngineInv'
  <1>1. taker \in Order /\ taker.side \in Sides /\ Opposite(taker.side) \in Sides
    BY DEF EngineInv, TypeOK, Finish, Opposite, Sides, Order
  <1>2. BookInv'
    <2>1. CASE remaining > 0 /\ taker.orderType = "LIMIT"
      <3> DEFINE s == Opposite(taker.side)
      <3>1. ASSUME NEW q \in DOMAIN levels[s] PROVE ~Crosses(taker, q)
        <4>1. DOMAIN levels[s] \subseteq Prices /\ DOMAIN levels[s] # {}
          BY <1>1 DEF EngineInv, BookInv, BookTypeOK
        <4>2. BestPrice(s) \in DOMAIN levels[s] /\ ~Better(s, q, BestPrice(s))
          BY <1>1, <4>1, BestPriceIsBest
        <4>3. ~Crosses(taker, BestPrice(s))
          BY <2>1, <4>1 DEF Finish, CanFill
        <4>4. q \in Int /\ BestPrice(s) \in Int /\ taker.price \in Int
          BY <1>1, <4>1, <4>2, BookAssumption DEF Prices, Order
        <4> QED
          BY <1>1, <2>1, <4>2, <4>3, <4>4 DEF Crosses, Better, Opposite, Sides
      <3>2. remaining \in Quantities
        BY <2>1, BookAssumption DEF EngineInv, TypeOK, Quantities
      <3>3. add_order(taker, remaining)
        BY <2>1 DEF Finish
      <3> QED
        BY <1>1, <2>1, <3>1, <3>2, <3>3, AddKeepsBook DEF EngineInv
    <2>2. CASE ~(remaining > 0 /\ taker.orderType = "LIMIT")
      <3>1. UNCHANGED bookVars
        BY <2>2 DEF Finish
      <3> QED
        BY <3>1, SameBook DEF EngineInv
    <2> QED
      BY <2>1, <2>2
  <1>3. TypeOK'
    BY <1>2, BookAssumption DEF Finish, TypeOK, BookInv
  <1> QED
    BY <1>2, <1>3 DEF EngineInv

LEMMA StepEngine == EngineInv /\ [Next]_vars => EngineInv'
  <1> SUFFICES ASSUME EngineInv, [Next]_vars PROVE EngineInv'
    OBVIOUS
  <1>1. ASSUME UNCHANGED bookVars PROVE BookInv'
    BY <1>1, SameBook DEF EngineInv
  <1>2. ASSUME NEW o \in Order, Match(o) PROVE EngineInv'
    <2>1. o.quantity \in 0..MaxQuantity
      BY BookAssumption DEF Order, Quantities
    <2>2. BookInv'
      BY <1>1, <1>2 DEF Match
    <2> QED
      BY <1>2, <2>1, <2>2 DEF Match, EngineInv, TypeOK, BookInv
  <1>3. ASSUME NEW id \in OrderIds, Cancel(id) PROVE EngineInv'
    <2>1. BookInv'
      BY <1>3, CancelKeepsBook DEF Cancel
    <2> QED
      BY <1>3, <2>1 DEF Cancel, EngineInv, TypeOK, BookInv
  <1>4. ASSUME NEW id \in OrderIds, CancelUnknown(id) PROVE EngineInv'
    <2>1. BookInv'
      BY <1>1, <1>4 DEF CancelUnknown
    <2> QED
      BY <1>4, <2>1 DEF CancelUnknown, EngineInv, TypeOK, BookInv
  <1>5. CASE UNCHANGED vars
    <2>1. BookInv'
      BY <1>1, <1>5 DEF vars
    <2> QED
      BY <1>5, <2>1 DEF vars, engineVars, EngineInv, TypeOK, BookInv
  <1> QED
    BY <1>2, <1>3, <1>4, <1>5, FillKeepsEngine, FinishKeepsEngine DEF Next

(* Whatever orders and cancels arrive, with ids reused or not, the book is *)
(* never crossed, no level is empty, no entry of order_map_ dangles, and   *)
(* every order whose id was not reused can be cancelled.                   *)
THEOREM BookCorrect == Spec => []BookInv
  <1>1. EngineInv => BookInv
    BY DEF EngineInv
  <1> QED
    BY <1>1, InitEngine, StepEngine, PTL DEF Spec

(* Quantities stay positive and remaining_quantity never wraps.            *)
THEOREM EngineTypes == Spec => []TypeOK
  <1>1. EngineInv => TypeOK
    BY DEF EngineInv
  <1> QED
    BY <1>1, InitEngine, StepEngine, PTL DEF Spec

(* What the parts of it say: match leaves nothing in the book that could   *)
(* trade,                                                                  *)
THEOREM NeverCrossed == Spec => []NotCrossed
  BY BookCorrect, PTL DEF BookInv

(* front() of a level that begin() names is never called on an empty list, *)
THEOREM LevelsNeverEmpty == Spec => []NoEmptyLevel
  BY BookCorrect, PTL DEF BookInv

(* cancel_order never erases through an iterator that dangles or that      *)
(* points at another order,                                                *)
THEOREM IteratorsNeverDangle == Spec => []IndexSound
  BY BookCorrect, PTL DEF BookInv

(* and cancel_order finds every resting order whose id was not reused.     *)
THEOREM OrdersCancellable == Spec => []IndexComplete
  BY BookCorrect, PTL DEF BookInv
=============================================================================
