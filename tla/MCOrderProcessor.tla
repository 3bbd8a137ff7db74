--------------------------- MODULE MCOrderProcessor ---------------------------
(***************************************************************************)
(* The order processor, for model checking.                                *)
(***************************************************************************)
EXTENDS OrderProcessor, TLC

Symmetry == Permutations(Nodes) \cup Permutations(Fds) \cup Permutations(OrderIds)

(* Every valid order and every cancel, and one order for each check of     *)
(* Order's constructor that fails it.                                      *)
AllRequests ==
  {m \in InboundMessage : m.type = "NEW_ORDER" /\ ~Valid(m.payload) =>
     /\ m.payload.side = "BID"
     /\ <<m.payload.orderType, m.payload.price, m.payload.quantity>> \in
          {<<"LIMIT", 0, 1>>, <<"MARKET", 1, 1>>, <<"LIMIT", 1, 0>>}}
=============================================================================
