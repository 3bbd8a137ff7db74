------------------------------ MODULE MCExchange ------------------------------
(***************************************************************************)
(* The exchange with its clients, for model checking.                      *)
(***************************************************************************)
EXTENDS Exchange

Draw(side, orderType, quantity) ==
  [side |-> side, orderType |-> orderType, sampled |-> 0, quantity |-> quantity]

(* Two asks fill a bid, one leaves half of it, and a market order takes    *)
(* one, two or none.                                                       *)
SomeDraws == {Draw("ASK", "LIMIT", 1), Draw("BID", "LIMIT", 2), Draw("BID", "MARKET", 2)}

AllFds == {Fd(t) : t \in Threads}
AllIds == {starting_id(t) + n : t \in Threads, n \in 0..IdStride - 1}
=============================================================================
