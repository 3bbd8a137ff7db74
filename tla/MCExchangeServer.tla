--------------------------- MODULE MCExchangeServer ---------------------------
(***************************************************************************)
(* The I/O thread, for model checking.                                     *)
(***************************************************************************)
EXTENDS ExchangeServer

NewOrder == [type |-> 1, payload |-> <<2, 1>>]
CancelOrder == [type |-> 2, payload |-> <<1>>]
KeepAlive == [type |-> 1, payload |-> <<>>]

StreamRequests == {NewOrder, KeepAlive}
ShortRequests == {CancelOrder}
=============================================================================
