---------------------------- MODULE MCNetworkUtils ----------------------------
(***************************************************************************)
(* The wire format and read_message, for model checking.                   *)
(***************************************************************************)
EXTENDS NetworkUtils

(* Eight and four bytes: all zero, all the largest, and all different.     *)
Largest(n) == Radix^n - 1
Distinct(n) == Value([i \in 1..n |-> i % Radix])

(* Messages of every type; neighbouring fields differ in every byte.       *)
AllMessages ==
  [type : {2, 3, 6}, id : {0, Distinct(8)}]
    \cup
  {[type |-> 1, id |-> Distinct(8), price |-> p, quantity |-> Distinct(4), side |-> 1, orderType |-> 0] :
     p \in {1, Largest(8)}}
    \cup
  {[type |-> 1, id |-> 0, price |-> 0, quantity |-> Largest(4), side |-> 0, orderType |-> 1]}
    \cup
  {[type |-> 4, id |-> Distinct(8), reason |-> r] : r \in {<<>>, [i \in 1..Radix |-> i % Radix]}}
    \cup
  {[type |-> 5, price |-> Distinct(8), buyer_order_id |-> Largest(8), seller_order_id |-> 1,
    quantity |-> Distinct(4), timestamp |-> t] : t \in {0, Largest(8)}}
=============================================================================
