--------------------------- MODULE MCMatchingEngine ---------------------------
(***************************************************************************)
(* The matching engine and the book's depth against what they promise, for *)
(* model checking.                                                         *)
(***************************************************************************)
EXTENDS MatchingEngine, BookDepth

Symmetry == Permutations(Nodes)

(* The book a caller sees: a match in progress has not happened yet.       *)
DepthOf(l) ==
  [s \in Sides |-> [p \in Prices |->
     IF p \in DOMAIN l[s]
     THEN [k \in DOMAIN l[s][p] |-> [id |-> l[s][p][k].id, quantity |-> l[s][p][k].quantity]]
     ELSE <<>>]]

Priority == INSTANCE PriceTimeBook WITH depth <- DepthOf(IF taker = None THEN levels ELSE before)

(* The loops of match compute what price-time priority defines outright,   *)
(* and cancel_order removes the order named, and can miss a resting order  *)
(* only if its id was used for two orders at a time.                       *)
ImplementsPriority == Priority!Spec
=============================================================================
