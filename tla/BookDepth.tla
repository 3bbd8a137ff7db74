------------------------------- MODULE BookDepth -------------------------------
(***************************************************************************)
(* The depth of the book as print_depth shows it: the best levels of each  *)
(* side with the total quantity at each, the asks above the bids.          *)
(***************************************************************************)
EXTENDS OrderBook, SequencesExt

CONSTANTS
  MaxLevels,        \* bound: the largest argument of print_depth
  QuantityModulus   \* 2^32: the totals are summed in a Quantity

ASSUME DepthAssumption == MaxLevels \in Nat /\ QuantityModulus \in Nat \ {0}

(* The sum over a level's orders, in an unsigned variable.                 *)
Total(s, p) ==
  MapThenSumSet(LAMBDA k : levels[s][p][k].quantity, DOMAIN levels[s][p]) % QuantityModulus

(* The loop over the first n levels of a side, in the map's order.         *)
BestLevels(s, n) ==
  LET prices == SetToSortSeq(DOMAIN levels[s], LAMBDA p, q : Better(s, p, q))
  IN  [i \in 1..Min({n, Len(prices)}) |-> [price |-> prices[i], total |-> Total(s, prices[i])]]

(* The lines printed: asks are collected best first and printed last first. *)
print_depth_collected(n) == BestLevels("ASK", n) \o BestLevels("BID", n)
print_depth(n) == Reverse(BestLevels("ASK", n)) \o BestLevels("BID", n)

(* What print_depth prints reads as a ladder: prices fall from line to     *)
(* line, also across the separator, so the spread is in the middle; and a  *)
(* level left out is worse than every level printed for its side.          *)
DepthIsLadder ==
  \A n \in 0..MaxLevels :
    LET lines == print_depth(n)
        printed == {lines[i].price : i \in DOMAIN lines}
    IN  /\ \A i, j \in DOMAIN lines : i < j => lines[i].price > lines[j].price
        /\ \A s \in Sides : \A p \in DOMAIN levels[s] \ printed, q \in DOMAIN levels[s] \cap printed :
             Better(s, q, p)
=============================================================================
