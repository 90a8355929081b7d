------------------------------ MODULE MCSwap ------------------------------
(* Small instances of Swap for TLC. *)
EXTENDS Swap

(* Either node gives two in one lane for two in the other, all it has;      *)
(* HTLCs ha and hb need the same money as swap 1, hc does not.              *)
SwapTerms == [i \in {1, 2} |->
    [by |-> IF i = 1 THEN "A" ELSE "B", give_lane |-> 1, give |-> 2,
     take_lane |-> 2, take |-> 2]]
HtlcOffers == [ha |-> [by |-> "A", lane |-> 2, amount |-> 1],
               hb |-> [by |-> "B", lane |-> 1, amount |-> 1],
               hc |-> [by |-> "A", lane |-> 1, amount |-> 1]]
LaneCapacity == [l \in {1, 2} |-> 4]
LaneShare == [l \in {1, 2} |-> 2]
SwapPlans ==
    {[swaps |-> {1}, htlcs |-> {"ha", "hb"}, cuts |-> 1],
     [swaps |-> {1}, htlcs |-> {"hb"}, cuts |-> 2],
     [swaps |-> {1}, htlcs |-> {"hc"}, cuts |-> 1],
     [swaps |-> {1, 2}, htlcs |-> {}, cuts |-> 2]}
=============================================================================
