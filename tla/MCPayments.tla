----------------------------- MODULE MCPayments -----------------------------
(* Small instances of Credit and of HtlcSet for TLC.  The two share no      *)
(* state: each is explored while the other rests at its initial state, in   *)
(* which none of its fair actions is enabled.                               *)
EXTENDS Credit, HtlcSet, TLC

CONSTANTS p1, p2, p3, h1, h2, gold, silver

(* The credit channel. *)
Credits == [p \in Payments |-> 2]
HtlcAmounts == [h \in Htlcs |-> IF h = h1 THEN 4 ELSE 2]

(* The payments in parts. *)
Onion(msat, total, secret, asset) ==
    [msat |-> msat, total |-> total, secret |-> secret, asset |-> asset]
Payment(o1, o2, o3) == p1 :> o1 @@ p2 :> o2 @@ p3 :> o3

(* Three parts that make the total together; a third part that names        *)
(* another total, is in another asset, has no secret, is too small an       *)
(* offer, or overflows the sum.                                             *)
Splits ==
    {Payment(Onion(1, 4, TRUE, gold), Onion(1, 4, TRUE, gold),
             Onion(2, 4, TRUE, gold)),
     Payment(Onion(2, 4, TRUE, gold), Onion(2, 4, TRUE, gold),
             Onion(2, 6, TRUE, gold)),
     Payment(Onion(2, 4, TRUE, gold), Onion(2, 4, TRUE, gold),
             Onion(4, 4, TRUE, silver)),
     Payment(Onion(2, 4, TRUE, gold), Onion(2, 4, TRUE, gold),
             Onion(2, 4, FALSE, gold)),
     Payment(Onion(2, 4, TRUE, gold), Onion(2, 4, TRUE, gold),
             Onion(3, 3, TRUE, gold)),
     Payment(Onion(2, 8, TRUE, gold), Onion(7, 8, TRUE, gold),
             Onion(8, 8, FALSE, gold))}

(* The payer sends one part more than the total. *)
OnePartTooMany == [p \in Parts |-> Onion(2, 4, TRUE, gold)]

(* No part comes: the credit channel has the run to itself. *)
NoPayment ==
    [msat |-> 0, asset |-> NoAsset, required |-> FALSE, onion |-> OnePartTooMany,
     restarts |-> 0, onchain |-> 0, deletes |-> FALSE]

SetScenarios ==
    {[msat |-> 4, asset |-> a, required |-> r, onion |-> o,
      restarts |-> 1, onchain |-> IF d THEN 0 ELSE 1, deletes |-> d] :
        a \in {NoAsset, gold}, r \in BOOLEAN, d \in BOOLEAN,
        o \in Splits \cup {OnePartTooMany}} \cup {NoPayment}

PaymentInit == Init /\ SetInit

PaymentNext ==
    \/ sc = NoPayment /\ Next /\ UNCHANGED set_vars
    \/ sc # NoPayment /\ SetNext /\ UNCHANGED vars

PaymentSpec ==
    /\ PaymentInit
    /\ [][PaymentNext]_<<vars, set_vars>>
    /\ CreditFairness /\ SetFairness
=============================================================================
