----------------------------- MODULE MCForward -----------------------------
(* Small instances of Forward for TLC. *)
EXTENDS Forward
CONSTANTS h1, h2

(* The second HTLC expires a block later.  With a cltv_expiry_delta of 4,   *)
(* half of it rounded up before the incoming expiry.                        *)
Expiries(first) == [h \in Htlcs |-> IF h = h1 THEN first ELSE first + 1]
OutExpiries == Expiries(1)
OutDeadlines == Expiries(2)
InDeadlines == Expiries(3)
InExpiries == Expiries(5)
============================================================================
