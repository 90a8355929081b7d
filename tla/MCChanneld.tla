---------------------------- MODULE MCChanneld ----------------------------
(* Small instances of Channeld for TLC: what the environment does in each. *)
EXTENDS Channeld

Htlcs(a, b) == [n \in Nodes |-> IF n = A THEN a ELSE b]

(* An HTLC each way with a feerate change or with a lost connection.        *)
DanceBudgets ==
    {[htlcs |-> Htlcs(1, 1), rates |-> <<3>>, cuts |-> 0, closers |-> {}],
     [htlcs |-> Htlcs(1, 1), rates |-> << >>, cuts |-> 1, closers |-> {}]}

(* Two HTLCs one way and two lost connections; an HTLC with two feerate     *)
(* changes and one lost connection, or with one and one or two; two feerate *)
(* changes, up or down, and two lost connections.                           *)
ResendBudgets ==
    {[htlcs |-> Htlcs(2, 0), rates |-> << >>, cuts |-> 2, closers |-> {}],
     [htlcs |-> Htlcs(1, 0), rates |-> <<3>>, cuts |-> 1, closers |-> {}],
     [htlcs |-> Htlcs(0, 1), rates |-> <<4, 3>>, cuts |-> 1, closers |-> {}],
     [htlcs |-> Htlcs(0, 1), rates |-> <<3>>, cuts |-> 2, closers |-> {}],
     [htlcs |-> Htlcs(0, 0), rates |-> <<3, 4>>, cuts |-> 2, closers |-> {}],
     [htlcs |-> Htlcs(0, 0), rates |-> <<4, 3>>, cuts |-> 2, closers |-> {}]}

(* Either user closing amid an HTLC and either a lost connection or a       *)
(* feerate change.                                                          *)
CloseBudgets ==
    {[htlcs |-> Htlcs(1, 0), rates |-> << >>, cuts |-> 1, closers |-> Nodes],
     [htlcs |-> Htlcs(1, 0), rates |-> <<3>>, cuts |-> 0, closers |-> Nodes]}

AllBudgets == DanceBudgets \cup ResendBudgets \cup CloseBudgets

(* The node that offered an HTLC closes; a connection is lost. *)
LivenessBudgets ==
    {[htlcs |-> Htlcs(1, 0), rates |-> << >>, cuts |-> 1, closers |-> {A}]}

(* Two HTLCs of the accepter cross the opener's fee update. *)
AffordBudgets ==
    {[htlcs |-> Htlcs(0, 2), rates |-> <<3>>, cuts |-> 0, closers |-> {}]}

(* The other node closes; a connection is lost. *)
LostShutdownBudgets ==
    {[htlcs |-> Htlcs(1, 0), rates |-> << >>, cuts |-> 1, closers |-> {B}]}
============================================================================
