----------------------------- MODULE MCClosing ------------------------------
(* Small instances of Closing for TLC. *)
EXTENDS Closing

Fees(min, desired, max) == [min |-> min, desired |-> desired, max |-> max]
Each(o, a) == [n \in Nodes |-> IF n = Opener THEN o ELSE a]
Pct(k) == [by |-> k, unit |-> "%"]
Sat(k) == [by |-> k, unit |-> "sat"]

Plan(fees, step, closers, cuts, restarts) ==
    [fees |-> fees, step |-> step, floor |-> Each(1, 1), closers |-> closers,
     cuts |-> cuts, restarts |-> restarts]

(* Quick close: ranges that overlap, with fees that change; ranges that do  *)
(* not, fees the opener cannot pay, and a user who allows less than         *)
(* lightningd itself, with a user who waits.                                *)
QuickPlans ==
    {Plan(Each({Fees(2, 3, 6), Fees(3, 5, 8)}, {Fees(1, 4, 7), Fees(5, 9, 10)}),
          Each(Pct(50), Pct(50)), c, 2, 1) : c \in SUBSET Nodes}
    \cup {Plan(Each({Fees(2, 3, 4)}, {Fees(6, 7, 8), Fees(3, 5, 8)}),
               Each(Pct(50), Pct(50)), {Opener}, 1, 0),
          Plan(Each({Fees(2, 11, 12)}, {Fees(6, 7, 8)}),
               Each(Pct(50), Pct(50)), {Accepter}, 1, 0),
          [Plan(Each({Fees(1, 2, 6)}, {Fees(1, 2, 6)}),
                Each(Pct(50), Pct(50)), {Opener}, 1, 0)
             EXCEPT !.floor = Each(3, 1)]}

(* Rounds: a node whose user gave a step, against one that has ranges or    *)
(* one that has not, from either side of the fee.                           *)
Steps == {Pct(50), Pct(30), Pct(100), Sat(1), Sat(2)}
RoundPlans ==
    {Plan(Each({Fees(2, o, 10)}, {Fees(m, a, 10)}), Each(s, t), Nodes, 1, 0) :
        o \in {2, 9}, m \in {1, 4}, a \in {4, 10}, s \in Steps, t \in Steps}

ClosePlans == QuickPlans \cup RoundPlans
=============================================================================
